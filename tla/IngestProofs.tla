---------------------------- MODULE IngestProofs ----------------------------
(*****************************************************************************)
(* From a posting to its columns, for any postings that meet the assumptions  *)
(* of Ingest.  The texts are compared atom by atom.                          *)
(*                                                                           *)
(* The description: SanitizeDescription is a loop over what the tokenizer    *)
(* reports, and WordsOf reads a text from left to right; LoopInv relates     *)
(* what the loop has written to what a browser has displayed.                *)
(* The place: city, country and badge are found again in the text they are   *)
(* joined to.  The salary: of the few texts SalaryRawText composes, the      *)
(* parser finds the range or the single bound.  The level, and the two keys: *)
(* what a title and a company's name are dressed up in is set apart by       *)
(* marks, so that no word of the name is taken for it, and it leaves         *)
(* nothing, or blanks that are collapsed.                                    *)
(*****************************************************************************)
EXTENDS Ingest, Sums, TLAPS

----------------------------------------------------------------------------
(* Leaving out members, and repeated blanks *)

LEMMA WithoutAppend ==
    ASSUME NEW A, NEW set, NEW s \in Seq(A), NEW x \in A
    PROVE  /\ Without(s, set) \in Seq(A)
           /\ Without(Append(s, x), set) =
                IF x \in set THEN Without(s, set) ELSE Append(Without(s, set), x)
<1> DEFINE n == Len(s)
           t == Append(s, x)
           p == [i \in 1..n |-> IF s[i] \in set THEN <<>> ELSE <<s[i]>>]
           q == [i \in 1..n + 1 |-> IF t[i] \in set THEN <<>> ELSE <<t[i]>>]
<1>1. /\ n \in Nat /\ DOMAIN s = 1..n /\ DOMAIN t = 1..n + 1
      /\ \A i \in 1..n : t[i] = s[i] /\ i \in 1..n + 1
      /\ t[n + 1] = x /\ n + 1 \in 1..n + 1
      /\ \A i \in 1..n + 1 : t[i] \in A
      /\ \A i \in 1..n : s[i] \in A
  OBVIOUS
<1>2. Without(s, set) = FlattenSeq(p) /\ Without(t, set) = FlattenSeq(q)
  BY <1>1 DEF Without
<1>3. q[n + 1] = IF x \in set THEN <<>> ELSE <<x>>
  BY <1>1
<1>n. n \in Nat
  OBVIOUS
<1> HIDE DEF t, n
<1>4. p \in [1..n -> Seq(A)] /\ q \in [1..n + 1 -> Seq(A)] /\ \A i \in 1..n : q[i] = p[i]
  BY <1>1
<1> HIDE DEF p, q
<1>5. FlattenSeq(p) \in Seq(A) /\ FlattenSeq(q) = FlattenSeq(p) \o q[n + 1]
  BY <1>n, <1>4, FlattenSeqOneMore
<1> QED
  BY <1>2, <1>3, <1>5 DEF t

LEMMA WithoutEmpty == ASSUME NEW set PROVE Without(<< >>, set) = << >>
<1>1. [i \in DOMAIN << >> |-> IF << >>[i] \in set THEN <<>> ELSE <<<< >>[i]>>] = << >>
  OBVIOUS
<1> QED
  BY <1>1, FlattenSeqEmpty DEF Without

LEMMA WithoutType ==
    ASSUME NEW A, NEW set, NEW s \in Seq(A)
    PROVE  Without(s, set) \in Seq(A)
<1>1. CASE s = <<>>
  BY <1>1, WithoutEmpty
<1>2. CASE s # <<>>
  BY <1>2, SeqIsAppend, WithoutAppend
<1> QED
  BY <1>1, <1>2

\* The blanks that are neither the first atom nor after another one, and all
\* that is not blank.
Kept(s, blank) ==
    FlattenSeq([i \in DOMAIN s |->
        IF s[i] = blank /\ (i = 1 \/ s[i - 1] = blank) THEN <<>> ELSE <<s[i]>>])

Trimmed(s, blank) == IF s # <<>> /\ Last(s) = blank THEN Front(s) ELSE s

LEMMA CollapseIsTrimmedKept ==
    ASSUME NEW s, NEW blank PROVE Collapse(s, blank) = Trimmed(Kept(s, blank), blank)
BY DEF Collapse, Trimmed, Kept

\* One more atom of a text whose superfluous blanks are left out.
Then(k, x, blank) ==
    IF x = blank /\ (k = <<>> \/ Last(k) = blank) THEN k ELSE Append(k, x)

LEMMA KeptIsSeq ==
    ASSUME NEW A, NEW b, NEW s \in Seq(A), NEW x \in A
    PROVE  /\ Kept(s, b) \in Seq(A)
           /\ Kept(Append(s, x), b) =
                IF x = b /\ (s = <<>> \/ Last(s) = b) THEN Kept(s, b) ELSE Append(Kept(s, b), x)
<1> DEFINE n == Len(s)
           t == Append(s, x)
           p == [i \in 1..n |-> IF s[i] = b /\ (i = 1 \/ s[i - 1] = b) THEN <<>> ELSE <<s[i]>>]
           q == [i \in 1..n + 1 |->
                    IF t[i] = b /\ (i = 1 \/ t[i - 1] = b) THEN <<>> ELSE <<t[i]>>]
<1>1. /\ n \in Nat /\ DOMAIN s = 1..n /\ DOMAIN t = 1..n + 1
      /\ \A i \in 1..n : t[i] = s[i] /\ i \in 1..n + 1
      /\ t[n + 1] = x /\ n + 1 \in 1..n + 1
      /\ \A i \in 1..n + 1 : t[i] \in A
      /\ \A i \in 1..n : s[i] \in A
      /\ \A i \in 1..n : i # 1 => i - 1 \in 1..n
      /\ s = <<>> <=> n = 0
      /\ n # 0 => Last(s) = s[n] /\ n \in 1..n
      /\ (n + 1) - 1 = n
  BY DEF Last
<1>2. Kept(s, b) = FlattenSeq(p) /\ Kept(t, b) = FlattenSeq(q)
  BY <1>1 DEF Kept
<1>n. n \in Nat
  OBVIOUS
<1> HIDE DEF t, n
<1>3. q[n + 1] = IF x = b /\ (s = <<>> \/ Last(s) = b) THEN <<>> ELSE <<x>>
  BY <1>1
<1>4. p \in [1..n -> Seq(A)] /\ q \in [1..n + 1 -> Seq(A)] /\ \A i \in 1..n : q[i] = p[i]
  BY <1>1
<1> HIDE DEF p, q
<1>5. FlattenSeq(p) \in Seq(A) /\ FlattenSeq(q) = FlattenSeq(p) \o q[n + 1]
  BY <1>n, <1>4, FlattenSeqOneMore
<1> QED
  BY <1>2, <1>3, <1>5 DEF t

LEMMA KeptEmpty == ASSUME NEW b PROVE Kept(<< >>, b) = << >>
<1>1. [i \in DOMAIN << >> |->
        IF << >>[i] = b /\ (i = 1 \/ << >>[i - 1] = b) THEN <<>> ELSE <<<< >>[i]>>] = << >>
  OBVIOUS
<1> QED
  BY <1>1, FlattenSeqEmpty DEF Kept

LEMMA KeptType ==
    ASSUME NEW A, NEW b, NEW s \in Seq(A)
    PROVE  Kept(s, b) \in Seq(A)
<1>1. CASE s = <<>>
  BY <1>1, KeptEmpty
<1>2. CASE s # <<>>
  BY <1>2, SeqIsAppend, KeptIsSeq
<1> QED
  BY <1>1, <1>2

\* What is kept ends in a blank, or is empty, exactly if the text does.
EndsBlank(s, b) == s = <<>> \/ Last(s) = b

LEMMA KeptEnds ==
    ASSUME NEW A, NEW b, NEW s \in Seq(A)
    PROVE  EndsBlank(Kept(s, b), b) <=> EndsBlank(s, b)
<1> DEFINE T == {t \in Seq(A) : EndsBlank(Kept(t, b), b) <=> EndsBlank(t, b)}
<1>1. << >> \in T
  BY KeptEmpty DEF EndsBlank
<1>2. ASSUME NEW t \in Seq(A), NEW x \in A, t \in T
      PROVE  Append(t, x) \in T
  <2>1. CASE x = b /\ EndsBlank(t, b)
    <3>1. Kept(Append(t, x), b) = Kept(t, b)
      BY <2>1, KeptIsSeq DEF EndsBlank
    <3> QED
      BY <1>2, <2>1, <3>1, AppendIsSeq DEF EndsBlank
  <2>2. CASE ~(x = b /\ EndsBlank(t, b))
    <3>1. Kept(Append(t, x), b) = Append(Kept(t, b), x) /\ Kept(t, b) \in Seq(A)
      BY <2>2, KeptIsSeq DEF EndsBlank
    <3>2. EndsBlank(Append(Kept(t, b), x), b) <=> x = b
      BY <3>1, AppendIsSeq DEF EndsBlank
    <3>3. EndsBlank(Append(t, x), b) <=> x = b
      BY AppendIsSeq DEF EndsBlank
    <3> QED
      BY <3>1, <3>2, <3>3, AppendIsSeq
  <2> QED
    BY <2>1, <2>2
<1>3. Seq(A) \subseteq T
  <2> HIDE DEF T
  <2> QED
    BY <1>1, <1>2, InductiveSeq
<1> QED
  BY <1>3

LEMMA KeptAppend ==
    ASSUME NEW A, NEW b, NEW s \in Seq(A), NEW x \in A
    PROVE  Kept(Append(s, x), b) = Then(Kept(s, b), x, b)
BY KeptIsSeq, KeptEnds DEF Then, EndsBlank

LEMMA ThenIsSeq ==
    ASSUME NEW A, NEW b, NEW k \in Seq(A), NEW x \in A
    PROVE  Then(k, x, b) \in Seq(A)
BY DEF Then

\* A second blank adds nothing, and a last one is trimmed.
LEMMA ThenBlank ==
    ASSUME NEW A, NEW b \in A, NEW k \in Seq(A)
    PROVE  /\ EndsBlank(Then(k, b, b), b)
           /\ EndsBlank(k, b) => Then(k, b, b) = k
           /\ Then(Then(k, b, b), b, b) = Then(k, b, b)
           /\ Trimmed(Then(k, b, b), b) = Trimmed(k, b)
<1>1. CASE EndsBlank(k, b)
  BY <1>1 DEF EndsBlank, Then
<1>2. CASE ~EndsBlank(k, b)
  <2>1. Then(k, b, b) = Append(k, b) /\ Trimmed(k, b) = k
    BY <1>2 DEF EndsBlank, Then, Trimmed
  <2>2. /\ Append(k, b) # <<>> /\ Last(Append(k, b)) = b /\ Front(Append(k, b)) = k
    BY AppendIsSeq
  <2> QED
    BY <1>2, <2>1, <2>2 DEF EndsBlank, Then, Trimmed
<1> QED
  BY <1>1, <1>2

\* No blank comes first or after another one.
Single(s, b) == \A i \in DOMAIN s : s[i] = b => i # 1 /\ s[i - 1] # b

LEMMA KeptIsSingle ==
    ASSUME NEW A, NEW b, NEW s \in Seq(A)
    PROVE  Single(Kept(s, b), b)
<1> DEFINE T == {t \in Seq(A) : Single(Kept(t, b), b)}
<1>1. << >> \in T
  BY KeptEmpty DEF Single
<1>2. ASSUME NEW t \in Seq(A), NEW x \in A, t \in T
      PROVE  Append(t, x) \in T
  <2> DEFINE k == Kept(t, b)
  <2>1. k \in Seq(A) /\ Kept(Append(t, x), b) = Then(k, x, b) /\ Single(k, b)
    BY <1>2, KeptIsSeq, KeptAppend
  <2> HIDE DEF k
  <2>2. Single(Then(k, x, b), b)
    <3>1. CASE Then(k, x, b) = k
      BY <2>1, <3>1
    <3>2. CASE Then(k, x, b) = Append(k, x) /\ ~(x = b /\ (k = <<>> \/ Last(k) = b))
      <4> DEFINE l == Append(k, x)
      <4>1. /\ DOMAIN l = 1..Len(k) + 1 /\ DOMAIN k = 1..Len(k) /\ Len(k) \in Nat
            /\ \A i \in 1..Len(k) : l[i] = k[i] /\ (i # 1 => i - 1 \in 1..Len(k) /\ l[i - 1] = k[i - 1])
            /\ l[Len(k) + 1] = x /\ (k # <<>> => Last(k) = l[Len(k)]) /\ (k = <<>> <=> Len(k) = 0)
        BY <2>1 DEF Last
      <4> HIDE DEF l
      <4>2. ASSUME NEW i \in 1..Len(k) + 1, l[i] = b PROVE i # 1 /\ l[i - 1] # b
        <5>1. CASE i \in 1..Len(k)
          BY <2>1, <4>1, <4>2, <5>1 DEF Single
        <5>2. CASE i = Len(k) + 1
          BY <3>2, <4>1, <4>2, <5>2
        <5> QED
          BY <4>1, <5>1, <5>2
      <4>3. Single(l, b)
        BY <4>1, <4>2 DEF Single
      <4> QED
        BY <3>2, <4>3 DEF l
    <3> QED
      BY <3>1, <3>2 DEF Then
  <2>3. Append(t, x) \in Seq(A)
    OBVIOUS
  <2> QED
    BY <2>1, <2>2, <2>3
<1>3. Seq(A) \subseteq T
  <2> HIDE DEF T
  <2> QED
    BY <1>1, <1>2, InductiveSeq
<1> QED
  BY <1>3

LEMMA CollapseIsSeq ==
    ASSUME NEW A, NEW b, NEW s \in Seq(A)
    PROVE  Collapse(s, b) \in Seq(A) /\ Single(Collapse(s, b), b)
<1> DEFINE k == Kept(s, b)
<1>1. k \in Seq(A) /\ Single(k, b) /\ Collapse(s, b) = Trimmed(k, b)
  BY KeptType, KeptIsSingle, CollapseIsTrimmedKept
<1> HIDE DEF k
<1>2. CASE k # <<>> /\ Last(k) = b
  <2> DEFINE f == Front(k)
  <2>1. f \in Seq(A) /\ Last(k) \in A /\ k = Append(f, Last(k))
    BY <1>1, <1>2, SeqIsAppend
  <2> HIDE DEF f
  <2>2. /\ DOMAIN f = 1..Len(f) /\ Len(f) \in Nat /\ DOMAIN k = 1..Len(f) + 1
        /\ \A i \in 1..Len(f) : k[i] = f[i]
    BY <2>1, SMTT(20)
  <2>3. ASSUME NEW i \in 1..Len(f), f[i] = b PROVE i # 1 /\ f[i - 1] # b
    <3>1. k[i] = b /\ i \in DOMAIN k
      BY <2>2, <2>3
    <3>2. i # 1 /\ k[i - 1] # b
      BY <1>1, <3>1 DEF Single
    <3>3. i - 1 \in 1..Len(f)
      BY <2>2, <3>2
    <3> QED
      BY <2>2, <3>2, <3>3
  <2>4. Single(f, b)
    BY <2>2, <2>3 DEF Single
  <2> QED
    BY <1>1, <1>2, <2>1, <2>4 DEF Trimmed, f
<1>3. CASE ~(k # <<>> /\ Last(k) = b)
  BY <1>1, <1>3 DEF Trimmed
<1> QED
  BY <1>2, <1>3

----------------------------------------------------------------------------
(* The words of a text *)

Fade(x) == IF IsFragment(x) THEN x ELSE Blank

\* The words read so far, with a blank at the end if the last one is complete.
Scan(s) == Kept([i \in DOMAIN s |-> Fade(s[i])], Blank)

LEMMA WordsAreScanned ==
    ASSUME NEW s PROVE WordsOf(s) = Trimmed(Scan(s), Blank)
BY CollapseIsTrimmedKept DEF WordsOf, Scan, Fade

LEMMA ScanEmpty == Scan(<< >>) = << >>
<1>1. [i \in DOMAIN << >> |-> Fade(<< >>[i])] = << >>
  OBVIOUS
<1> QED
  BY <1>1, KeptEmpty DEF Scan

LEMMA ScanAppend ==
    ASSUME NEW A, Blank \in A, NEW s \in Seq(A), NEW x \in A
    PROVE  /\ Scan(s) \in Seq(A) /\ Fade(x) \in A
           /\ Scan(Append(s, x)) = Then(Scan(s), Fade(x), Blank)
<1> DEFINE f == [i \in DOMAIN s |-> Fade(s[i])]
           g == [i \in DOMAIN Append(s, x) |-> Fade(Append(s, x)[i])]
<1>1. \A y \in A : Fade(y) \in A
  BY DEF Fade
<1>2. f \in Seq(A)
  <2>1. \A i \in 1..Len(s) : Fade(s[i]) \in A
    BY <1>1
  <2> QED
    BY <2>1
<1>3. g = Append(f, Fade(x))
  OBVIOUS
<1>4. Scan(s) = Kept(f, Blank) /\ Scan(Append(s, x)) = Kept(g, Blank)
  BY DEF Scan
<1> HIDE DEF f, g
<1>5. Kept(f, Blank) \in Seq(A) /\ Kept(Append(f, Fade(x)), Blank) = Then(Kept(f, Blank), Fade(x), Blank)
  BY <1>1, <1>2, KeptType, KeptAppend
<1> QED
  BY <1>1, <1>3, <1>4, <1>5

LEMMA ScanType ==
    ASSUME NEW A, Blank \in A, NEW s \in Seq(A)
    PROVE  Scan(s) \in Seq(A)
BY ScanAppend

\* After an atom that belongs to no word.
LEMMA ScanEnds ==
    ASSUME NEW A, Blank \in A, NEW s \in Seq(A), s = <<>> \/ ~IsFragment(Last(s))
    PROVE  EndsBlank(Scan(s), Blank)
<1>1. CASE s = <<>>
  BY <1>1, ScanEmpty DEF EndsBlank
<1>2. CASE s # <<>>
  <2>1. Front(s) \in Seq(A) /\ Last(s) \in A /\ s = Append(Front(s), Last(s))
    BY <1>2, SeqIsAppend
  <2>2. Scan(s) = Then(Scan(Front(s)), Blank, Blank) /\ Scan(Front(s)) \in Seq(A)
    BY <1>2, <2>1, ScanAppend DEF Fade
  <2> QED
    BY <2>2, ThenBlank
<1> QED
  BY <1>1, <1>2

LEMMA BlankIsNoFragment == ~IsFragment(Blank) /\ ~IsFragment(LineBreak)
BY DEF IsFragment, Marks, Blanks

LEMMA ScanOfKept ==
    ASSUME NEW A, Blank \in A, NEW s \in Seq(A)
    PROVE  Scan(Kept(s, Blank)) = Scan(s)
<1> DEFINE T == {t \in Seq(A) : Scan(Kept(t, Blank)) = Scan(t)}
<1>1. << >> \in T
  BY KeptEmpty
<1>2. ASSUME NEW t \in Seq(A), NEW x \in A, t \in T
      PROVE  Append(t, x) \in T
  <2> DEFINE k == Kept(t, Blank)
  <2>1. k \in Seq(A) /\ Kept(Append(t, x), Blank) = Then(k, x, Blank) /\ Scan(k) = Scan(t)
    BY <1>2, KeptType, KeptAppend
  <2>2. Scan(Append(t, x)) = Then(Scan(t), Fade(x), Blank) /\ Append(t, x) \in Seq(A)
    BY ScanAppend
  <2> HIDE DEF k
  <2>3. Scan(Then(k, x, Blank)) = Then(Scan(k), Fade(x), Blank)
    <3>1. CASE x = Blank /\ (k = <<>> \/ Last(k) = Blank)
      <4>1. Then(k, x, Blank) = k /\ Fade(x) = Blank
        BY <3>1, BlankIsNoFragment DEF Then, Fade
      <4>2. EndsBlank(Scan(k), Blank) /\ Scan(k) \in Seq(A)
        BY <2>1, <3>1, ScanEnds, ScanType, BlankIsNoFragment
      <4> QED
        BY <4>1, <4>2, ThenBlank
    <3>2. CASE ~(x = Blank /\ (k = <<>> \/ Last(k) = Blank))
      <4>1. Then(k, x, Blank) = Append(k, x)
        BY <3>2 DEF Then
      <4> QED
        BY <2>1, <4>1, ScanAppend
    <3> QED
      BY <3>1, <3>2
  <2> QED
    BY <2>1, <2>2, <2>3
<1>3. Seq(A) \subseteq T
  <2> HIDE DEF T
  <2> QED
    BY <1>1, <1>2, InductiveSeq
<1> QED
  BY <1>3

\* What follows after a complete word can be read by itself.
LEMMA ScanConcat ==
    ASSUME NEW A, Blank \in A, NEW u \in Seq(A), EndsBlank(Scan(u), Blank), NEW l \in Seq(A)
    PROVE  Scan(u \o l) = Scan(u) \o Scan(l)
<1> DEFINE T == {t \in Seq(A) : Scan(u \o t) = Scan(u) \o Scan(t)}
<1>0. Scan(u) \in Seq(A)
  BY ScanType
<1>1. << >> \in T
  <2>1. u \o << >> = u /\ Scan(u) \o << >> = Scan(u)
    BY <1>0
  <2>2. Scan(u \o << >>) = Scan(u) \o Scan(<< >>)
    BY <2>1, ScanEmpty
  <2>3. << >> \in Seq(A)
    OBVIOUS
  <2> QED
    BY <2>2, <2>3
<1>2. ASSUME NEW t \in Seq(A), NEW x \in A, t \in T
      PROVE  Append(t, x) \in T
  <2> DEFINE k == Scan(u)
             m == Scan(t)
             y == Fade(x)
  <2>1. u \o Append(t, x) = Append(u \o t, x) /\ u \o t \in Seq(A) /\ Append(t, x) \in Seq(A)
    OBVIOUS
  <2>2. /\ Scan(Append(u \o t, x)) = Then(Scan(u \o t), y, Blank)
        /\ Scan(Append(t, x)) = Then(m, y, Blank) /\ m \in Seq(A) /\ y \in A
    BY <2>1, ScanAppend
  <2>3. Scan(u \o t) = k \o m
    BY <1>2
  <2>4. k \in Seq(A) /\ EndsBlank(k, Blank)
    BY <1>0
  <2> HIDE DEF k, m, y, T
  <2>5. Then(k \o m, y, Blank) = k \o Then(m, y, Blank)
    <3>1. CASE m = <<>>
      <4>1. k \o m = k /\ k \o <<>> = k /\ k \o Append(m, y) = Append(k, y)
        BY <2>2, <2>4, <3>1
      <4> QED
        BY <2>4, <3>1, <4>1 DEF Then, EndsBlank
    <3>2. CASE m # <<>>
      <4>1. k \o m # <<>> /\ Last(k \o m) = Last(m) /\ k \o Append(m, y) = Append(k \o m, y)
        BY <2>2, <2>4, <3>2, SMTT(20) DEF Last
      <4> QED
        BY <3>2, <4>1 DEF Then
    <3> QED
      BY <3>1, <3>2
  <2>6. Scan(u \o Append(t, x)) = Scan(u) \o Scan(Append(t, x))
    BY <2>1, <2>2, <2>3, <2>5 DEF k
  <2> QED
    BY <2>1, <2>6 DEF T
<1>3. Seq(A) \subseteq T
  <2> HIDE DEF T
  <2> QED
    BY <1>1, <1>2, InductiveSeq
<1> QED
  BY <1>3

\* The words of a line that is over.
LineWords(l) == Scan(Append(l, LineBreak))

LEMMA LineWordsAre ==
    ASSUME NEW A, Blank \in A, LineBreak \in A, NEW l \in Seq(A)
    PROVE  LineWords(l) = Then(Scan(l), Blank, Blank) /\ LineWords(l) \in Seq(A)
<1>1. LineWords(l) = Then(Scan(l), Blank, Blank)
  BY ScanAppend, BlankIsNoFragment DEF LineWords, Fade
<1>2. Scan(l) \in Seq(A)
  BY ScanType
<1> QED
  BY <1>1, <1>2, ThenIsSeq

LEMMA EmptyLineHasNoWords == LineWords(<< >>) = << >>
<1>1. Blank \in {Blank, LineBreak} /\ LineBreak \in {Blank, LineBreak} /\ << >> \in Seq({Blank, LineBreak})
  OBVIOUS
<1>2. LineWords(<< >>) = Then(Scan(<< >>), Blank, Blank)
  BY <1>1, LineWordsAre
<1> QED
  BY <1>2, ScanEmpty DEF Then

LEMMA CollapseKeepsLineWords ==
    ASSUME NEW A, Blank \in A, LineBreak \in A, NEW l \in Seq(A)
    PROVE  LineWords(Collapse(l, Blank)) = LineWords(l)
<1> DEFINE k == Kept(l, Blank)
<1>1. k \in Seq(A) /\ Scan(k) = Scan(l) /\ Collapse(l, Blank) = Trimmed(k, Blank)
  BY KeptType, ScanOfKept, CollapseIsTrimmedKept
<1>2. LineWords(l) = Then(Scan(l), Blank, Blank)
  BY LineWordsAre
<1> HIDE DEF k
<1>3. LineWords(Trimmed(k, Blank)) = Then(Scan(k), Blank, Blank)
  <2>1. CASE k # <<>> /\ Last(k) = Blank
    <3> DEFINE f == Front(k)
    <3>1. f \in Seq(A) /\ k = Append(f, Blank)
      BY <1>1, <2>1, SeqIsAppend
    <3> HIDE DEF f
    <3>2. Scan(k) = Then(Scan(f), Blank, Blank) /\ Scan(f) \in Seq(A)
      BY <3>1, ScanAppend, BlankIsNoFragment DEF Fade
    <3>3. Then(Scan(k), Blank, Blank) = Scan(k)
      BY <3>2, ThenBlank
    <3>4. LineWords(f) = Then(Scan(f), Blank, Blank)
      BY <3>1, LineWordsAre
    <3> QED
      BY <2>1, <3>2, <3>3, <3>4 DEF Trimmed, f
  <2>2. CASE ~(k # <<>> /\ Last(k) = Blank)
    BY <1>1, <2>2, LineWordsAre DEF Trimmed
  <2> QED
    BY <2>1, <2>2
<1> QED
  BY <1>1, <1>2, <1>3

AllWords(lines) == FlattenSeq([n \in DOMAIN lines |-> LineWords(lines[n])])

LEMMA AllWordsAppend ==
    ASSUME NEW A, Blank \in A, LineBreak \in A, NEW s \in Seq(Seq(A)), NEW x \in Seq(A)
    PROVE  /\ AllWords(s) \in Seq(A)
           /\ AllWords(Append(s, x)) = AllWords(s) \o LineWords(x)
<1> DEFINE n == Len(s)
           t == Append(s, x)
           p == [i \in 1..n |-> LineWords(s[i])]
           q == [i \in 1..n + 1 |-> LineWords(t[i])]
<1>1. /\ n \in Nat /\ DOMAIN s = 1..n /\ DOMAIN t = 1..n + 1
      /\ \A i \in 1..n : t[i] = s[i] /\ i \in 1..n + 1
      /\ t[n + 1] = x /\ n + 1 \in 1..n + 1
      /\ \A i \in 1..n : s[i] \in Seq(A)
  OBVIOUS
<1>2. AllWords(s) = FlattenSeq(p) /\ AllWords(t) = FlattenSeq(q)
  BY <1>1 DEF AllWords
<1>3. q[n + 1] = LineWords(x)
  BY <1>1
<1>n. n \in Nat
  OBVIOUS
<1> HIDE DEF t, n
<1>4. p \in [1..n -> Seq(A)] /\ q \in [1..n + 1 -> Seq(A)] /\ \A i \in 1..n : q[i] = p[i]
  <2>1. \A i \in 1..n : LineWords(s[i]) \in Seq(A)
    BY <1>1, LineWordsAre
  <2>2. LineWords(x) \in Seq(A)
    BY LineWordsAre
  <2>3. ASSUME NEW i \in 1..n + 1 PROVE LineWords(t[i]) \in Seq(A)
    <3>1. i \in 1..n \/ i = n + 1
      BY <1>n
    <3> QED
      BY <1>1, <2>1, <2>2, <3>1
  <2>4. \A i \in 1..n : LineWords(t[i]) = LineWords(s[i]) /\ i \in 1..n + 1
    BY <1>1
  <2> QED
    BY <2>1, <2>3, <2>4
<1> HIDE DEF p, q
<1>5. FlattenSeq(p) \in Seq(A) /\ FlattenSeq(q) = FlattenSeq(p) \o q[n + 1]
  BY <1>n, <1>4, FlattenSeqOneMore
<1> QED
  BY <1>2, <1>3, <1>5 DEF t

LEMMA AllWordsEmpty == AllWords(<< >>) = << >>
<1>1. [n \in DOMAIN << >> |-> LineWords(<< >>[n])] = << >>
  OBVIOUS
<1> QED
  BY <1>1, FlattenSeqEmpty DEF AllWords

\* Leaving out empty lines leaves out no word.
LEMMA KeptLinesHaveAllWords ==
    ASSUME NEW A, Blank \in A, LineBreak \in A, NEW s \in Seq(Seq(A))
    PROVE  AllWords(Collapse(s, <<>>)) = AllWords(s)
<1> DEFINE T == {t \in Seq(Seq(A)) : AllWords(Kept(t, <<>>)) = AllWords(t)}
<1>1. << >> \in T
  BY KeptEmpty
<1>2. ASSUME NEW t \in Seq(Seq(A)), NEW x \in Seq(A), t \in T
      PROVE  Append(t, x) \in T
  <2> DEFINE k == Kept(t, <<>>)
  <2>1. k \in Seq(Seq(A)) /\ Kept(Append(t, x), <<>>) = Then(k, x, <<>>) /\ AllWords(k) = AllWords(t)
    BY <1>2, KeptType, KeptAppend
  <2>2. AllWords(Append(t, x)) = AllWords(t) \o LineWords(x) /\ Append(t, x) \in Seq(Seq(A))
    BY AllWordsAppend, SMTT(20)
  <2> HIDE DEF k, T
  <2>3. AllWords(Then(k, x, <<>>)) = AllWords(k) \o LineWords(x)
    <3>1. CASE x = <<>> /\ (k = <<>> \/ Last(k) = <<>>)
      <4>1. AllWords(k) \in Seq(A)
        BY <2>1, AllWordsAppend, EmptySeq
      <4>2. AllWords(k) \o <<>> = AllWords(k)
        BY <4>1
      <4> QED
        BY <3>1, <4>2, EmptyLineHasNoWords DEF Then
    <3>2. CASE ~(x = <<>> /\ (k = <<>> \/ Last(k) = <<>>))
      BY <2>1, <3>2, AllWordsAppend DEF Then
    <3> QED
      BY <3>1, <3>2
  <2>4. AllWords(Kept(Append(t, x), <<>>)) = AllWords(Append(t, x))
    BY <2>1, <2>2, <2>3
  <2> QED
    BY <2>2, <2>4 DEF T
<1>3. Seq(Seq(A)) \subseteq T
  <2> HIDE DEF T
  <2> QED
    BY <1>1, <1>2, InductiveSeq
<1> DEFINE k == Kept(s, <<>>)
<1>4. AllWords(k) = AllWords(s) /\ k \in Seq(Seq(A)) /\ Collapse(s, <<>>) = Trimmed(k, <<>>)
  BY <1>3, KeptType, CollapseIsTrimmedKept
<1> HIDE DEF k, T
<1>5. CASE k # <<>> /\ Last(k) = <<>>
  <2> DEFINE f == Front(k)
  <2>1. f \in Seq(Seq(A)) /\ k = Append(f, <<>>) /\ Trimmed(k, <<>>) = f
    BY <1>4, <1>5, SeqIsAppend DEF Trimmed
  <2> HIDE DEF f
  <2>2. <<>> \in Seq(A)
    OBVIOUS
  <2>3. AllWords(k) = AllWords(f) \o LineWords(<<>>) /\ AllWords(f) \in Seq(A)
    BY <2>1, <2>2, AllWordsAppend
  <2>4. AllWords(f) \o <<>> = AllWords(f)
    BY <2>3
  <2> QED
    BY <1>4, <2>1, <2>3, <2>4, EmptyLineHasNoWords
<1>6. CASE ~(k # <<>> /\ Last(k) = <<>>)
  BY <1>4, <1>6 DEF Trimmed
<1> QED
  BY <1>5, <1>6

----------------------------------------------------------------------------
(* Texts with gaps between them *)

LEMMA SpacedEmpty == ASSUME NEW gap PROVE Spaced(<< >>, gap) = << >>
<1>1. [i \in DOMAIN << >> |-> IF i = 1 THEN << >>[i] ELSE gap \o << >>[i]] = << >>
  OBVIOUS
<1> QED
  BY <1>1, FlattenSeqEmpty DEF Spaced

LEMMA SpacedType ==
    ASSUME NEW A, NEW gap \in Seq(A), NEW s \in Seq(Seq(A))
    PROVE  Spaced(s, gap) \in Seq(A)
<1> DEFINE n == Len(s)
           p == [i \in 1..n |-> IF i = 1 THEN s[i] ELSE gap \o s[i]]
<1>1. n \in Nat /\ DOMAIN s = 1..n /\ \A i \in 1..n : s[i] \in Seq(A)
  OBVIOUS
<1>2. Spaced(s, gap) = FlattenSeq(p)
  BY <1>1 DEF Spaced
<1> HIDE DEF n
<1>3. p \in [1..n -> Seq(A)]
  <2>1. \A v \in Seq(A) : gap \o v \in Seq(A)
    OBVIOUS
  <2> QED
    BY <1>1, <2>1
<1> HIDE DEF p
<1>4. p \in Seq(Seq(A))
  BY <1>1, <1>3
<1>5. <<>> \in Seq(A)
  OBVIOUS
<1> QED
  BY <1>2, <1>4, <1>5, FlattenSeqAppend

LEMMA SpacedFirst ==
    ASSUME NEW A, NEW gap, NEW x \in Seq(A)
    PROVE  Spaced(<<x>>, gap) = x
<1>1. [i \in DOMAIN <<x>> |-> IF i = 1 THEN <<x>>[i] ELSE gap \o <<x>>[i]] = Append(<<>>, x)
  OBVIOUS
<1>2. FlattenSeq(Append(<<>>, x)) = FlattenSeq(<<>>) \o x
  <2>1. <<>> \in Seq(Seq(A))
    OBVIOUS
  <2> QED
    BY <2>1, FlattenSeqAppend
<1>3. <<>> \o x = x
  OBVIOUS
<1> QED
  BY <1>1, <1>2, <1>3, FlattenSeqEmpty DEF Spaced

LEMMA SpacedNext ==
    ASSUME NEW A, NEW gap \in Seq(A), NEW s \in Seq(Seq(A)), NEW x \in Seq(A), s # <<>>
    PROVE  Spaced(Append(s, x), gap) = Spaced(s, gap) \o (gap \o x)
<1> DEFINE n == Len(s)
           t == Append(s, x)
           p == [i \in 1..n |-> IF i = 1 THEN s[i] ELSE gap \o s[i]]
           q == [i \in 1..n + 1 |-> IF i = 1 THEN t[i] ELSE gap \o t[i]]
<1>1. /\ n \in Nat /\ DOMAIN s = 1..n /\ DOMAIN t = 1..n + 1
      /\ \A i \in 1..n : t[i] = s[i] /\ i \in 1..n + 1
      /\ t[n + 1] = x /\ n + 1 \in 1..n + 1
      /\ \A i \in 1..n : s[i] \in Seq(A)
      /\ \A i \in 1..n + 1 : t[i] \in Seq(A)
      /\ s = <<>> <=> n = 0
  OBVIOUS
<1>2. Spaced(s, gap) = FlattenSeq(p) /\ Spaced(t, gap) = FlattenSeq(q)
  BY <1>1 DEF Spaced
<1>3. q[n + 1] = gap \o x
  BY <1>1, SMTT(20)
<1>n. n \in Nat
  OBVIOUS
<1> HIDE DEF t, n
<1>4. p \in [1..n -> Seq(A)] /\ q \in [1..n + 1 -> Seq(A)] /\ \A i \in 1..n : q[i] = p[i]
  <2>1. \A v \in Seq(A) : gap \o v \in Seq(A)
    OBVIOUS
  <2>2. \A i \in 1..n : (IF i = 1 THEN s[i] ELSE gap \o s[i]) \in Seq(A)
    BY <1>1, <2>1
  <2>3. \A i \in 1..n + 1 : (IF i = 1 THEN t[i] ELSE gap \o t[i]) \in Seq(A)
    BY <1>1, <2>1
  <2>4. \A i \in 1..n : (IF i = 1 THEN t[i] ELSE gap \o t[i]) = (IF i = 1 THEN s[i] ELSE gap \o s[i])
                        /\ i \in 1..n + 1
    BY <1>1
  <2> QED
    BY <2>2, <2>3, <2>4
<1> HIDE DEF p, q
<1>5. FlattenSeq(p) \in Seq(A) /\ FlattenSeq(q) = FlattenSeq(p) \o q[n + 1]
  BY <1>n, <1>4, FlattenSeqOneMore
<1> QED
  BY <1>2, <1>3, <1>5 DEF t

LEMMA NextLineIsRead ==
    ASSUME NEW A, Blank \in A, LineBreak \in A, NEW u \in Seq(A), NEW x \in Seq(A)
    PROVE  Scan(Append(u \o (<<LineBreak>> \o x), LineBreak))
             = Scan(Append(u, LineBreak)) \o LineWords(x)
<1>1. /\ Append(u, LineBreak) \in Seq(A) /\ Append(x, LineBreak) \in Seq(A)
      /\ Append(u \o (<<LineBreak>> \o x), LineBreak) = Append(u, LineBreak) \o Append(x, LineBreak)
  <2>1. u \o (<<LineBreak>> \o x) = Append(u, LineBreak) \o x
    OBVIOUS
  <2>2. Append(u, LineBreak) \in Seq(A) /\ Append(x, LineBreak) \in Seq(A)
    OBVIOUS
  <2>3. Append(Append(u, LineBreak) \o x, LineBreak) = Append(u, LineBreak) \o Append(x, LineBreak)
    <3> DEFINE v == Append(u, LineBreak)
    <3>1. v \in Seq(A)
      BY <2>2
    <3> HIDE DEF v
    <3>2. Append(v \o x, LineBreak) = v \o Append(x, LineBreak)
      <4>1. Append(v \o x, LineBreak) = (v \o x) \o <<LineBreak>>
        BY <3>1
      <4>2. Append(x, LineBreak) = x \o <<LineBreak>> /\ <<LineBreak>> \in Seq(A)
        OBVIOUS
      <4>3. (v \o x) \o <<LineBreak>> = v \o (x \o <<LineBreak>>)
        BY <3>1, <4>2, ConcatAssociative, SMTT(20)
      <4> QED
        BY <4>1, <4>2, <4>3
    <3> QED
      BY <3>2 DEF v
  <2> QED
    BY <2>1, <2>2, <2>3
<1>2. EndsBlank(Scan(Append(u, LineBreak)), Blank)
  BY <1>1, AppendIsSeq, ScanEnds, BlankIsNoFragment, ZenonT(30)
<1> QED
  BY <1>1, <1>2, ScanConcat DEF LineWords

LEMMA FirstLineIsRead ==
    ASSUME NEW A, NEW x \in Seq(A)
    PROVE  Scan(Append(Spaced(Append(<<>>, x), <<LineBreak>>), LineBreak)) = LineWords(x)
<1>1. Append(<<>>, x) = <<x>>
  OBVIOUS
<1> QED
  BY <1>1, SpacedFirst DEF LineWords

\* Reading lines one below the other is reading each of them.
LEMMA LinesAreRead ==
    ASSUME NEW A, Blank \in A, LineBreak \in A, NEW s \in Seq(Seq(A))
    PROVE  Scan(Append(Spaced(s, <<LineBreak>>), LineBreak)) = AllWords(s)
<1> DEFINE gap == <<LineBreak>>
           Read(t) == Scan(Append(Spaced(t, gap), LineBreak))
           T == {t \in Seq(Seq(A)) : Read(t) = AllWords(t)}
<1>0. <<LineBreak>> \in Seq(A) /\ << >> \in Seq(Seq(A))
  OBVIOUS
<1>1. << >> \in T
  <2>1. Append(Spaced(<< >>, <<LineBreak>>), LineBreak) = Append(<< >>, LineBreak)
    BY SpacedEmpty
  <2> QED
    BY <1>0, <2>1, EmptyLineHasNoWords, AllWordsEmpty DEF LineWords
<1>2. ASSUME NEW t \in Seq(Seq(A)), NEW x \in Seq(A), Read(t) = AllWords(t)
      PROVE  Read(Append(t, x)) = AllWords(t) \o LineWords(x)
  <2>1. CASE t = <<>>
    <3>1. Read(Append(<<>>, x)) = LineWords(x) /\ LineWords(x) \in Seq(A)
      BY FirstLineIsRead, LineWordsAre
    <3>2. <<>> \o LineWords(x) = LineWords(x)
      BY <3>1
    <3> QED
      BY <2>1, <3>1, <3>2, AllWordsEmpty
  <2>2. CASE t # <<>>
    <3>0. gap \in Seq(A)
      OBVIOUS
    <3> HIDE DEF gap
    <3>1. Spaced(t, gap) \in Seq(A) /\ Spaced(Append(t, x), gap) = Spaced(t, gap) \o (gap \o x)
      <4>1. Spaced(t, gap) \in Seq(A)
        BY <3>0, SpacedType
      <4>2. Spaced(Append(t, x), gap) = Spaced(t, gap) \o (gap \o x)
        BY <2>2, <3>0, SpacedNext
      <4> QED
        BY <4>1, <4>2
    <3>2. Read(Append(t, x)) = Read(t) \o LineWords(x)
      BY <3>1, NextLineIsRead DEF gap
    <3> QED
      BY <1>2, <3>2
  <2> QED
    BY <2>1, <2>2
<1>3. ASSUME NEW t \in Seq(Seq(A)), NEW x \in Seq(A), t \in T
      PROVE  Append(t, x) \in T
  <2>1. Read(t) = AllWords(t) /\ Append(t, x) \in Seq(Seq(A))
    BY <1>3
  <2> HIDE DEF Read
  <2>2. Read(Append(t, x)) = AllWords(Append(t, x))
    BY <1>2, <2>1, AllWordsAppend
  <2> QED
    BY <2>1, <2>2
<1>4. Seq(Seq(A)) \subseteq T
  <2> HIDE DEF T
  <2> QED
    BY <1>1, <1>3, InductiveSeq
<1> QED
  BY <1>4

\* Cleaning the lines up changes no word.
LEMMA CleanLinesHaveTheWords ==
    ASSUME NEW A, Blank \in A, LineBreak \in A, NEW lines \in Seq(Seq(A))
    PROVE  WordsOf(Joined(CollapseWhitespace(lines))) = WordsOf(Spaced(lines, <<LineBreak>>))
<1> DEFINE gap == <<LineBreak>>
           clean == [n \in DOMAIN lines |-> Collapse(lines[n], Blank)]
           kept == Collapse(clean, <<>>)
<1>0. gap \in Seq(A)
  OBVIOUS
<1>1. ASSUME NEW s \in Seq(Seq(A))
      PROVE  WordsOf(Spaced(s, gap)) = Trimmed(AllWords(s), Blank)
  <2> DEFINE t == Spaced(s, gap)
  <2>1. t \in Seq(A)
    BY <1>0, SpacedType
  <2>2. Scan(Append(t, LineBreak)) = AllWords(s)
    BY LinesAreRead
  <2> HIDE DEF t
  <2>3. Scan(Append(t, LineBreak)) = Then(Scan(t), Blank, Blank) /\ Scan(t) \in Seq(A)
    BY <2>1, ScanAppend, BlankIsNoFragment DEF Fade
  <2>4. Trimmed(AllWords(s), Blank) = Trimmed(Scan(t), Blank)
    BY <2>2, <2>3, ThenBlank
  <2> QED
    BY <2>4, WordsAreScanned DEF t
<1>2. clean \in Seq(Seq(A)) /\ AllWords(clean) = AllWords(lines)
  <2>1. \A n \in 1..Len(lines) :
          /\ lines[n] \in Seq(A)
          /\ Collapse(lines[n], Blank) \in Seq(A)
          /\ LineWords(Collapse(lines[n], Blank)) = LineWords(lines[n])
    BY CollapseIsSeq, CollapseKeepsLineWords
  <2>2. DOMAIN lines = 1..Len(lines) /\ Len(lines) \in Nat
    OBVIOUS
  <2>3. clean \in Seq(Seq(A))
    BY <2>1, <2>2
  <2>4. [n \in DOMAIN clean |-> LineWords(clean[n])] = [n \in DOMAIN lines |-> LineWords(lines[n])]
    BY <2>1, <2>2
  <2> QED
    BY <2>3, <2>4 DEF AllWords
<1> HIDE DEF clean
<1>3. kept \in Seq(Seq(A)) /\ AllWords(kept) = AllWords(clean)
  BY <1>2, CollapseIsSeq, KeptLinesHaveAllWords
<1>4. Joined(CollapseWhitespace(lines)) = Spaced(kept, gap)
  BY DEF Joined, CollapseWhitespace, clean
<1> HIDE DEF kept, gap
<1> QED
  BY <1>1, <1>2, <1>3, <1>4 DEF gap

----------------------------------------------------------------------------
(* What is open while HTML is read *)

LEMMA InScriptAppend ==
    ASSUME NEW A, NEW s \in Seq(A), NEW x \in A
    PROVE  InScript(Append(s, x)) <=>
              x \notin RawTextEnd /\ (x \in RawTextStart \/ InScript(s))
<1> DEFINE t == Append(s, x)
           n == Len(s)
<1>1. /\ n \in Nat /\ DOMAIN s = 1..n /\ DOMAIN t = 1..n + 1 /\ Len(t) = n + 1
      /\ t[n + 1] = x /\ \A i \in 1..n : t[i] = s[i]
  OBVIOUS
<1>2. /\ n + 1 \in 1..n + 1
      /\ \A i \in 1..n + 1 : n + 1 \in i..n + 1 /\ (i \in 1..n \/ i = n + 1)
      /\ \A i \in 1..n : /\ i \in 1..n + 1
                         /\ \A j \in i..n : j \in i..n + 1 /\ j \in 1..n
                         /\ \A j \in i..n + 1 : j \in i..n \/ j = n + 1
      /\ \A j \in n + 1..n + 1 : j = n + 1
  BY <1>1
<1> HIDE DEF t
<1>3. ASSUME InScript(t) PROVE x \notin RawTextEnd /\ (x \in RawTextStart \/ InScript(s))
  <2>1. PICK i \in 1..n + 1 :
           t[i] \in RawTextStart /\ \A j \in i..n + 1 : t[j] \notin RawTextEnd
    BY <1>1, <1>3 DEF InScript
  <2>2. x \notin RawTextEnd
    BY <1>1, <1>2, <2>1
  <2>3. CASE i = n + 1
    BY <1>1, <2>1, <2>2, <2>3
  <2>4. CASE i \in 1..n
    <3>1. s[i] \in RawTextStart /\ \A j \in i..n : s[j] \notin RawTextEnd
      BY <1>1, <1>2, <2>1, <2>4
    <3>2. InScript(s)
      BY <1>1, <2>4, <3>1 DEF InScript
    <3> QED
      BY <2>2, <3>2
  <2> QED
    BY <1>2, <2>3, <2>4
<1>4. ASSUME x \notin RawTextEnd, x \in RawTextStart PROVE InScript(t)
  BY <1>1, <1>2, <1>4 DEF InScript
<1>5. ASSUME x \notin RawTextEnd, InScript(s) PROVE InScript(t)
  <2>1. PICK i \in 1..n : s[i] \in RawTextStart /\ \A j \in i..n : s[j] \notin RawTextEnd
    BY <1>1, <1>5 DEF InScript
  <2>2. t[i] \in RawTextStart /\ \A j \in i..n + 1 : t[j] \notin RawTextEnd
    BY <1>1, <1>2, <1>5, <2>1
  <2> QED
    BY <1>1, <1>2, <2>2 DEF InScript
<1> QED
  BY <1>3, <1>4, <1>5 DEF t

LEMMA NothingIsOpenAtFirst == ~InScript(<<>>)
BY DEF InScript

\* No script is opened inside a script: the tokenizer takes what looks like
\* one for text.
NoNest(s) == \A i \in DOMAIN s : s[i] \in RawTextStart => ~InScript(SubSeq(s, 1, i - 1))

LEMMA NoNestAppend ==
    ASSUME NEW A, NEW s \in Seq(A), NEW x \in A
    PROVE  NoNest(Append(s, x)) <=> NoNest(s) /\ (x \in RawTextStart => ~InScript(s))
<1> DEFINE t == Append(s, x)
           n == Len(s)
<1>1. /\ n \in Nat /\ DOMAIN s = 1..n /\ DOMAIN t = 1..n + 1
      /\ t[n + 1] = x /\ \A i \in 1..n : t[i] = s[i]
      /\ n + 1 \in 1..n + 1 /\ \A i \in 1..n + 1 : i \in 1..n \/ i = n + 1
      /\ \A i \in 1..n : i \in 1..n + 1
  OBVIOUS
<1>2. SubSeq(t, 1, (n + 1) - 1) = s
  OBVIOUS
<1>3. \A i \in 1..n : SubSeq(t, 1, i - 1) = SubSeq(s, 1, i - 1)
  OBVIOUS
<1> HIDE DEF t, n
<1>4. NoNest(t) <=> \A i \in 1..n + 1 : t[i] \in RawTextStart => ~InScript(SubSeq(t, 1, i - 1))
  BY <1>1 DEF NoNest
<1>5. NoNest(s) <=> \A i \in 1..n : s[i] \in RawTextStart => ~InScript(SubSeq(s, 1, i - 1))
  BY <1>1 DEF NoNest
<1>6. ASSUME NoNest(t) PROVE NoNest(s) /\ (x \in RawTextStart => ~InScript(s))
  BY <1>1, <1>2, <1>3, <1>4, <1>5, <1>6
<1>7. ASSUME NoNest(s), x \in RawTextStart => ~InScript(s) PROVE NoNest(t)
  BY <1>1, <1>2, <1>3, <1>4, <1>5, <1>7
<1> QED
  BY <1>6, <1>7 DEF t

LEMMA NoNestEmpty == NoNest(<<>>)
BY DEF NoNest

LEMMA BlankIsNoTag == Blank \notin Tags /\ Blank \notin RawTextStart /\ Blank \notin RawTextEnd
BY DEF Blank, Tags, RawTextStart, RawTextEnd

\* What is added without a script leaves no script open in another one.
LEMMA NoNestConcat ==
    ASSUME NEW A, NEW s \in Seq(A), NoNest(s), NEW t \in Seq(A \ RawTextStart)
    PROVE  NoNest(s \o t)
<1> DEFINE B == A \ RawTextStart
           T == {u \in Seq(B) : NoNest(s \o u)}
<1>1. << >> \in T
  <2>1. s \o << >> = s /\ << >> \in Seq(B)
    OBVIOUS
  <2> QED
    BY <2>1
<1>2. ASSUME NEW u \in Seq(B), NEW x \in B, u \in T
      PROVE  Append(u, x) \in T
  <2>1. NoNest(s \o u) /\ x \notin RawTextStart /\ x \in A
    BY <1>2
  <2> HIDE DEF B, T
  <2>2. Append(u, x) \in Seq(B)
    OBVIOUS
  <2>3. s \o u \in Seq(A) /\ s \o Append(u, x) = Append(s \o u, x)
    <3>1. u \in Seq(A)
      BY DEF B
    <3> QED
      BY <2>1, <3>1
  <2>4. NoNest(Append(s \o u, x))
    BY <2>1, <2>3, NoNestAppend
  <2> QED
    BY <2>2, <2>3, <2>4 DEF T
<1>3. Seq(B) \subseteq T
  <2> HIDE DEF T, B
  <2> QED
    BY <1>1, <1>2, InductiveSeq
<1> QED
  BY <1>3

\* Nor does leaving out superfluous blanks.
LEMMA NoNestCollapse ==
    ASSUME NEW A, Blank \in A, NEW s \in Seq(A), NoNest(s)
    PROVE  NoNest(Collapse(s, Blank))
<1> DEFINE T == {t \in Seq(A) : /\ InScript(Kept(t, Blank)) <=> InScript(t)
                                /\ NoNest(t) => NoNest(Kept(t, Blank))}
<1>1. << >> \in T
  BY KeptEmpty
<1>2. ASSUME NEW t \in Seq(A), NEW x \in A, t \in T
      PROVE  Append(t, x) \in T
  <2> DEFINE k == Kept(t, Blank)
  <2>1. k \in Seq(A) /\ Kept(Append(t, x), Blank) = Then(k, x, Blank)
    BY KeptType, KeptAppend
  <2>2. (InScript(k) <=> InScript(t)) /\ (NoNest(t) => NoNest(k)) /\ Append(t, x) \in Seq(A)
    BY <1>2
  <2> HIDE DEF k, T
  <2>3. /\ InScript(Then(k, x, Blank)) <=> InScript(Append(t, x))
        /\ NoNest(Append(t, x)) => NoNest(Then(k, x, Blank))
    <3>1. CASE Then(k, x, Blank) = k /\ x = Blank
      <4>1. InScript(Append(t, x)) <=> InScript(t)
        BY <3>1, InScriptAppend, BlankIsNoTag
      <4>2. NoNest(Append(t, x)) => NoNest(t)
        BY NoNestAppend
      <4> QED
        BY <2>2, <3>1, <4>1, <4>2
    <3>2. CASE Then(k, x, Blank) = Append(k, x)
      <4>1. InScript(Append(t, x)) <=> InScript(Append(k, x))
        BY <2>1, <2>2, InScriptAppend
      <4>2. NoNest(Append(t, x)) => NoNest(Append(k, x))
        BY <2>1, <2>2, NoNestAppend
      <4> QED
        BY <3>2, <4>1, <4>2
    <3> QED
      BY <3>1, <3>2 DEF Then
  <2> QED
    BY <2>1, <2>2, <2>3 DEF T
<1>3. Seq(A) \subseteq T
  <2> HIDE DEF T
  <2> QED
    BY <1>1, <1>2, InductiveSeq
<1> DEFINE k == Kept(s, Blank)
<1>4. k \in Seq(A) /\ NoNest(k) /\ Collapse(s, Blank) = Trimmed(k, Blank)
  BY <1>3, KeptType, CollapseIsTrimmedKept
<1> HIDE DEF k, T
<1>5. CASE k # <<>> /\ Last(k) = Blank
  <2>1. Front(k) \in Seq(A) /\ k = Append(Front(k), Blank)
    BY <1>4, <1>5, SeqIsAppend
  <2>2. NoNest(Front(k))
    BY <1>4, <2>1, NoNestAppend
  <2> QED
    BY <1>4, <1>5, <2>2 DEF Trimmed
<1>6. CASE ~(k # <<>> /\ Last(k) = Blank)
  BY <1>4, <1>6 DEF Trimmed
<1> QED
  BY <1>5, <1>6

----------------------------------------------------------------------------
(* The loop of SanitizeDescription *)

IsWriting(out, html, n) ==
    out = [i \in 0..n |-> IF i = 0 THEN [lines |-> <<<<>>>>, skipDepth |-> 0]
                          ELSE WriteAtom(out[i - 1], html, i)]

LEMMA WritingExists ==
    ASSUME NEW html, NEW m \in Nat
    PROVE  \E out : IsWriting(out, html, m)
<1> DEFINE first == [lines |-> <<<<>>>>, skipDepth |-> 0]
           T == {n \in Nat : \E out : IsWriting(out, html, n)}
<1> HIDE DEF first
<1>1. 0 \in T
  <2> DEFINE g == [i \in 0..0 |-> first]
  <2>1. g = [i \in 0..0 |-> IF i = 0 THEN first ELSE WriteAtom(g[i - 1], html, i)]
    OBVIOUS
  <2>2. IsWriting(g, html, 0)
    BY <2>1 DEF IsWriting, first
  <2> QED
    BY <2>2
<1>2. ASSUME NEW n \in Nat, n \in T PROVE n + 1 \in T
  <2>1. PICK g : IsWriting(g, html, n)
    BY <1>2
  <2> DEFINE h == [i \in 0..n + 1 |-> IF i = n + 1 THEN WriteAtom(g[n], html, n + 1) ELSE g[i]]
             f == [i \in 0..n + 1 |-> IF i = 0 THEN first ELSE WriteAtom(h[i - 1], html, i)]
  <2>2. /\ g[0] = first
        /\ \A i \in 1..n : g[i] = WriteAtom(g[i - 1], html, i)
    BY <2>1 DEF IsWriting, first
  <2>3. h[n + 1] = WriteAtom(g[n], html, n + 1) /\ \A i \in 0..n : h[i] = g[i]
    OBVIOUS
  <2> HIDE DEF h
  <2>4. ASSUME NEW i \in 0..n + 1
        PROVE  h[i] = IF i = 0 THEN first ELSE WriteAtom(h[i - 1], html, i)
    <3>1. CASE i = 0
      BY <2>2, <2>3, <3>1
    <3>2. CASE i \in 1..n
      <4>1. h[i] = g[i] /\ h[i - 1] = g[i - 1] /\ i # 0
        BY <2>3, <3>2
      <4> QED
        BY <2>2, <3>2, <4>1
    <3>3. CASE i = n + 1
      <4>1. h[n] = g[n] /\ (n + 1) - 1 = n /\ n + 1 # 0
        BY <2>3
      <4> QED
        BY <2>3, <3>3, <4>1
    <3> QED
      BY <3>1, <3>2, <3>3
  <2>5. h = f
    BY <2>4 DEF h
  <2>6. IsWriting(h, html, n + 1)
    BY <2>5 DEF IsWriting, first
  <2> QED
    BY <2>6
<1>3. Nat \subseteq T
  <2> HIDE DEF T
  <2> QED
    BY <1>1, <1>2, InductiveSet
<1> QED
  BY <1>3

LEMMA WritingSteps ==
    ASSUME NEW A, NEW html \in Seq(A)
    PROVE  /\ WrittenUpTo(html)[0] = [lines |-> <<<<>>>>, skipDepth |-> 0]
           /\ \A i \in 1..Len(html) :
                WrittenUpTo(html)[i] = WriteAtom(WrittenUpTo(html)[i - 1], html, i)
<1> DEFINE out == CHOOSE out : IsWriting(out, html, Len(html))
<1>1. Len(html) \in Nat
  OBVIOUS
<1>2. WrittenUpTo(html) = out
  BY DEF WrittenUpTo, IsWriting
<1>3. IsWriting(out, html, Len(html))
  BY <1>1, WritingExists
<1> HIDE DEF out
<1>4. out[0] = [lines |-> <<<<>>>>, skipDepth |-> 0]
  BY <1>1, <1>3 DEF IsWriting
<1>5. \A i \in 1..Len(html) : out[i] = WriteAtom(out[i - 1], html, i)
  BY <1>1, <1>3, SMTT(20) DEF IsWriting
<1> QED
  BY <1>2, <1>4, <1>5

\* What is read of the lines written so far.
ReadLines(lines) == Scan(Spaced(lines, <<LineBreak>>))

LEMMA ReadLinesType ==
    ASSUME NEW A, Blank \in A, LineBreak \in A, NEW s \in Seq(Seq(A))
    PROVE  ReadLines(s) \in Seq(A)
<1> DEFINE gap == <<LineBreak>>
<1>1. gap \in Seq(A)
  OBVIOUS
<1> HIDE DEF gap
<1>2. Spaced(s, gap) \in Seq(A)
  BY <1>1, SpacedType
<1>3. Scan(Spaced(s, gap)) \in Seq(A)
  BY <1>2, ScanType
<1> QED
  BY <1>3 DEF ReadLines, gap

\* A new line ends the word before it.
LEMMA NewLineIsRead ==
    ASSUME NEW A, Blank \in A, LineBreak \in A, NEW s \in Seq(Seq(A)), s # <<>>
    PROVE  ReadLines(Append(s, <<>>)) = Then(ReadLines(s), Blank, Blank)
<1> DEFINE gap == <<LineBreak>>
           u == Spaced(s, gap)
<1>1. gap \in Seq(A) /\ <<>> \in Seq(A)
  OBVIOUS
<1> HIDE DEF gap
<1>2. Spaced(Append(s, <<>>), gap) = u \o (gap \o <<>>)
  BY <1>1, SpacedNext
<1>3. u \in Seq(A)
  BY <1>1, SpacedType
<1>4. ReadLines(s) = Scan(u) /\ ReadLines(Append(s, <<>>)) = Scan(Spaced(Append(s, <<>>), gap))
  BY DEF ReadLines, gap
<1> HIDE DEF u
<1>5. u \o (<<LineBreak>> \o <<>>) = Append(u, LineBreak)
  BY <1>3
<1>6. Scan(Append(u, LineBreak)) = Then(Scan(u), Blank, Blank)
  BY <1>3, ScanAppend, BlankIsNoFragment DEF Fade
<1> QED
  BY <1>2, <1>4, <1>5, <1>6 DEF gap

LEMMA NewItemIsRead ==
    ASSUME NEW A, Blank \in A, LineBreak \in A, "-" \in A, NEW s \in Seq(Seq(A)), s # <<>>
    PROVE  ReadLines(Append(s, <<"-", Blank>>)) = Then(ReadLines(s), Blank, Blank)
<1> DEFINE gap == <<LineBreak>>
           bullet == <<"-", Blank>>
           u == Spaced(s, gap)
<1>1. gap \in Seq(A) /\ bullet \in Seq(A)
  OBVIOUS
<1> HIDE DEF gap, bullet
<1>2. Spaced(Append(s, bullet), gap) = u \o (gap \o bullet)
  BY <1>1, SpacedNext
<1>3. u \in Seq(A)
  BY <1>1, SpacedType
<1>4. ReadLines(s) = Scan(u) /\ ReadLines(Append(s, bullet)) = Scan(Spaced(Append(s, bullet), gap))
  BY DEF ReadLines, gap
<1> HIDE DEF u
<1>5. u \o (<<LineBreak>> \o <<"-", Blank>>) = Append(Append(Append(u, LineBreak), "-"), Blank)
  BY <1>3
<1>6. Scan(Append(u, LineBreak)) = Then(Scan(u), Blank, Blank) /\ Scan(u) \in Seq(A)
      /\ Append(u, LineBreak) \in Seq(A)
  BY <1>3, ScanAppend, BlankIsNoFragment DEF Fade
<1>7. Scan(Append(Append(u, LineBreak), "-")) = Then(Scan(Append(u, LineBreak)), Blank, Blank)
      /\ Append(Append(u, LineBreak), "-") \in Seq(A)
  <2> DEFINE w == Append(u, LineBreak)
  <2>1. Fade("-") = Blank
    BY DEF IsFragment, Marks, Fade
  <2>2. w \in Seq(A)
    BY <1>6
  <2> HIDE DEF w
  <2>3. Scan(Append(w, "-")) = Then(Scan(w), Blank, Blank)
    BY <2>1, <2>2, ScanAppend
  <2>4. Append(w, "-") \in Seq(A)
    BY <2>2
  <2> QED
    BY <2>3, <2>4 DEF w
<1>8. Scan(Append(Append(Append(u, LineBreak), "-"), Blank))
        = Then(Scan(Append(Append(u, LineBreak), "-")), Blank, Blank)
  BY <1>7, ScanAppend, BlankIsNoFragment DEF Fade
<1>9. Then(Then(Then(Scan(u), Blank, Blank), Blank, Blank), Blank, Blank) = Then(Scan(u), Blank, Blank)
  BY <1>6, ThenBlank
<1> QED
  BY <1>2, <1>4, <1>5, <1>6, <1>7, <1>8, <1>9 DEF gap, bullet

LEMMA IsAppended ==
    ASSUME NEW B, NEW f \in Seq(B), NEW y \in B, NEW t \in Seq(B), Len(t) = Len(f) + 1,
           \A i \in 1..Len(f) : t[i] = f[i], t[Len(f) + 1] = y
    PROVE  t = Append(f, y)
<1> DEFINE v == Append(f, y)
           n == Len(f)
<1>1. /\ n \in Nat /\ v \in Seq(B) /\ Len(v) = n + 1 /\ v[n + 1] = y
      /\ \A i \in 1..n : v[i] = f[i]
      /\ \A i \in 1..n + 1 : i \in 1..n \/ i = n + 1
  OBVIOUS
<1> HIDE DEF v
<1>2. \A i \in 1..n + 1 : t[i] = v[i]
  BY <1>1
<1> QED
  BY <1>1, <1>2, SeqEqual DEF v

LEMMA LastReplaced ==
    ASSUME NEW B, NEW s \in Seq(B), s # <<>>, NEW y \in B
    PROVE  [s EXCEPT ![Len(s)] = y] = Append(Front(s), y)
<1> DEFINE t == [s EXCEPT ![Len(s)] = y]
           f == Front(s)
           n == Len(s)
<1>1. /\ n \in Nat \ {0} /\ DOMAIN s = 1..n /\ \A i \in 1..n : s[i] \in B
      /\ f \in Seq(B) /\ n = Len(f) + 1 /\ \A i \in 1..Len(f) : s[i] = f[i] /\ i \in 1..n /\ i # n
      /\ n \in 1..n
  <2>1. n \in Nat \ {0} /\ DOMAIN s = 1..n /\ n \in 1..n /\ \A i \in 1..n : s[i] \in B
    OBVIOUS
  <2>2. f \in Seq(B) /\ Len(f) = n - 1
    BY SeqIsAppend
  <2>3. \A i \in 1..n - 1 : s[i] = f[i]
    BY <2>1 DEF Front
  <2> HIDE DEF n, f
  <2> QED
    BY <2>1, <2>2, <2>3
<1> HIDE DEF f
<1>2. /\ DOMAIN t = 1..n /\ t[n] = y /\ \A i \in 1..n : i # n => t[i] = s[i]
  BY <1>1
<1>3. t = [i \in 1..n |-> t[i]]
  BY <1>1
<1> HIDE DEF t, n
<1>4. \A i \in 1..n : t[i] \in B
  BY <1>1, <1>2
<1>5. t \in Seq(B) /\ Len(t) = n
  BY <1>1, <1>3, <1>4
<1>6. \A i \in 1..Len(f) : t[i] = f[i]
  BY <1>1, <1>2
<1>7. t = Append(f, y)
  BY <1>1, <1>2, <1>5, <1>6, IsAppended
<1> QED
  BY <1>7 DEF t, f, n

OnLastLine(lines, x) == [lines EXCEPT ![Len(lines)] = Append(@, x)]

\* An atom at the end of the last line is read after all that precedes it.
LEMMA WrittenAtomIsRead ==
    ASSUME NEW A, Blank \in A, LineBreak \in A, NEW s \in Seq(Seq(A)), s # <<>>, NEW x \in A
    PROVE  /\ OnLastLine(s, x) \in Seq(Seq(A)) \ {<<>>}
           /\ ReadLines(OnLastLine(s, x)) = Then(ReadLines(s), Fade(x), Blank)
<1> DEFINE f == Front(s)
           l == Last(s)
           t == [s EXCEPT ![Len(s)] = Append(@, x)]
           gap == <<LineBreak>>
<1>1. f \in Seq(Seq(A)) /\ l \in Seq(A) /\ s = Append(f, l)
  BY SeqIsAppend
<1>2. t = Append(f, Append(l, x)) /\ Append(l, x) \in Seq(A)
  <2>1. Append(l, x) \in Seq(A)
    BY <1>1
  <2>2. s[Len(s)] = l
    BY DEF Last
  <2> DEFINE y == Append(l, x)
  <2>3. t = [s EXCEPT ![Len(s)] = y]
    BY <2>2
  <2>5. y \in Seq(A)
    BY <2>1
  <2> HIDE DEF y, t, l
  <2>4. [s EXCEPT ![Len(s)] = y] = Append(Front(s), y)
    BY <2>5, LastReplaced
  <2> QED
    BY <2>1, <2>3, <2>4 DEF y
<1>3. t \in Seq(Seq(A)) /\ t # <<>>
  BY <1>1, <1>2, AppendIsSeq
<1>4. gap \in Seq(A)
  OBVIOUS
<1> HIDE DEF f, l, t, gap
<1>5. Spaced(t, gap) = Append(Spaced(s, gap), x)
  <2>1. CASE f = <<>>
    <3>1. s = <<l>> /\ t = <<Append(l, x)>>
      BY <1>1, <1>2, <2>1
    <3> QED
      BY <1>1, <1>2, <3>1, SpacedFirst
  <2>2. CASE f # <<>>
    <3> DEFINE u == Spaced(f, gap)
    <3>1. Spaced(s, gap) = u \o (gap \o l)
      BY <1>1, <1>4, <2>2, SpacedNext
    <3>2. Spaced(t, gap) = u \o (gap \o Append(l, x))
      BY <1>1, <1>2, <1>4, <2>2, SpacedNext
    <3>3. u \in Seq(A)
      BY <1>1, <1>4, SpacedType
    <3> HIDE DEF u
    <3>4. gap \o Append(l, x) = Append(gap \o l, x) /\ gap \o l \in Seq(A)
      BY <1>1, <1>4, SMTT(20)
    <3>5. u \o Append(gap \o l, x) = Append(u \o (gap \o l), x)
      BY <3>3, <3>4, SMTT(20)
    <3> QED
      BY <3>1, <3>2, <3>4, <3>5
  <2> QED
    BY <2>1, <2>2
<1>6. Spaced(s, gap) \in Seq(A)
  BY <1>4, SpacedType
<1>7. ReadLines(s) = Scan(Spaced(s, gap)) /\ ReadLines(t) = Scan(Spaced(t, gap))
  BY DEF ReadLines, gap
<1>8. ReadLines(t) = Then(ReadLines(s), Fade(x), Blank)
  BY <1>5, <1>6, <1>7, ScanAppend
<1> QED
  BY <1>3, <1>8 DEF t, OnLastLine

LEMMA FirstLineIsEmpty ==
    ReadLines(<<<<>>>>) = <<>> /\ \A A : <<<<>>>> \in Seq(Seq(A)) \ {<<>>}
<1>1. Spaced(<<<<>>>>, <<LineBreak>>) = <<>>
  <2>1. <<>> \in Seq({Blank})
    OBVIOUS
  <2> QED
    BY <2>1, SpacedFirst
<1>2. ASSUME NEW A PROVE <<<<>>>> \in Seq(Seq(A)) \ {<<>>}
  OBVIOUS
<1> QED
  BY <1>1, <1>2, ScanEmpty DEF ReadLines

----------------------------------------------------------------------------
(* What a browser shows *)

Piece(html, i) ==
    IF html[i] \in Block THEN <<LineBreak>>
    ELSE IF html[i] \in Tags \/ InScript(SubSeq(html, 1, i)) THEN <<>>
    ELSE <<html[i]>>

\* The text shown of the first n atoms, and what is read of it.
ShownOf(html, n) == FlattenSeq([i \in 1..n |-> Piece(html, i)])

ReadOf(html, n) == Scan(ShownOf(html, n))

LEMMA DisplayedIsShown ==
    ASSUME NEW A, NEW html \in Seq(A)
    PROVE  Displayed(html) = ShownOf(html, Len(html))
<1>1. DOMAIN html = 1..Len(html)
  OBVIOUS
<1> QED
  BY <1>1 DEF Displayed, ShownOf, Piece

LEMMA NextPieceIsRead ==
    ASSUME NEW A, Blank \in A, LineBreak \in A, NEW html \in Seq(A), NEW n \in Nat, n < Len(html)
    PROVE  /\ ReadOf(html, n) \in Seq(A)
           /\ ReadOf(html, n + 1) \in Seq(A)
           /\ ReadOf(html, n + 1) =
                IF html[n + 1] \in Block THEN Then(ReadOf(html, n), Blank, Blank)
                ELSE IF html[n + 1] \in Tags \/ InScript(SubSeq(html, 1, n + 1)) THEN ReadOf(html, n)
                ELSE Then(ReadOf(html, n), Fade(html[n + 1]), Blank)
<1> DEFINE p == [i \in 1..n |-> Piece(html, i)]
           q == [i \in 1..n + 1 |-> Piece(html, i)]
           u == ShownOf(html, n)
           x == html[n + 1]
<1>1. /\ \A i \in 1..n + 1 : html[i] \in A
      /\ \A i \in 1..n : i \in 1..n + 1
      /\ n + 1 \in 1..n + 1
  OBVIOUS
<1>2. \A i \in 1..n + 1 : Piece(html, i) \in Seq(A)
  BY <1>1 DEF Piece
<1>3. p \in [1..n -> Seq(A)] /\ q \in [1..n + 1 -> Seq(A)] /\ \A i \in 1..n : q[i] = p[i]
  BY <1>1, <1>2
<1>4. q[n + 1] = Piece(html, n + 1)
  BY <1>1
<1>5. u = FlattenSeq(p) /\ ShownOf(html, n + 1) = FlattenSeq(q)
  BY DEF ShownOf
<1> HIDE DEF p, q
<1>6. u \in Seq(A) /\ ShownOf(html, n + 1) = u \o Piece(html, n + 1)
  BY <1>3, <1>4, <1>5, FlattenSeqOneMore
<1> HIDE DEF u, x
<1>7. x \in A
  BY <1>1 DEF x
<1>8. u \o <<x>> = Append(u, x) /\ u \o <<LineBreak>> = Append(u, LineBreak) /\ u \o <<>> = u
  BY <1>6, <1>7
<1>9. ReadOf(html, n) = Scan(u) /\ ReadOf(html, n + 1) = Scan(u \o Piece(html, n + 1))
  BY <1>6 DEF ReadOf, u
<1>10. Scan(Append(u, LineBreak)) = Then(Scan(u), Blank, Blank)
       /\ Scan(Append(u, x)) = Then(Scan(u), Fade(x), Blank)
  BY <1>6, <1>7, ScanAppend, BlankIsNoFragment DEF Fade
<1>11. ReadOf(html, n + 1) =
         IF x \in Block THEN Then(Scan(u), Blank, Blank)
         ELSE IF x \in Tags \/ InScript(SubSeq(html, 1, n + 1)) THEN Scan(u)
         ELSE Then(Scan(u), Fade(x), Blank)
  BY <1>8, <1>9, <1>10 DEF Piece, x
<1>12. u \o Piece(html, n + 1) \in Seq(A)
  <2>1. Piece(html, n + 1) \in Seq(A)
    BY <1>1, <1>2
  <2> QED
    BY <1>6, <2>1
<1> QED
  BY <1>6, <1>9, <1>11, <1>12, ScanType DEF x

LEMMA TagKinds ==
    /\ RawTextStart \subseteq Tags /\ RawTextEnd \subseteq Tags /\ Block \subseteq Tags
    /\ BreakingTags \subseteq Block /\ Closers \subseteq Block
    /\ \A a \in Block : a \in BreakingTags \/ a \in Closers
    /\ \A a \in Block : a \notin RawTextStart /\ a \notin RawTextEnd
    /\ \A a \in RawTextStart : a \notin RawTextEnd
    /\ \A a \in Closers : a \notin BreakingTags
    /\ Blank \notin Tags /\ LineBreak \notin Tags
BY DEF RawTextStart, RawTextEnd, Tags, Block, BreakingTags, Closers, Blank, LineBreak

\* Nothing but ends of lists and of items, and blanks, since such an end.
AfterCloser(html, i) ==
    \E m \in 1..i : html[m] \in Closers /\ \A k \in m + 1..i : html[k] \in Closers \cup {Blank}

\* A word is over, as the browser shows it, and a block ends it before another
\* word begins.
Hold(html, i) ==
    \/ 0 < i /\ i < Len(html) /\ html[i] = Blank /\ html[i + 1] \in Block
    \/ AfterCloser(html, i)

LEMMA AfterCloserGoesOn ==
    ASSUME NEW A, NEW html \in Seq(A), NEW i \in Nat, i < Len(html)
    PROVE  /\ html[i + 1] \in Closers => AfterCloser(html, i + 1)
           /\ AfterCloser(html, i) /\ html[i + 1] = Blank => AfterCloser(html, i + 1)
<1>1. ASSUME html[i + 1] \in Closers PROVE AfterCloser(html, i + 1)
  <2>1. i + 1 \in 1..i + 1 /\ \A k \in (i + 1) + 1..i + 1 : FALSE
    OBVIOUS
  <2> QED
    BY <1>1, <2>1 DEF AfterCloser
<1>2. ASSUME AfterCloser(html, i), html[i + 1] = Blank PROVE AfterCloser(html, i + 1)
  <2>1. PICK m \in 1..i : html[m] \in Closers /\ \A k \in m + 1..i : html[k] \in Closers \cup {Blank}
    BY <1>2 DEF AfterCloser
  <2>2. m \in 1..i + 1 /\ \A k \in m + 1..i + 1 : k \in m + 1..i \/ k = i + 1
    OBVIOUS
  <2>3. \A k \in m + 1..i + 1 : html[k] \in Closers \cup {Blank}
    BY <1>2, <2>1, <2>2
  <2> QED
    BY <2>1, <2>2, <2>3 DEF AfterCloser
<1> QED
  BY <1>1, <1>2

LEMMA HeldUntilBlock ==
    ASSUME NEW A, NEW html \in Seq(A), LaidOut(html), NEW i \in Nat, i < Len(html), Hold(html, i)
    PROVE  /\ html[i + 1] \in Block \cup {Blank}
           /\ html[i + 1] = Blank => AfterCloser(html, i)
<1>1. CASE 0 < i /\ html[i] = Blank /\ html[i + 1] \in Block
  <2>1. html[i + 1] # Blank
    BY <1>1, TagKinds
  <2> QED
    BY <1>1, <2>1
<1>2. CASE AfterCloser(html, i)
  <2>1. PICK m \in 1..i : html[m] \in Closers /\ \A k \in m + 1..i : html[k] \in Closers \cup {Blank}
    BY <1>2 DEF AfterCloser
  <2>2. m \in DOMAIN html /\ i + 1 \in m + 1..Len(html) /\ \A k \in m + 1..(i + 1) - 1 : k \in m + 1..i
    OBVIOUS
  <2>3. html[i + 1] \in Closers \cup BreakingTags \cup {Blank}
    BY <2>1, <2>2 DEF LaidOut
  <2> QED
    BY <1>2, <2>3, TagKinds
<1> QED
  BY <1>1, <1>2 DEF Hold

\* Atoms that are text of a node of white space alone stand next to a block.
LEMMA LoneBlank ==
    ASSUME NEW A, NEW html \in Seq(A), Single(html, Blank), LaidOut(html), NEW i \in 1..Len(html),
           html[i] \notin Tags, ~Shown(html, i)
    PROVE  /\ html[i] = Blank
           /\ \/ i > 1 /\ html[i - 1] \in Block
              \/ i < Len(html) /\ html[i + 1] \in Block
<1>0. DOMAIN html = 1..Len(html) /\ i \in DOMAIN html
  OBVIOUS
<1>1. ASSUME NEW j \in {i - 1, i, i + 1}, j \in 1..Len(html), html[j] \notin Tags
      PROVE  html[j] = Blank
  <2>1. \A k \in DOMAIN html : (i <= k /\ k <= j) \/ (j <= k /\ k <= i) => k = i \/ k = j
    BY <1>0
  <2>2. \A k \in DOMAIN html : (i <= k /\ k <= j) \/ (j <= k /\ k <= i) => html[k] \notin Tags
    BY <1>1, <2>1
  <2> QED
    BY <1>0, <1>1, <2>2 DEF Shown
<1>2. html[i] = Blank
  BY <1>0, <1>1
<1>3. i # 1 /\ html[i - 1] # Blank
  BY <1>0, <1>2 DEF Single
<1>4. CASE i > 1 /\ html[i - 1] \notin Tags \ Block
  <2>1. i - 1 \in 1..Len(html)
    BY <1>3
  <2> QED
    BY <1>1, <1>2, <1>3, <1>4, <2>1
<1>5. CASE i < Len(html) /\ html[i + 1] \notin Tags \ Block
  <2>1. i + 1 \in 1..Len(html) /\ i + 1 \in DOMAIN html /\ (i + 1) - 1 = i
    BY <1>5
  <2>2. html[i + 1] # Blank
    BY <1>2, <2>1 DEF Single
  <2> QED
    BY <1>1, <1>2, <1>5, <2>1, <2>2
<1> QED
  BY <1>0, <1>2, <1>4, <1>5 DEF LaidOut

----------------------------------------------------------------------------
(* What is written is what is shown, up to a blank that is still to come *)

LoopInv(A, html, i) ==
    LET out == WrittenUpTo(html)[i]
        r == ReadLines(out.lines)
        d == ReadOf(html, i)
    IN  /\ out \in [lines : Seq(Seq(A)) \ {<<>>}, skipDepth : {0, 1}]
        /\ out.skipDepth = 1 <=> InScript(SubSeq(html, 1, i))
        /\ r = d \/ (Hold(html, i) /\ d = Then(r, Blank, Blank))
        /\ 0 < i /\ html[i] \in Block => EndsBlank(d, Blank)

LEMMA LoopStarts ==
    ASSUME NEW A, NEW html \in Seq(A)
    PROVE  LoopInv(A, html, 0)
<1>1. WrittenUpTo(html)[0] = [lines |-> <<<<>>>>, skipDepth |-> 0]
  BY WritingSteps
<1>2. SubSeq(html, 1, 0) = <<>>
  OBVIOUS
<1>3. ReadOf(html, 0) = <<>>
  <2>1. [i \in 1..0 |-> Piece(html, i)] = <<>>
    OBVIOUS
  <2> QED
    BY <2>1, FlattenSeqEmpty, ScanEmpty DEF ReadOf, ShownOf
<1>4. [lines |-> <<<<>>>>, skipDepth |-> 0] \in [lines : Seq(Seq(A)) \ {<<>>}, skipDepth : {0, 1}]
  BY FirstLineIsEmpty
<1>5. ReadLines(<<<<>>>>) = <<>>
  BY FirstLineIsEmpty
<1> DEFINE out == WrittenUpTo(html)[0]
<1>6. out \in [lines : Seq(Seq(A)) \ {<<>>}, skipDepth : {0, 1}] /\ out.skipDepth = 0
      /\ ReadLines(out.lines) = <<>>
  BY <1>1, <1>4, <1>5
<1> DEFINE s == SubSeq(html, 1, 0)
<1>7. s = <<>>
  BY <1>2
<1> HIDE DEF out, s
<1>8. ~InScript(s) /\ 0 # 1
  BY <1>7, NothingIsOpenAtFirst
<1> QED
  BY <1>3, <1>6, <1>8 DEF LoopInv, out, s

LEMMA WriteStart ==
    ASSUME NEW out, NEW html, NEW i, html[i] \in RawTextStart
    PROVE  WriteAtom(out, html, i) = [out EXCEPT !.skipDepth = @ + 1]
<1>1. /\ html[i] \notin RawTextEnd /\ html[i] \notin BreakingTags /\ ~Shown(html, i)
  BY TagKinds DEF Shown
<1> QED
  BY <1>1 DEF WriteAtom

LEMMA WriteEnd ==
    ASSUME NEW out, NEW html, NEW i, html[i] \in RawTextEnd
    PROVE  /\ out.skipDepth > 0 => WriteAtom(out, html, i) = [out EXCEPT !.skipDepth = @ - 1]
           /\ ~(out.skipDepth > 0) => WriteAtom(out, html, i) = out
<1>1. /\ html[i] \notin RawTextStart /\ html[i] \notin BreakingTags /\ ~Shown(html, i)
  BY TagKinds DEF Shown
<1> QED
  BY <1>1 DEF WriteAtom

LEMMA WriteBreak ==
    ASSUME NEW out, NEW html, NEW i, html[i] \in BreakingTags
    PROVE  /\ html[i] = "<li>" =>
                  WriteAtom(out, html, i) = [out EXCEPT !.lines = Append(@, <<"-", Blank>>)]
           /\ html[i] # "<li>" => WriteAtom(out, html, i) = [out EXCEPT !.lines = Append(@, <<>>)]
<1>1. /\ html[i] \notin RawTextStart /\ html[i] \notin RawTextEnd /\ ~Shown(html, i)
  BY TagKinds DEF Shown
<1>2. CASE html[i] = "<li>"
  BY <1>1, <1>2 DEF WriteAtom
<1>3. CASE html[i] # "<li>"
  BY <1>1, <1>3 DEF WriteAtom
<1> QED
  BY <1>2, <1>3

LEMMA WriteText ==
    ASSUME NEW lines, NEW html, NEW i, Shown(html, i)
    PROVE  WriteAtom([lines |-> lines, skipDepth |-> 0], html, i)
             = [lines |-> OnLastLine(lines, html[i]), skipDepth |-> 0]
<1>1. /\ html[i] \notin RawTextStart /\ html[i] \notin RawTextEnd /\ html[i] \notin BreakingTags
  BY TagKinds DEF Shown
<1> DEFINE out == [lines |-> lines, skipDepth |-> 0]
<1>2. WriteAtom(out, html, i) = [out EXCEPT !.lines[Len(out.lines)] = Append(@, html[i])]
  BY <1>1 DEF WriteAtom
<1> HIDE DEF out
<1>3. [out EXCEPT !.lines[Len(out.lines)] = Append(@, html[i])]
        = [out EXCEPT !.lines = OnLastLine(@, html[i])]
  BY DEF OnLastLine
<1>4. [out EXCEPT !.lines = OnLastLine(@, html[i])] = [lines |-> OnLastLine(lines, html[i]), skipDepth |-> 0]
  BY DEF out
<1> QED
  BY <1>2, <1>3, <1>4 DEF out

LEMMA WriteNothing ==
    ASSUME NEW out, NEW html, NEW i, html[i] \notin RawTextStart,
           html[i] \notin RawTextEnd, html[i] \notin BreakingTags,
           ~(Shown(html, i) /\ out.skipDepth = 0)
    PROVE  WriteAtom(out, html, i) = out
BY DEF WriteAtom

\* One turn of the loop, by the kind of its atom: what becomes of the lines,
\* as they are read, and of the count of open scripts.
LEMMA OneTurn ==
    ASSUME NEW A, Blank \in A, LineBreak \in A, "-" \in A, NEW html \in Seq(A),
           NEW i \in Nat, i < Len(html),
           NEW out \in [lines : Seq(Seq(A)) \ {<<>>}, skipDepth : {0, 1}],
           NEW new, new = WriteAtom(out, html, i + 1),
           html[i + 1] \in RawTextStart => out.skipDepth = 0
    PROVE  /\ new \in [lines : Seq(Seq(A)) \ {<<>>}, skipDepth : {0, 1}]
           /\ html[i + 1] \in RawTextStart => new.skipDepth = 1
           /\ html[i + 1] \in RawTextEnd => new.skipDepth = 0
           /\ html[i + 1] \notin RawTextStart /\ html[i + 1] \notin RawTextEnd =>
                 new.skipDepth = out.skipDepth
           /\ html[i + 1] \in BreakingTags =>
                 ReadLines(new.lines) = Then(ReadLines(out.lines), Blank, Blank)
           /\ Shown(html, i + 1) /\ out.skipDepth = 0 =>
                 ReadLines(new.lines) = Then(ReadLines(out.lines), Fade(html[i + 1]), Blank)
           /\ html[i + 1] \notin BreakingTags /\ ~(Shown(html, i + 1) /\ out.skipDepth = 0) =>
                 ReadLines(new.lines) = ReadLines(out.lines)
<1> DEFINE a == html[i + 1]
           lines == out.lines
           skip == out.skipDepth
           Outs == [lines : Seq(Seq(A)) \ {<<>>}, skipDepth : {0, 1}]
<1>1. a \in A /\ lines \in Seq(Seq(A)) /\ lines # <<>> /\ skip \in {0, 1}
      /\ out = [lines |-> lines, skipDepth |-> skip]
  OBVIOUS
<1>2. Shown(html, i + 1) => a \notin Tags
  BY DEF Shown
<1>3. a \in RawTextStart \/ a \in RawTextEnd \/ a \in BreakingTags => a \in Tags
  BY TagKinds
<1>4. CASE a \in RawTextStart
  <2>1. a \notin BreakingTags /\ ~Shown(html, i + 1)
    BY <1>2, <1>3, <1>4, TagKinds
  <2>2. new = [out EXCEPT !.skipDepth = @ + 1]
    BY <1>4, WriteStart
  <2>3. skip + 1 = 1
    BY <1>4
  <2>4. new.lines = lines /\ new.skipDepth = 1 /\ new \in Outs
    BY <1>1, <2>2, <2>3
  <2> QED
    BY <1>4, <2>1, <2>4, TagKinds
<1>5. CASE a \in RawTextEnd
  <2>1. a \notin RawTextStart /\ a \notin BreakingTags /\ ~Shown(html, i + 1)
    BY <1>2, <1>3, <1>5, TagKinds
  <2>2. /\ skip > 0 => new = [out EXCEPT !.skipDepth = @ - 1]
        /\ ~(skip > 0) => new = out
    BY <1>5, WriteEnd
  <2>3. CASE skip = 1
    <3>1. skip > 0 /\ skip - 1 = 0
      BY <2>3
    <3> QED
      BY <1>1, <1>5, <2>1, <2>2, <3>1
  <2>4. CASE skip = 0
    <3>1. ~(skip > 0)
      BY <2>4
    <3> QED
      BY <1>1, <1>5, <2>1, <2>2, <2>4, <3>1
  <2> QED
    BY <1>1, <2>3, <2>4
<1>6. CASE a \in BreakingTags
  <2>1. a \notin RawTextStart /\ a \notin RawTextEnd
    BY <1>6, TagKinds
  <2>2. PICK l \in Seq(A) :
           /\ new = [out EXCEPT !.lines = Append(@, l)]
           /\ ReadLines(Append(lines, l)) = Then(ReadLines(lines), Blank, Blank)
    <3>1. CASE a = "<li>"
      <4> DEFINE l == <<"-", Blank>>
      <4>1. l \in Seq(A)
        OBVIOUS
      <4>2. new = [out EXCEPT !.lines = Append(@, l)]
        BY <1>6, <3>1, WriteBreak
      <4>3. ReadLines(Append(lines, l)) = Then(ReadLines(lines), Blank, Blank)
        BY <1>1, NewItemIsRead
      <4> HIDE DEF l
      <4> QED
        BY <4>1, <4>2, <4>3
    <3>2. CASE a # "<li>"
      <4> DEFINE l == <<>>
      <4>1. l \in Seq(A)
        OBVIOUS
      <4>2. new = [out EXCEPT !.lines = Append(@, l)]
        BY <1>6, <3>2, WriteBreak
      <4>3. ReadLines(Append(lines, l)) = Then(ReadLines(lines), Blank, Blank)
        BY <1>1, NewLineIsRead
      <4> HIDE DEF l
      <4> QED
        BY <4>1, <4>2, <4>3
    <3> QED
      BY <3>1, <3>2
  <2>5. Append(lines, l) \in Seq(Seq(A)) /\ Append(lines, l) # <<>>
    BY <1>1, AppendIsSeq
  <2>6. new.lines = Append(lines, l) /\ new.skipDepth = skip /\ new \in Outs
    BY <1>1, <2>2, <2>5
  <2>7. ~Shown(html, i + 1)
    BY <1>2, <1>3, <1>6
  <2> QED
    BY <1>6, <2>1, <2>2, <2>6, <2>7
<1>7. CASE Shown(html, i + 1) /\ skip = 0
  <2>1. a \notin RawTextStart /\ a \notin RawTextEnd /\ a \notin BreakingTags
    BY <1>2, <1>3, <1>7
  <2> DEFINE t == OnLastLine(lines, a)
  <2>3. t \in Seq(Seq(A)) \ {<<>>} /\ ReadLines(t) = Then(ReadLines(lines), Fade(a), Blank)
    BY <1>1, WrittenAtomIsRead
  <2>6. new = WriteAtom([lines |-> lines, skipDepth |-> 0], html, i + 1)
    BY <1>1, <1>7
  <2>4. new = [lines |-> t, skipDepth |-> 0]
    BY <1>7, <2>6, WriteText
  <2> HIDE DEF t
  <2>5. new.lines = t /\ new.skipDepth = skip /\ new \in Outs
    BY <1>7, <2>3, <2>4
  <2> QED
    BY <1>7, <2>1, <2>3, <2>5 DEF t
<1>8. CASE /\ a \notin RawTextStart /\ a \notin RawTextEnd /\ a \notin BreakingTags
           /\ ~(Shown(html, i + 1) /\ skip = 0)
  <2>1. new = out
    BY <1>8, WriteNothing
  <2> QED
    BY <1>8, <2>1
<1> QED
  BY <1>4, <1>5, <1>6, <1>7, <1>8

LEMMA LoopGoesOn ==
    ASSUME NEW A, Blank \in A, LineBreak \in A, "-" \in A, NEW html \in Seq(A),
           Single(html, Blank), LaidOut(html), NoNest(html),
           NEW i \in Nat, i < Len(html), LoopInv(A, html, i)
    PROVE  LoopInv(A, html, i + 1)
<1> DEFINE a == html[i + 1]
           out == WrittenUpTo(html)[i]
           new == WrittenUpTo(html)[i + 1]
           r == ReadLines(out.lines)
           d == ReadOf(html, i)
           r1 == ReadLines(new.lines)
           d1 == ReadOf(html, i + 1)
           Open(n) == InScript(SubSeq(html, 1, n))
           Outs == [lines : Seq(Seq(A)) \ {<<>>}, skipDepth : {0, 1}]
           ThenBlank1(k) == Then(k, Blank, Blank)
<1>0. i + 1 \in 1..Len(html) /\ a \in A /\ (i + 1) - 1 = i /\ i + 1 \in DOMAIN html
  OBVIOUS
<1>1. /\ out \in Outs /\ out.skipDepth \in {0, 1} /\ (out.skipDepth = 1 <=> Open(i))
      /\ r = d \/ (Hold(html, i) /\ d = ThenBlank1(r))
      /\ 0 < i /\ html[i] \in Block => EndsBlank(d, Blank)
  BY DEF LoopInv
<1>2. new = WriteAtom(out, html, i + 1)
  BY <1>0, WritingSteps
<1>3. Open(i + 1) <=> a \notin RawTextEnd /\ (a \in RawTextStart \/ Open(i))
  <2> DEFINE s == SubSeq(html, 1, i)
  <2>1. SubSeq(html, 1, i + 1) = Append(s, a) /\ s \in Seq(A)
    OBVIOUS
  <2> HIDE DEF s, a
  <2>2. InScript(Append(s, a)) <=> a \notin RawTextEnd /\ (a \in RawTextStart \/ InScript(s))
    BY <1>0, <2>1, InScriptAppend
  <2> QED
    BY <2>1, <2>2 DEF s
<1>4. a \in RawTextStart => ~Open(i)
  BY <1>0 DEF NoNest
<1>5. /\ d \in Seq(A) /\ d1 \in Seq(A)
      /\ d1 = IF a \in Block THEN ThenBlank1(d)
              ELSE IF a \in Tags \/ Open(i + 1) THEN d
              ELSE Then(d, Fade(a), Blank)
  BY NextPieceIsRead
<1>6. r \in Seq(A)
  BY <1>1, ReadLinesType
<1>7. Hold(html, i) => a \in Block \cup {Blank} /\ (a = Blank => AfterCloser(html, i))
  BY HeldUntilBlock
<1>8. /\ a \in Closers => AfterCloser(html, i + 1)
      /\ AfterCloser(html, i) /\ a = Blank => AfterCloser(html, i + 1)
  BY AfterCloserGoesOn
<1>9. /\ ThenBlank1(ThenBlank1(r)) = ThenBlank1(r)
      /\ EndsBlank(ThenBlank1(d), Blank)
      /\ EndsBlank(d, Blank) => ThenBlank1(d) = d
  BY <1>5, <1>6, ThenBlank
<1>10. /\ new \in Outs
       /\ a \in RawTextStart => new.skipDepth = 1
       /\ a \in RawTextEnd => new.skipDepth = 0
       /\ a \notin RawTextStart /\ a \notin RawTextEnd => new.skipDepth = out.skipDepth
       /\ a \in BreakingTags => r1 = ThenBlank1(r)
       /\ Shown(html, i + 1) /\ out.skipDepth = 0 => r1 = Then(r, Fade(a), Blank)
       /\ a \notin BreakingTags /\ ~(Shown(html, i + 1) /\ out.skipDepth = 0) => r1 = r
  <2>1. out \in Outs /\ new = WriteAtom(out, html, i + 1) /\ (a \in RawTextStart => out.skipDepth = 0)
    BY <1>1, <1>2, <1>4
  <2> HIDE DEF out, new
  <2>2. new \in Outs
    BY <2>1, OneTurn
  <2>3. /\ a \in RawTextStart => new.skipDepth = 1
        /\ a \in RawTextEnd => new.skipDepth = 0
        /\ a \notin RawTextStart /\ a \notin RawTextEnd => new.skipDepth = out.skipDepth
    BY <2>1, OneTurn, SMTT(20)
  <2>4. /\ a \in BreakingTags => r1 = ThenBlank1(r)
        /\ Shown(html, i + 1) /\ out.skipDepth = 0 => r1 = Then(r, Fade(a), Blank)
        /\ a \notin BreakingTags /\ ~(Shown(html, i + 1) /\ out.skipDepth = 0) => r1 = r
    BY <2>1, OneTurn, SMTT(20)
  <2> QED
    BY <2>2, <2>3, <2>4
<1>11. Shown(html, i + 1) => a \notin Tags
  BY DEF Shown
<1>12. a \notin Tags /\ ~Shown(html, i + 1) =>
          /\ a = Blank
          /\ \/ 0 < i /\ html[i] \in Block
             \/ i + 1 < Len(html) /\ html[(i + 1) + 1] \in Block
  BY <1>0, LoneBlank
<1>13. Fade(Blank) = Blank
  BY BlankIsNoFragment DEF Fade
<1>14. a = Blank /\ i + 1 < Len(html) /\ html[(i + 1) + 1] \in Block => Hold(html, i + 1)
  BY DEF Hold
<1>15. AfterCloser(html, i + 1) => Hold(html, i + 1)
  BY DEF Hold
<1> HIDE DEF a, out, new, r, d, r1, d1, Open, Outs, ThenBlank1
<1>16. new.skipDepth = 1 <=> Open(i + 1)
  BY <1>1, <1>3, <1>4, <1>10, TagKinds
<1>17. a \in Block => EndsBlank(d1, Blank)
  BY <1>5, <1>9
<1>18. r1 = d1 \/ (Hold(html, i + 1) /\ d1 = ThenBlank1(r1))
  <2>1. CASE a \in BreakingTags
    <3>1. r1 = ThenBlank1(r) /\ d1 = ThenBlank1(d)
      BY <1>5, <1>10, <2>1, TagKinds
    <3> QED
      BY <1>1, <1>9, <3>1
  <2>2. CASE a \in Closers
    <3>1. r1 = r /\ d1 = ThenBlank1(d) /\ Hold(html, i + 1)
      BY <1>5, <1>8, <1>10, <1>11, <1>15, <2>2, TagKinds
    <3> QED
      BY <1>1, <1>9, <3>1
  <2>3. CASE a \in Tags /\ a \notin Block
    <3>1. r1 = r /\ d1 = d
      BY <1>5, <1>10, <1>11, <2>3, TagKinds
    <3>2. r = d
      BY <1>1, <1>7, <2>3, TagKinds
    <3> QED
      BY <3>1, <3>2
  <2>4. CASE a \notin Tags /\ Open(i + 1)
    <3>1. out.skipDepth = 1
      BY <1>1, <1>3, <2>4, TagKinds
    <3>2. r1 = r /\ d1 = d
      BY <1>5, <1>10, <2>4, <3>1, TagKinds
    <3>3. Hold(html, i) => Hold(html, i + 1)
      BY <1>7, <1>8, <1>15, <2>4, TagKinds
    <3> QED
      BY <1>1, <3>2, <3>3
  <2>5. CASE a \notin Tags /\ ~Open(i + 1) /\ Shown(html, i + 1)
    <3>1. out.skipDepth = 0
      BY <1>1, <1>3, <2>5, TagKinds
    <3>2. r1 = Then(r, Fade(a), Blank) /\ d1 = Then(d, Fade(a), Blank)
      BY <1>5, <1>10, <2>5, <3>1, TagKinds
    <3>3. CASE r = d
      BY <3>2, <3>3
    <3>4. CASE Hold(html, i) /\ d = ThenBlank1(r)
      <4>1. Fade(a) = Blank
        BY <1>7, <1>13, <2>5, <3>4, TagKinds
      <4> QED
        BY <1>9, <3>2, <3>4, <4>1 DEF ThenBlank1
    <3> QED
      BY <1>1, <3>3, <3>4
  <2>6. CASE a \notin Tags /\ ~Open(i + 1) /\ ~Shown(html, i + 1)
    <3>1. r1 = r /\ d1 = ThenBlank1(d) /\ a = Blank
      BY <1>5, <1>10, <1>12, <1>13, <2>6, TagKinds DEF ThenBlank1
    <3>2. CASE 0 < i /\ html[i] \in Block
      <4>1. d1 = d
        BY <1>1, <1>9, <3>1, <3>2
      <4>2. Hold(html, i) => Hold(html, i + 1)
        BY <1>7, <1>8, <1>15, <3>1
      <4> QED
        BY <1>1, <3>1, <4>1, <4>2
    <3>3. CASE i + 1 < Len(html) /\ html[(i + 1) + 1] \in Block
      <4>1. Hold(html, i + 1)
        BY <1>14, <3>1, <3>3
      <4> QED
        BY <1>1, <1>9, <3>1, <4>1
    <3> QED
      BY <1>12, <2>6, <3>2, <3>3
  <2> QED
    BY <2>1, <2>2, <2>3, <2>4, <2>5, <2>6, TagKinds
<1> QED
  BY <1>10, <1>16, <1>17, <1>18 DEF LoopInv, a, new, r1, d1, Open, Outs, ThenBlank1

\* The text the loop writes has the words a browser shows.
LEMMA SanitizeKeepsWords ==
    ASSUME NEW A, Blank \in A, LineBreak \in A, "-" \in A, NEW html \in Seq(A),
           Single(html, Blank), LaidOut(html), NoNest(html)
    PROVE  WordsOf(SanitizeDescription(html)) = WordsOf(Displayed(html))
<1> DEFINE n == Len(html)
           T == {i \in Nat : i <= n => LoopInv(A, html, i)}
           lines == WrittenUpTo(html)[n].lines
           r == ReadLines(lines)
           d == ReadOf(html, n)
<1>1. n \in Nat
  OBVIOUS
<1>2. 0 \in T
  BY LoopStarts
<1>3. ASSUME NEW i \in Nat, i \in T PROVE i + 1 \in T
  <2>1. CASE i < n
    <3>1. LoopInv(A, html, i)
      BY <1>1, <1>3, <2>1
    <3>2. LoopInv(A, html, i + 1)
      BY <2>1, <3>1, LoopGoesOn
    <3> QED
      BY <3>2
  <2>2. CASE ~(i < n)
    BY <1>1, <2>2
  <2> QED
    BY <2>1, <2>2
<1>4. LoopInv(A, html, n)
  <2> HIDE DEF T
  <2>1. Nat \subseteq T
    BY <1>2, <1>3, InductiveSet
  <2> QED
    BY <1>1, <2>1 DEF T
<1>5. lines \in Seq(Seq(A)) /\ (r = d \/ d = Then(r, Blank, Blank))
  BY <1>4 DEF LoopInv
<1>6. WordsOf(SanitizeDescription(html)) = WordsOf(Spaced(lines, <<LineBreak>>))
  BY <1>5, CleanLinesHaveTheWords DEF SanitizeDescription
<1>7. r \in Seq(A)
  BY <1>5, ReadLinesType
<1>8. Trimmed(r, Blank) = Trimmed(d, Blank)
  <2> HIDE DEF r, d
  <2> QED
    BY <1>5, <1>7, ThenBlank
<1>9. WordsOf(Spaced(lines, <<LineBreak>>)) = Trimmed(r, Blank)
  BY WordsAreScanned DEF ReadLines
<1>10. WordsOf(Displayed(html)) = Trimmed(d, Blank)
  BY WordsAreScanned, DisplayedIsShown DEF ReadOf
<1> QED
  BY <1>6, <1>8, <1>9, <1>10

----------------------------------------------------------------------------
(* What can be posted *)

Postings ==
    [company : {Plain.company} \cup Companies, title : {Plain.title} \cup Titles,
     pay : {Plain.pay} \cup Pays, offer : {Plain.offer} \cup Offers,
     place : {Plain.place} \cup Places, skills : {Plain.skills} \cup Skills,
     requirement : {Plain.requirement} \cup Requirements, body : Seq(HtmlAtoms)]

\* The inductive invariant: what is posted is one of the postings, typed as a
\* tokenizer reads it, with nothing else rewritten once it has moved, and the
\* row is what the scrape makes of it.
IngInv ==
    /\ posting \in Postings
    /\ NoNest(posting.body)
    /\ OnlyIn({"place"}) \/ posting.place = Plain.place
    /\ row = Ingested(posting)

LEMMA PlainParts ==
    DOMAIN Plain = {"company", "title", "pay", "offer", "place", "skills", "requirement", "body"}
BY DEF Plain

\* One part is rewritten within its kind; the place only if all else is as at first.
LEMMA WriteKeeps ==
    ASSUME IngInv, NEW part \in DOMAIN Plain, NEW value, Write(part, value),
           [posting EXCEPT ![part] = value] \in Postings,
           part = "body" => NoNest(value),
           part = "place" => OnlyIn({}),
           part # "place" => posting.place = Plain.place
    PROVE  IngInv'
<1>1. posting' = [posting EXCEPT ![part] = value] /\ row' = Ingested(posting')
  BY DEF Write
<1>2. /\ DOMAIN posting = DOMAIN Plain
      /\ posting'[part] = value
      /\ \A f \in DOMAIN Plain : f # part => posting'[f] = posting[f]
  BY <1>1, PlainParts DEF IngInv, Postings
<1>3. NoNest(posting'.body)
  BY <1>2, PlainParts DEF IngInv
<1>4. OnlyIn({"place"})' \/ posting'.place = Plain.place
  BY <1>2, PlainParts DEF OnlyIn
<1> QED
  BY <1>1, <1>3, <1>4 DEF IngInv

LEMMA IngInvInit == Init => IngInv
<1> SUFFICES ASSUME Init PROVE IngInv
  OBVIOUS
<1>1. posting = Plain /\ row = Ingested(posting)
  BY DEF Init
<1>2. Plain.body = <<>>
  BY DEF Plain
<1>3. Plain \in Postings
  BY DEF Plain, Postings
<1> QED
  BY <1>1, <1>2, <1>3, NoNestEmpty DEF IngInv

LEMMA IngInvNext == IngInv /\ [Next]_vars => IngInv'
<1> SUFFICES ASSUME IngInv, [Next]_vars PROVE IngInv'
  OBVIOUS
<1>0. posting \in Postings
  BY DEF IngInv
<1>1. CASE Rename
  <2>1. PICK c \in Companies : Write("company", c)
    BY <1>1 DEF Rename
  <2>2. posting.place = Plain.place
    BY <1>1, PlainParts DEF Rename, OnlyIn
  <2>3. [posting EXCEPT !["company"] = c] \in Postings
    BY <1>0 DEF Postings
  <2> QED
    BY <2>1, <2>2, <2>3, WriteKeeps, PlainParts
<1>2. CASE Retitle
  <2>1. PICK t \in Titles : Write("title", t)
    BY <1>2 DEF Retitle
  <2>2. posting.place = Plain.place
    BY <1>2, PlainParts DEF Retitle, OnlyIn
  <2>3. [posting EXCEPT !["title"] = t] \in Postings
    BY <1>0 DEF Postings
  <2> QED
    BY <2>1, <2>2, <2>3, WriteKeeps, PlainParts
<1>3. CASE Pay
  <2>1. PICK v \in Pays : Write("pay", v)
    BY <1>3 DEF Pay
  <2>2. posting.place = Plain.place
    BY <1>3, PlainParts DEF Pay, OnlyIn
  <2>3. [posting EXCEPT !["pay"] = v] \in Postings
    BY <1>0 DEF Postings
  <2> QED
    BY <2>1, <2>2, <2>3, WriteKeeps, PlainParts
<1>4. CASE Offer
  <2>1. PICK o \in Offers : Write("offer", o)
    BY <1>4 DEF Offer
  <2>2. posting.place = Plain.place
    BY <1>4, PlainParts DEF Offer, OnlyIn
  <2>3. [posting EXCEPT !["offer"] = o] \in Postings
    BY <1>0 DEF Postings
  <2> QED
    BY <2>1, <2>2, <2>3, WriteKeeps, PlainParts
<1>5. CASE Move
  <2>1. PICK v \in Places : Write("place", v)
    BY <1>5 DEF Move
  <2>2. OnlyIn({})
    BY <1>5 DEF Move
  <2>3. [posting EXCEPT !["place"] = v] \in Postings
    BY <1>0 DEF Postings
  <2> QED
    BY <2>1, <2>2, <2>3, WriteKeeps, PlainParts
<1>6. CASE Ask
  <2>1. PICK r \in Requirements : Write("requirement", r)
    BY <1>6 DEF Ask
  <2>2. posting.place = Plain.place
    BY <1>6, PlainParts DEF Ask, OnlyIn
  <2>3. [posting EXCEPT !["requirement"] = r] \in Postings
    BY <1>0 DEF Postings
  <2> QED
    BY <2>1, <2>2, <2>3, WriteKeeps, PlainParts
<1>7. CASE ListSkills
  <2>1. PICK k \in Skills : Write("skills", k)
    BY <1>7 DEF ListSkills
  <2>2. posting.place = Plain.place
    BY <1>7, PlainParts DEF ListSkills, OnlyIn
  <2>3. [posting EXCEPT !["skills"] = k] \in Postings
    BY <1>0 DEF Postings
  <2> QED
    BY <2>1, <2>2, <2>3, WriteKeeps, PlainParts
<1>8. CASE Type
  <2> DEFINE b == posting.body
  <2>1. PICK a \in HtmlAtoms : /\ InScript(b) => a \notin Tags \ RawTextEnd
                               /\ Write("body", Append(b, a))
    BY <1>8 DEF Type
  <2>2. posting.place = Plain.place
    BY <1>8, PlainParts DEF Type, OnlyIn
  <2>3. b \in Seq(HtmlAtoms) /\ NoNest(b)
    BY <1>0 DEF IngInv, Postings
  <2> HIDE DEF b
  <2>4. NoNest(Append(b, a))
    BY <2>1, <2>3, NoNestAppend, TagKinds
  <2>5. [posting EXCEPT !["body"] = Append(b, a)] \in Postings
    <3>1. Append(b, a) \in Seq(HtmlAtoms)
      BY <2>3
    <3> QED
      BY <1>0, <3>1 DEF Postings
  <2> QED
    BY <2>1, <2>2, <2>4, <2>5, WriteKeeps, PlainParts
<1>9. CASE UNCHANGED vars
  BY <1>9 DEF vars, IngInv, OnlyIn
<1> QED
  BY <1>1, <1>2, <1>3, <1>4, <1>5, <1>6, <1>7, <1>8, <1>9 DEF Next

\* What is posted stays within its kinds, and every row is the one a scrape of
\* the posting as it stands makes.
LEMMA IngInvAlways == Spec => []IngInv
BY IngInvInit, IngInvNext, PTL DEF Spec

----------------------------------------------------------------------------
(* The HTML Kalibrr serves *)

Atoms == STRING \cup Tags \cup Marks

LEMMA FlattenSeqType ==
    ASSUME NEW A, NEW n \in Nat, NEW p \in [1..n -> Seq(A)]
    PROVE  FlattenSeq(p) \in Seq(A)
<1>1. p \in Seq(Seq(A)) /\ <<>> \in Seq(A)
  OBVIOUS
<1> QED
  BY <1>1, FlattenSeqAppend

LEMMA OneLong ==
    ASSUME NEW A, NEW a \in A
    PROVE  <<a>> \in Seq(A)
OBVIOUS

LEMMA TwoLong ==
    ASSUME NEW A, NEW a \in A, NEW b \in A
    PROVE  <<a, b>> \in Seq(A)
OBVIOUS

LEMMA OneAfterOther ==
    ASSUME NEW A, NEW x \in Seq(A), NEW y \in Seq(A)
    PROVE  x \o y \in Seq(A)
OBVIOUS

LEMMA Between ==
    ASSUME NEW A, NEW a \in A, NEW b \in A, NEW x \in Seq(A)
    PROVE  <<a>> \o x \o <<b>> \in Seq(A)
OBVIOUS

LEMMA SeqOfMore ==
    ASSUME NEW B, NEW A, B \subseteq A, NEW s \in Seq(B)
    PROVE  s \in Seq(A)
OBVIOUS

LEMMA PartsOfSeq ==
    ASSUME NEW B, NEW s \in Seq(B)
    PROVE  /\ Len(s) \in Nat
           /\ DOMAIN s = 1..Len(s)
           /\ \A i \in 1..Len(s) : s[i] \in B
OBVIOUS

LEMMA NamedAre ==
    ASSUME NEW U, NEW V, NEW s \in Seq([skill : U, text : V])
    PROVE  /\ Len(s) \in Nat
           /\ DOMAIN s = 1..Len(s)
           /\ \A i \in 1..Len(s) : s[i].text \in V
<1> DEFINE B == [skill : U, text : V]
<1>1. \A x \in B : x.text \in V
  OBVIOUS
<1>2. s \in Seq(B)
  OBVIOUS
<1> HIDE DEF B
<1> QED
  BY <1>1, <1>2, PartsOfSeq

LEMMA ListIsSeq ==
    ASSUME NEW B, NEW n \in Nat, NEW p \in [1..n -> B]
    PROVE  p \in Seq(B)
OBVIOUS

LEMMA SkillHtmlType ==
    ASSUME NEW A, NEW s \in Seq(A), s # <<>>, NEW layout, "<b>" \in A, "</b>" \in A
    PROVE  SkillHtml(s, layout) \in Seq(A)
<1>1. Head(s) \in A /\ Tail(s) \in Seq(A)
  OBVIOUS
<1> DEFINE front == <<"<b>", Head(s), "</b>">>
<1>2. front \in Seq(A)
  BY <1>1
<1> HIDE DEF front
<1>3. front \o Tail(s) \in Seq(A)
  BY <1>1, <1>2, OneAfterOther
<1> QED
  BY <1>3 DEF SkillHtml, front

LEMMA SkillsHtmlType ==
    ASSUME NEW A, Written \subseteq A, Tags \ RawTextStart \subseteq A, Comma \in A, Blank \in A,
           NEW k,
           k.named \in Seq([skill : STRING, text : Seq(Written) \ {<<>>}]),
           k.lead \in Seq(Written)
    PROVE  SkillsHtml(k) \in Seq(A)
<1> DEFINE n == Len(k.named)
           names == [i \in DOMAIN k.named |-> SkillHtml(k.named[i].text, k.layout)]
           items == [i \in DOMAIN names |-> <<"<li>">> \o names[i] \o <<"</li>">>]
           gap == <<Comma, Blank>>
           rest == IF k.layout = "items" THEN <<"<ul>">> \o FlattenSeq(items) \o <<"</ul>">>
                   ELSE <<"<p>">> \o Spaced(names, gap) \o <<"</p>">>
<1>0. SkillsHtml(k) = k.lead \o rest
  BY DEF SkillsHtml
<1>1. {"<b>", "</b>", "<li>", "</li>", "<ul>", "</ul>", "<p>", "</p>"} \subseteq A
  BY DEF Tags, RawTextStart
<1>2. n \in Nat /\ DOMAIN k.named = 1..n
      /\ \A i \in 1..n : k.named[i].text \in Seq(Written) /\ k.named[i].text # <<>>
  <2> DEFINE s == k.named
  <2>1. s \in Seq([skill : STRING, text : Seq(Written) \ {<<>>}])
    OBVIOUS
  <2> HIDE DEF s
  <2>2. /\ Len(s) \in Nat
        /\ DOMAIN s = 1..Len(s)
        /\ \A i \in 1..Len(s) : s[i].text \in Seq(Written) \ {<<>>}
    BY <2>1, NamedAre
  <2> QED
    BY <2>2 DEF s
<1> HIDE DEF n
<1>3. \A i \in 1..n : SkillHtml(k.named[i].text, k.layout) \in Seq(A)
  <2>1. \A s \in Seq(Written) : s \in Seq(A)
    BY SeqOfMore
  <2> QED
    BY <1>1, <1>2, <2>1, SkillHtmlType
<1>4. names \in [1..n -> Seq(A)] /\ DOMAIN names = 1..n
  BY <1>2, <1>3
<1> HIDE DEF names
<1>5. items \in [1..n -> Seq(A)]
  <2>1. \A i \in 1..n : names[i] \in Seq(A)
    BY <1>4
  <2>2. \A i \in 1..n : <<"<li>">> \o names[i] \o <<"</li>">> \in Seq(A)
    BY <1>1, <2>1, Between
  <2> QED
    BY <1>4, <2>2
<1> HIDE DEF items
<1>6. FlattenSeq(items) \in Seq(A)
  BY <1>2, <1>5, FlattenSeqType
<1>7. Spaced(names, gap) \in Seq(A)
  <2>1. gap \in Seq(A)
    BY TwoLong
  <2>2. names \in Seq(Seq(A))
    BY <1>2, <1>4, ListIsSeq
  <2> QED
    BY <2>1, <2>2, SpacedType
<1> HIDE DEF gap
<1>8. <<"<ul>">> \o FlattenSeq(items) \o <<"</ul>">> \in Seq(A)
  BY <1>1, <1>6, Between
<1>9. <<"<p>">> \o Spaced(names, gap) \o <<"</p>">> \in Seq(A)
  BY <1>1, <1>7, Between
<1>10. rest \in Seq(A)
  BY <1>8, <1>9
<1>11. k.lead \in Seq(A)
  BY SeqOfMore
<1> HIDE DEF rest
<1>12. k.lead \o rest \in Seq(A)
  BY <1>10, <1>11, OneAfterOther
<1> QED
  BY <1>0, <1>12

LEMMA RequirementHtmlType ==
    ASSUME NEW A, NEW r, Written \subseteq A, Tags \ RawTextStart \subseteq A, Blank \in A,
           r.text \in Seq(Written)
    PROVE  RequirementHtml(r) \in Seq(A)
<1> DEFINE t == r.text
           n == Len(t)
           p == [i \in DOMAIN t |-> IF IsFragment(t[i]) THEN <<Blank, t[i]>> ELSE <<t[i]>>]
           f == FlattenSeq(p)
<1>1. "<p>" \in A /\ "</p>" \in A
  BY DEF Tags, RawTextStart
<1>2. n \in Nat /\ DOMAIN t = 1..n /\ \A i \in 1..n : t[i] \in A
  OBVIOUS
<1> HIDE DEF t, n
<1>3. p \in [1..n -> Seq(A)]
  <2>1. \A i \in 1..n : <<Blank, t[i]>> \in Seq(A) /\ <<t[i]>> \in Seq(A)
    BY <1>2
  <2> QED
    BY <1>2, <2>1
<1> HIDE DEF p
<1>4. f \in Seq(A)
  BY <1>2, <1>3, FlattenSeqType
<1>5. RequirementHtml(r) = <<"<p>">> \o f \o <<"</p>">>
  BY DEF RequirementHtml, f, p, t
<1> HIDE DEF f
<1>6. <<"<p>">> \in Seq(A) /\ <<"</p>">> \in Seq(A)
  BY <1>1
<1>7. <<"<p>">> \o f \o <<"</p>">> \in Seq(A)
  BY <1>4, <1>6
<1> QED
  BY <1>5, <1>7

\* The description a posting is served with: no white space twice, and no
\* script within a script.
LEMMA DescriptionIsServed ==
    ASSUME IngInv
    PROVE  LET html == ToRawJob(KalibrrJob(posting)).description
           IN  html \in Seq(Atoms) /\ Single(html, Blank) /\ NoNest(html)
<1> DEFINE B == Atoms \ RawTextStart
           body == posting.body
           quals == SkillsHtml(posting.skills) \o RequirementHtml(posting.requirement)
           whole == body \o <<Blank>> \o quals
<1>1. /\ posting.body \in Seq(HtmlAtoms) /\ NoNest(posting.body)
      /\ posting.skills \in {Plain.skills} \cup Skills
      /\ posting.requirement \in {Plain.requirement} \cup Requirements
  BY DEF IngInv, Postings
<1>2. Blank \in B /\ Comma \in B /\ Written \subseteq B /\ Tags \ RawTextStart \subseteq B /\ B \subseteq Atoms
  <2>1. Blank \in B /\ Comma \in B
    BY DEF Atoms, Marks, Blanks, RawTextStart, Blank, Comma
  <2>2. Written \subseteq B /\ Tags \ RawTextStart \subseteq B /\ B \subseteq Atoms
    BY TagKinds DEF Atoms, Written
  <2> QED
    BY <2>1, <2>2
<1>3. SkillsHtml(posting.skills) \in Seq(B)
  <2> DEFINE k == posting.skills
  <2>1. k.named \in Seq([skill : STRING, text : Seq(Written) \ {<<>>}]) /\ k.lead \in Seq(Written)
    <3>1. CASE k = Plain.skills
      <4>1. k.named = <<>> /\ k.lead = <<>>
        BY <3>1 DEF Plain
      <4> HIDE DEF k
      <4> QED
        BY <4>1
    <3>2. CASE k \in Skills
      BY <3>2, TextAssumption
    <3> QED
      BY <1>1, <3>1, <3>2
  <2> HIDE DEF k, B
  <2>2. SkillsHtml(k) \in Seq(B)
    BY <1>2, <2>1, SkillsHtmlType
  <2> QED
    BY <2>2 DEF k
<1>4. RequirementHtml(posting.requirement) \in Seq(B)
  <2> DEFINE r == posting.requirement
  <2>1. r.text \in Seq(Written)
    <3>1. CASE r = Plain.requirement
      <4>1. r.text = <<>>
        BY <3>1 DEF Plain
      <4> HIDE DEF r
      <4> QED
        BY <4>1
    <3>2. CASE r \in Requirements
      BY <3>2, TextAssumption
    <3> QED
      BY <1>1, <3>1, <3>2
  <2> HIDE DEF r, B
  <2>2. RequirementHtml(r) \in Seq(B)
    BY <1>2, <2>1, RequirementHtmlType
  <2> QED
    BY <2>2 DEF r
<1>5. quals \in Seq(B)
  <2> DEFINE x == SkillsHtml(posting.skills)
             y == RequirementHtml(posting.requirement)
  <2>1. x \in Seq(B) /\ y \in Seq(B)
    BY <1>3, <1>4
  <2> HIDE DEF x, y, B
  <2>2. x \o y \in Seq(B)
    BY <2>1, OneAfterOther
  <2> QED
    BY <2>2 DEF x, y
<1>6. body \in Seq(Atoms) /\ NoNest(body)
  <2>1. HtmlAtoms \subseteq Atoms
    BY TextAssumption DEF Atoms
  <2> QED
    BY <1>1, <2>1
<1>7. ToRawJob(KalibrrJob(posting)).description = Collapse(whole, Blank)
  BY DEF ToRawJob, KalibrrJob
<1> HIDE DEF quals, body, B
<1>8. whole \in Seq(Atoms) /\ NoNest(whole)
  <2> DEFINE v == body \o <<Blank>>
  <2>1. <<Blank>> \in Seq(B)
    BY <1>2, OneLong
  <2>2. NoNest(v)
    <3> DEFINE one == <<Blank>>
    <3>1. one \in Seq(Atoms \ RawTextStart)
      BY <2>1 DEF B
    <3> HIDE DEF one
    <3>2. NoNest(body \o one)
      BY <1>6, <3>1, NoNestConcat
    <3> QED
      BY <3>2 DEF one
  <2>3. v \in Seq(Atoms)
    BY <1>2, <1>6, OneLong, OneAfterOther
  <2> HIDE DEF v
  <2>4. quals \in Seq(Atoms \ RawTextStart)
    BY <1>5 DEF B
  <2>5. NoNest(v \o quals)
    BY <2>2, <2>3, <2>4, NoNestConcat
  <2>6. quals \in Seq(Atoms)
    BY <1>2, <1>5, SeqOfMore
  <2>7. v \o quals \in Seq(Atoms)
    BY <2>3, <2>6, OneAfterOther
  <2> QED
    BY <2>5, <2>7 DEF v
<1> HIDE DEF whole
<1>9. Blank \in Atoms
  BY <1>2
<1> QED
  BY <1>7, <1>8, <1>9, CollapseIsSeq, NoNestCollapse

\* For every posting that is typed token by token, and laid out so that the
\* cleaning can be told from the browser, the clean description has the words
\* the browser shows, whole and apart.
THEOREM IngestMarkupKeepsWords == Spec => []MarkupKeepsWords
<1>1. ASSUME IngInv PROVE MarkupKeepsWords
  <2> DEFINE html == ToRawJob(KalibrrJob(posting)).description
  <2>1. html \in Seq(Atoms) /\ Single(html, Blank) /\ NoNest(html)
    BY <1>1, DescriptionIsServed
  <2>2. row.columns.description = SanitizeDescription(html)
    <3>1. row.columns = Normalize(Scraped(posting))
      BY <1>1 DEF IngInv, Ingested
    <3>2. Scraped(posting).description = html
      BY DEF Scraped, ToRawJob
    <3> QED
      BY <3>1, <3>2 DEF Normalize
  <2>3. Blank \in Atoms /\ LineBreak \in Atoms /\ "-" \in Atoms
    BY DEF Atoms, Marks, Blanks
  <2> HIDE DEF html
  <2>4. LaidOut(html) => WordsOf(SanitizeDescription(html)) = WordsOf(Displayed(html))
    BY <2>1, <2>3, SanitizeKeepsWords
  <2> QED
    BY <2>2, <2>4 DEF MarkupKeepsWords, html
<1> QED
  BY <1>1, IngInvAlways, PTL

----------------------------------------------------------------------------
(* The place *)

\* No atom of the text is one of the words.
Avoids(s, words) == \A i \in DOMAIN s : Lower(s[i]) \notin words

LEMMA AvoidsConcat ==
    ASSUME NEW A, NEW words, NEW s \in Seq(A), NEW t \in Seq(A), Avoids(s, words), Avoids(t, words)
    PROVE  Avoids(s \o t, words)
<1> DEFINE u == s \o t
<1>1. /\ u \in Seq(A) /\ Len(u) = Len(s) + Len(t) /\ Len(s) \in Nat /\ Len(t) \in Nat
      /\ DOMAIN s = 1..Len(s) /\ DOMAIN t = 1..Len(t) /\ DOMAIN u = 1..Len(u)
      /\ \A i \in DOMAIN u : u[i] = IF i <= Len(s) THEN s[i] ELSE t[i - Len(s)]
  OBVIOUS
<1> HIDE DEF u
<1>2. ASSUME NEW i \in DOMAIN u PROVE Lower(u[i]) \notin words
  <2>1. CASE i <= Len(s)
    BY <1>1, <2>1 DEF Avoids
  <2>2. CASE i > Len(s)
    <3>1. i - Len(s) \in DOMAIN t /\ u[i] = t[i - Len(s)]
      BY <1>1, <2>2
    <3> QED
      BY <3>1 DEF Avoids
  <2> QED
    BY <1>1, <2>1, <2>2
<1> QED
  BY <1>2 DEF Avoids, u

LEMMA NotSaid ==
    ASSUME NEW s, NEW words, Avoids(s, words)
    PROVE  ~Says(s, words)
BY DEF Says, Avoids

\* The first place of a mark.
LEMMA FirstPlace ==
    ASSUME NEW n \in Nat, NEW k \in 1..n, NEW P, k \in P, \A i \in 1..k - 1 : i \notin P
    PROVE  Min({i \in 1..n : i \in P}) = k
<1> DEFINE I == {i \in 1..n : i \in P}
<1>1. k \in I /\ \A i \in I : k <= i
  OBVIOUS
<1>2. \A i \in I : i \in Int
  OBVIOUS
<1> HIDE DEF I
<1>3. Min(I) \in I /\ \A i \in I : Min(I) <= i
  BY <1>1, Zenon DEF Min
<1>4. Min(I) <= k /\ k <= Min(I) /\ Min(I) \in Int /\ k \in Int
  BY <1>1, <1>2, <1>3
<1>5. Min(I) = k
  BY <1>4
<1> QED
  BY <1>5 DEF I

Lacks(s, x) == \A i \in DOMAIN s : s[i] # x

LEMMA NoComma ==
    ASSUME NEW A, NEW s \in Seq(A), Lacks(s, Comma)
    PROVE  ExtractCity(s) = Collapse(Without(s, ModeTags), Blank)
<1> DEFINE I == {i \in 1..Len(s) : s[i] = Comma}
<1>1. DOMAIN s = 1..Len(s)
  BY PartsOfSeq
<1>2. I = {}
  <2> HIDE DEF I
  <2> SUFFICES ASSUME NEW i \in I PROVE FALSE
    OBVIOUS
  <2>1. i \in DOMAIN s /\ s[i] = Comma
    BY <1>1 DEF I
  <2> QED
    BY <2>1, Zenon DEF Lacks
<1> QED
  BY <1>2 DEF ExtractCity, SelectInSeq

LEMMA ConcatParts ==
    ASSUME NEW A, NEW s \in Seq(A), NEW t \in Seq(A), t # <<>>
    PROVE  /\ Len(s \o t) \in Nat
           /\ Len(s) + 1 \in 1..Len(s \o t)
           /\ Len(s) + 1 # 0
           /\ (s \o t)[Len(s) + 1] = Head(t)
           /\ \A i \in 1..Len(s) : i \in DOMAIN s /\ (s \o t)[i] = s[i]
           /\ SubSeq(s \o t, 1, Len(s)) = s
OBVIOUS

OpensWith(t, x) == t # <<>> /\ Head(t) = x

LEMMA UpToComma ==
    ASSUME NEW A, NEW s \in Seq(A), Lacks(s, Comma), NEW t \in Seq(A), OpensWith(t, Comma)
    PROVE  ExtractCity(s \o t) = Collapse(Without(s, ModeTags), Blank)
<1> DEFINE u == s \o t
           n == Len(s) + 1
           P == {i \in 1..Len(u) : u[i] = Comma}
           I == {i \in 1..Len(u) : i \in P}
<1>1. /\ Len(u) \in Nat /\ n \in 1..Len(u) /\ n # 0 /\ u[n] = Head(t)
      /\ \A i \in 1..Len(s) : i \in DOMAIN s /\ u[i] = s[i]
      /\ SubSeq(u, 1, Len(s)) = s
  BY ConcatParts DEF OpensWith
<1>2. Len(s) \in Nat
  BY PartsOfSeq, Zenon
<1>3. I = P
  OBVIOUS
<1> HIDE DEF u, n
<1>4. n \in P /\ \A i \in 1..n - 1 : i \notin P
  <2>1. n - 1 = Len(s)
    BY <1>2 DEF n
  <2>2. \A i \in 1..Len(s) : u[i] # Comma
    BY <1>1, Zenon DEF Lacks
  <2>3. u[n] = Comma
    BY <1>1 DEF OpensWith
  <2> QED
    BY <1>1, <2>1, <2>2, <2>3
<1>5. Min(I) = n
  <2> HIDE DEF P
  <2>1. Len(u) \in Nat /\ n \in 1..Len(u)
    BY <1>1
  <2> QED
    BY <1>4, <2>1, FirstPlace
<1>6. P # {} /\ Min(P) = n
  BY <1>3, <1>4, <1>5
<1>7. SelectInSeq(u, LAMBDA a : a = Comma) = n
  BY <1>6 DEF SelectInSeq
<1>8. n - 1 = Len(s)
  BY <1>2 DEF n
<1>9. SubSeq(u, 1, n - 1) = s
  BY <1>1, <1>8
<1>10. ExtractCity(u) = Collapse(Without(SubSeq(u, 1, n - 1), ModeTags), Blank)
  BY <1>1, <1>7 DEF ExtractCity
<1> QED
  BY <1>9, <1>10 DEF u

\* What is collapsed already stays as it is, with or without a blank behind it.
LEMMA CollapsedStays ==
    ASSUME NEW A, Blank \in A, NEW c \in Seq(A), c # <<>>, Collapse(c, Blank) = c
    PROVE  Collapse(Append(c, Blank), Blank) = c
<1> DEFINE k == Kept(c, Blank)
<1>1. k \in Seq(A) /\ Trimmed(k, Blank) = c
  BY KeptType, CollapseIsTrimmedKept
<1>2. Collapse(Append(c, Blank), Blank) = Trimmed(Then(k, Blank, Blank), Blank)
  BY CollapseIsTrimmedKept, KeptAppend
<1> HIDE DEF k
<1>3. Trimmed(Then(k, Blank, Blank), Blank) = Trimmed(k, Blank)
  BY <1>1, ThenBlank
<1> QED
  BY <1>1, <1>2, <1>3

\* What contains none of the members loses nothing.
LEMMA WithoutNone ==
    ASSUME NEW A, NEW set, NEW c \in Seq(A), \A i \in DOMAIN c : c[i] \notin set
    PROVE  Without(c, set) = c
<1> DEFINE B == {a \in A : a \notin set}
           T == {s \in Seq(B) : Without(s, set) = s}
<1>1. <<>> \in T
  BY WithoutEmpty
<1>2. ASSUME NEW s \in Seq(B), NEW x \in B, s \in T PROVE Append(s, x) \in T
  <2>1. Without(s, set) = s /\ x \notin set /\ Append(s, x) \in Seq(B)
    BY <1>2
  <2>2. Without(Append(s, x), set) = Append(s, x)
    BY <2>1, WithoutAppend
  <2> QED
    BY <2>1, <2>2
<1>3. c \in Seq(B)
  <2>1. \A i \in 1..Len(c) : c[i] \in B
    OBVIOUS
  <2> QED
    BY <2>1
<1> HIDE DEF T, B
<1>4. Seq(B) \subseteq T
  BY <1>1, <1>2, InductiveSeq
<1> QED
  BY <1>3, <1>4 DEF T

\* A description of empty paragraphs is cleaned to nothing.
Empty == (BreakingTags \ {"<li>"}) \cup {Blank}

LEMMA NothingWritten ==
    ASSUME NEW html \in Seq(Empty)
    PROVE  \A i \in 0..Len(html) :
              /\ WrittenUpTo(html)[i].lines \in Seq({<<>>})
              /\ WrittenUpTo(html)[i].skipDepth = 0
<1> DEFINE n == Len(html)
           w == WrittenUpTo(html)
           Good(i) == w[i].lines \in Seq({<<>>}) /\ w[i].skipDepth = 0
           T == {i \in Nat : i <= n => Good(i)}
<1>1. n \in Nat /\ \A i \in 1..n : html[i] \in Empty
  OBVIOUS
<1>2. w[0] = [lines |-> <<<<>>>>, skipDepth |-> 0]
  BY WritingSteps
<1>3. \A i \in 1..n : w[i] = WriteAtom(w[i - 1], html, i)
  BY WritingSteps
<1>4. \A i \in 1..n : ~Shown(html, i)
  <2>1. DOMAIN html = 1..n
    OBVIOUS
  <2>2. \A j \in 1..n : html[j] = Blank \/ html[j] \in Tags
    BY <1>1 DEF Empty, BreakingTags, Tags
  <2> HIDE DEF n
  <2>3. ASSUME NEW i \in 1..n, NEW j \in 1..n, html[j] # Blank,
               \A k \in 1..n : (i <= k /\ k <= j) \/ (j <= k /\ k <= i) => html[k] \notin Tags
        PROVE  FALSE
    <3>1. html[j] \notin Tags
      BY <1>1, <2>3
    <3> QED
      BY <2>2, <2>3, <3>1
  <2> QED
    BY <2>1, <2>3 DEF Shown
<1> HIDE DEF w, n
<1>5. 0 \in T
  <2>1. <<<<>>>> \in Seq({<<>>})
    OBVIOUS
  <2>2. w[0].lines = <<<<>>>> /\ w[0].skipDepth = 0
    BY <1>2
  <2>3. Good(0)
    BY <2>1, <2>2
  <2> HIDE DEF Good
  <2> QED
    BY <2>3
<1>6. ASSUME NEW i \in Nat, i \in T PROVE i + 1 \in T
  <2> SUFFICES ASSUME i + 1 <= n PROVE Good(i + 1)
    OBVIOUS
  <2>1. i + 1 \in 1..n /\ i + 1 - 1 = i /\ Good(i)
    BY <1>1, <1>6
  <2> DEFINE a == html[i + 1]
             out == w[i]
  <2>2. w[i + 1] = WriteAtom(out, html, i + 1) /\ a \in Empty /\ ~Shown(html, i + 1)
    BY <1>1, <1>3, <1>4, <2>1
  <2>3. out.lines \in Seq({<<>>}) /\ out.skipDepth = 0
    BY <2>1
  <2> HIDE DEF a, out
  <2>4. a \notin RawTextStart /\ a # "<li>"
    BY <2>2 DEF Empty, BreakingTags, RawTextStart, Blank
  <2>5. CASE a \in BreakingTags
    <3>1. w[i + 1] = [out EXCEPT !.lines = Append(out.lines, <<>>)]
      BY <2>2, <2>3, <2>4, <2>5 DEF WriteAtom, a
    <3>2. w[i + 1].skipDepth = 0
      BY <2>3, <3>1
    <3> QED
      BY <2>3, <3>1, <3>2
  <2>6. CASE a \notin BreakingTags
    <3>1. w[i + 1] = out
      BY <2>2, <2>3, <2>4, <2>6 DEF WriteAtom, a
    <3> QED
      BY <2>3, <3>1
  <2> QED
    BY <2>5, <2>6
<1>7. Nat \subseteq T
  <2> HIDE DEF T
  <2> QED
    BY <1>5, <1>6, InductiveSet
<1>8. \A i \in 0..n : i \in Nat /\ i <= n
  BY <1>1
<1> QED
  BY <1>7, <1>8 DEF w, n

LEMMA NothingLeft ==
    ASSUME NEW lines \in Seq({<<>>})
    PROVE  Joined(CollapseWhitespace(lines)) = <<>>
<1> DEFINE E == {<<>>}
           T == {s \in Seq(E) : Kept(s, <<>>) = <<>>}
           clean == [n \in DOMAIN lines |-> Collapse(lines[n], Blank)]
<1>1. <<>> \in T
  BY KeptEmpty
<1>2. ASSUME NEW s \in Seq(E), NEW x \in E, s \in T PROVE Append(s, x) \in T
  <2>1. Kept(Append(s, x), <<>>) = Then(<<>>, <<>>, <<>>)
    BY <1>2, KeptAppend
  <2> QED
    BY <2>1 DEF Then
<1> HIDE DEF T
<1>3. Seq(E) \subseteq T
  <2> HIDE DEF E
  <2> QED
    BY <1>1, <1>2, InductiveSeq
<1>4. Collapse(<<>>, Blank) = <<>>
  BY CollapseIsTrimmedKept, KeptEmpty DEF Trimmed
<1>5. clean \in Seq(E)
  <2>1. \A n \in DOMAIN lines : Collapse(lines[n], Blank) \in E
    BY <1>4
  <2> QED
    BY <2>1
<1>6. Collapse(clean, <<>>) = <<>>
  BY <1>3, <1>5, CollapseIsTrimmedKept DEF T, Trimmed
<1> QED
  BY <1>6, SpacedEmpty DEF Joined, CollapseWhitespace

LEMMA EmptyDescription ==
    ASSUME NEW html \in Seq(Empty)
    PROVE  SanitizeDescription(html) = <<>>
<1>1. Len(html) \in 0..Len(html)
  OBVIOUS
<1>2. WrittenUpTo(html)[Len(html)].lines \in Seq({<<>>})
  BY <1>1, NothingWritten
<1> QED
  BY <1>2, NothingLeft DEF SanitizeDescription

\* A tag at the end of a text, apart from the text, is said by it.
LEMMA TagIsSaid ==
    ASSUME NEW A, NEW words, NEW u \in Seq(A), Blank \in A, NEW tag \in A, NEW v \in Seq(A),
           Lower(tag) \in words
    PROVE  Says(u \o (<<Blank, tag, Blank>> \o v), words)
<1> DEFINE s == u \o (<<Blank, tag, Blank>> \o v)
           n == Len(u) + 2
<1>1. /\ n \in DOMAIN s /\ n \in Nat
      /\ s[n] = tag /\ s[n - 1] = Blank /\ s[n + 1] = Blank
  OBVIOUS
<1> HIDE DEF s, n
<1>2. Bounded(s, n, n)
  BY <1>1, BlankIsNoFragment DEF Bounded
<1> QED
  BY <1>1, <1>2 DEF Says, s

\* What a mode is looked for in.
Searched(title, location, description) ==
    title \o <<Blank>> \o location \o <<Blank>> \o description

\* The three modes in their order.
LEMMA ModeIsTheFirstSaid ==
    ASSUME NEW title, NEW location, NEW description
    PROVE  LET text == Searched(title, location, description)
               mode == DetectMode(title, location, description)
           IN  /\ Says(text, ModeWords.hybrid) => mode = "hybrid"
               /\ ~Says(text, ModeWords.hybrid) /\ Says(text, ModeWords.remote)
                     => mode = "remote"
               /\ (\A m \in DOMAIN ModeWords : ~Says(text, ModeWords[m]))
                  /\ Collapse(location, Blank) # <<>>
                     => mode = "onsite"
<1> DEFINE text == Searched(title, location, description)
           modes == <<"hybrid", "remote", "onsite">>
           P == {i \in 1..3 : Says(text, ModeWords[modes[i]])}
           first == IF P # {} THEN Min(P) ELSE 0
<1>1. /\ ModeWords.hybrid = ModeWords[modes[1]] /\ ModeWords.remote = ModeWords[modes[2]]
      /\ \A i \in 1..3 : modes[i] \in DOMAIN ModeWords
      /\ modes[1] = "hybrid" /\ modes[2] = "remote" /\ Len(modes) = 3
  BY DEF ModeWords
<1>2. DetectMode(title, location, description) =
        IF first # 0 THEN modes[first]
        ELSE IF Collapse(location, Blank) # <<>> THEN "onsite" ELSE "unknown"
  BY DEF DetectMode, SelectInSeq, Searched
<1>3. ASSUME NEW k \in 1..3, k \in P, \A i \in 1..k - 1 : i \notin P
      PROVE  first = k /\ first # 0
  <2>1. P = {i \in 1..3 : i \in P} /\ 3 \in Nat
    OBVIOUS
  <2> HIDE DEF P
  <2>2. Min(P) = k
    BY <1>3, <2>1, FirstPlace
  <2> QED
    BY <1>3, <2>2
<1>4. CASE Says(text, ModeWords.hybrid)
  <2>1. 1 \in P /\ 1 \in 1..3 /\ \A i \in 1..1 - 1 : i \notin P
    BY <1>1, <1>4
  <2> QED
    BY <1>1, <1>2, <1>3, <1>4, <2>1
<1>5. CASE ~Says(text, ModeWords.hybrid) /\ Says(text, ModeWords.remote)
  <2>1. 2 \in P /\ 2 \in 1..3 /\ \A i \in 1..2 - 1 : i \notin P
    BY <1>1, <1>5
  <2> QED
    BY <1>1, <1>2, <1>3, <1>5, <2>1
<1>6. CASE \A mode \in DOMAIN ModeWords : ~Says(text, ModeWords[mode])
  <2>1. P = {}
    BY <1>1, <1>6
  <2>2. ~Says(text, ModeWords.hybrid) /\ ~Says(text, ModeWords.remote)
    BY <1>6 DEF ModeWords
  <2> QED
    BY <1>2, <2>1, <2>2
<1> QED
  BY <1>4, <1>5, <1>6 DEF ModeWords

\* City and country, as far as they are known.
Placed(c, d) == Spaced(Without(<<c, d>>, {<<>>}), <<Comma, Blank>>)

LEMMA WithoutMember ==
    ASSUME NEW A, NEW set, NEW s \in Seq(A), NEW x \in A, x \in set
    PROVE  Without(Append(s, x), set) = Without(s, set)
BY WithoutAppend

LEMMA WithoutOther ==
    ASSUME NEW A, NEW set, NEW s \in Seq(A), NEW x \in A, x \notin set
    PROVE  Without(Append(s, x), set) = Append(Without(s, set), x)
BY WithoutAppend

LEMMA PairIsAppend ==
    ASSUME NEW A, NEW c \in A, NEW d \in A
    PROVE  /\ <<c, d>> = Append(<<c>>, d) /\ <<c>> = Append(<<>>, c)
           /\ <<>> \in Seq(A) /\ <<c>> \in Seq(A) /\ <<c>> # <<>>
OBVIOUS

LEMMA WithoutOne ==
    ASSUME NEW A, NEW c \in A, NEW set
    PROVE  Without(<<c>>, set) = IF c \in set THEN <<>> ELSE <<c>>
<1>1. <<c>> = Append(<<>>, c) /\ <<>> \in Seq(A)
  BY PairIsAppend
<1>2. CASE c \in set
  <2>1. Without(Append(<<>>, c), set) = Without(<<>>, set)
    BY <1>1, <1>2, WithoutMember
  <2> QED
    BY <1>1, <1>2, <2>1, WithoutEmpty
<1>3. CASE c \notin set
  <2>1. Without(Append(<<>>, c), set) = Append(Without(<<>>, set), c)
    BY <1>1, <1>3, WithoutOther, ZenonT(30)
  <2> QED
    BY <1>1, <1>3, <2>1, WithoutEmpty
<1> QED
  BY <1>2, <1>3

LEMMA WithoutPair ==
    ASSUME NEW A, NEW c \in A, NEW d \in A, NEW set
    PROVE  Without(<<c, d>>, set) =
             IF d \in set THEN Without(<<c>>, set) ELSE Append(Without(<<c>>, set), d)
<1>1. <<c, d>> = Append(<<c>>, d) /\ <<c>> \in Seq(A)
  BY PairIsAppend
<1>2. CASE d \in set
  <2>1. Without(Append(<<c>>, d), set) = Without(<<c>>, set)
    BY <1>1, <1>2, WithoutMember
  <2> QED
    BY <1>1, <1>2, <2>1
<1>3. CASE d \notin set
  <2>1. Without(Append(<<c>>, d), set) = Append(Without(<<c>>, set), d)
    BY <1>1, <1>3, WithoutOther, ZenonT(30)
  <2> QED
    BY <1>1, <1>3, <2>1
<1> QED
  BY <1>2, <1>3

LEMMA PlacedAs ==
    ASSUME NEW A, NEW c \in Seq(A), NEW d \in Seq(A), Comma \in A, Blank \in A
    PROVE  Placed(c, d) =
             IF c = <<>> THEN d
             ELSE IF d = <<>> THEN c ELSE c \o (<<Comma, Blank>> \o d)
<1> DEFINE gap == <<Comma, Blank>>
<1>0. gap \in Seq(A)
  BY TwoLong
<1> HIDE DEF gap
<1>1. Spaced(<<>>, gap) = <<>> /\ Spaced(<<c>>, gap) = c /\ Spaced(<<d>>, gap) = d
  BY SpacedEmpty, SpacedFirst
<1>2. Spaced(<<c, d>>, gap) = c \o (gap \o d)
  <2> DEFINE B == Seq(A)
  <2>0. c \in B /\ d \in B
    OBVIOUS
  <2> HIDE DEF B
  <2>1. <<c>> \in Seq(B) /\ <<c>> # <<>> /\ Append(<<c>>, d) = <<c, d>>
    BY <2>0, PairIsAppend
  <2>2. Spaced(Append(<<c>>, d), gap) = Spaced(<<c>>, gap) \o (gap \o d)
    BY <1>0, <2>1, SpacedNext DEF B
  <2> QED
    BY <1>1, <2>1, <2>2
<1>3. Placed(c, d) = Spaced(Without(<<c, d>>, {<<>>}), gap)
  BY DEF Placed, gap
<1>4. c \in Seq(A) /\ d \in Seq(A)
  OBVIOUS
<1>5. Without(<<c, d>>, {<<>>}) =
        IF d \in {<<>>} THEN Without(<<c>>, {<<>>}) ELSE Append(Without(<<c>>, {<<>>}), d)
  BY <1>4, WithoutPair
<1>6. Without(<<c>>, {<<>>}) = IF c \in {<<>>} THEN <<>> ELSE <<c>>
  BY <1>4, WithoutOne
<1>7. Append(<<>>, d) = <<d>> /\ Append(<<c>>, d) = <<c, d>>
  BY <1>4, PairIsAppend
<1>8. CASE c = <<>> /\ d = <<>>
  <2>1. Without(<<c, d>>, {<<>>}) = <<>>
    BY <1>5, <1>6, <1>8
  <2> QED
    BY <1>1, <1>3, <1>8, <2>1
<1>9. CASE c = <<>> /\ d # <<>>
  <2>1. Without(<<c, d>>, {<<>>}) = <<d>>
    BY <1>5, <1>6, <1>7, <1>9
  <2> QED
    BY <1>1, <1>3, <1>9, <2>1
<1>10. CASE c # <<>> /\ d = <<>>
  <2>1. Without(<<c, d>>, {<<>>}) = <<c>>
    BY <1>5, <1>6, <1>10
  <2> QED
    BY <1>1, <1>3, <1>10, <2>1
<1>11. CASE c # <<>> /\ d # <<>>
  <2>1. Without(<<c, d>>, {<<>>}) = <<c, d>>
    BY <1>5, <1>6, <1>7, <1>11
  <2> QED
    BY <1>2, <1>3, <1>11, <2>1 DEF gap
<1> QED
  BY <1>8, <1>9, <1>10, <1>11

LEMMA NoMode ==
    /\ \A a \in {Blank, Comma, LineBreak, "developer"}, mode \in DOMAIN ModeWords :
          Lower(a) \notin ModeWords[mode]
    /\ \A mode \in {"hybrid", "onsite"} : Lower("(remote)") \notin ModeWords[mode]
    /\ \A mode \in {"remote", "onsite"} : Lower("(hybrid)") \notin ModeWords[mode]
    /\ Lower("(remote)") \in ModeWords.remote /\ Lower("(hybrid)") \in ModeWords.hybrid
<1>1. \A a \in {Blank, Comma, LineBreak, "developer", "(remote)", "(hybrid)"} : Lower(a) = a
  BY DEF Lower, Lowercase, Blank, Comma, LineBreak
<1>2. /\ DOMAIN ModeWords = {"hybrid", "remote", "onsite"}
      /\ ModeWords["hybrid"] = {"hybrid", "(hybrid)"}
      /\ ModeWords["remote"] = {"remote", "remotely", "(remote)", "wfh", "wfa"}
      /\ ModeWords["onsite"] = {"onsite", "(onsite)", "wfo"}
  BY DEF ModeWords
<1>3. \A a \in {Blank, Comma, LineBreak, "developer"} :
        /\ a \notin {"hybrid", "(hybrid)"} /\ a \notin {"onsite", "(onsite)", "wfo"}
        /\ a \notin {"remote", "remotely", "(remote)", "wfh", "wfa"}
  BY DEF Blank, Comma, LineBreak
<1>4. \A a \in {Blank, Comma, LineBreak, "developer"}, mode \in DOMAIN ModeWords :
        Lower(a) \notin ModeWords[mode]
  BY <1>1, <1>2, <1>3
<1>5. Lower("(remote)") = "(remote)" /\ Lower("(hybrid)") = "(hybrid)"
  BY <1>1
<1>6. /\ \A mode \in {"hybrid", "onsite"} : "(remote)" \notin ModeWords[mode]
      /\ \A mode \in {"remote", "onsite"} : "(hybrid)" \notin ModeWords[mode]
      /\ "(remote)" \in ModeWords["remote"] /\ "(hybrid)" \in ModeWords["hybrid"]
  BY <1>2
<1> QED
  BY <1>4, <1>5, <1>6

LEMMA TagsAreModes ==
    \A a \in ModeTags : \E mode \in DOMAIN ModeWords : Lower(a) \in ModeWords[mode]
<1>1. \A a \in ModeTags : Lower(a) = a
  BY DEF Lower, Lowercase, ModeTags
<1> QED
  BY <1>1 DEF ModeWords, ModeTags

LEMMA CityFacts ==
    ASSUME NEW c \in Cities
    PROVE  /\ c \in Seq(Atoms) /\ c # <<>>
           /\ Collapse(c, Blank) = c
           /\ Lacks(c, Comma)
           /\ \A i \in DOMAIN c : c[i] \notin ModeTags
           /\ \A mode \in DOMAIN ModeWords : Avoids(c, ModeWords[mode])
<1>1. c \in Seq(STRING) /\ c # <<>> /\ Collapse(c, Blank) = c
  BY CityAssumption
<1>2. STRING \subseteq Atoms
  BY DEF Atoms
<1>3. c \in Seq(Atoms)
  BY <1>1, <1>2, SeqOfMore
<1>4. Lacks(c, Comma)
  BY CityAssumption DEF Lacks
<1>5. \A i \in DOMAIN c, mode \in DOMAIN ModeWords : Lower(c[i]) \notin ModeWords[mode]
  BY CityAssumption
<1>6. \A i \in DOMAIN c : c[i] \notin ModeTags
  BY <1>5, TagsAreModes
<1> QED
  BY <1>1, <1>3, <1>4, <1>5, <1>6 DEF Avoids

LEMMA OpensAsFirst ==
    ASSUME NEW A, NEW s \in Seq(A), NEW t \in Seq(A), s # <<>>
    PROVE  s \o t \in Seq(A) /\ s \o t # <<>> /\ Head(s \o t) = Head(s)
OBVIOUS

LEMMA TwoMore ==
    ASSUME NEW A, NEW s \in Seq(A), NEW a \in A, NEW b \in A
    PROVE  s \o <<a, b>> = Append(Append(s, a), b)
OBVIOUS

LEMMA LacksAppend ==
    ASSUME NEW A, NEW x, NEW s \in Seq(A), Lacks(s, x), NEW a \in A, a # x
    PROVE  Lacks(Append(s, a), x)
BY DEF Lacks

\* The city comes before the first comma, and before a badge.
LEMMA CityComesFirst ==
    ASSUME NEW c \in Cities, NEW d \in {<<>>} \cup Cities,
           NEW badge \in {<<>>, <<Blank, "(remote)">>, <<Blank, "(hybrid)">>}
    PROVE  ExtractCity(Placed(c, d) \o badge) = c
<1> DEFINE gap == <<Comma, Blank>>
<1>1. /\ c \in Seq(Atoms) /\ c # <<>> /\ Collapse(c, Blank) = c /\ Lacks(c, Comma)
      /\ \A i \in DOMAIN c : c[i] \notin ModeTags
  BY CityFacts
<1>2. /\ Blank \in Atoms /\ Comma \in Atoms /\ "(remote)" \in Atoms /\ "(hybrid)" \in Atoms
      /\ "(remote)" \in ModeTags /\ "(hybrid)" \in ModeTags /\ Blank \notin ModeTags
      /\ Blank # Comma /\ "(remote)" # Comma /\ "(hybrid)" # Comma
  BY DEF Atoms, Marks, Blanks, ModeTags, Blank, Comma
<1>3. d \in Seq(Atoms)
  <2>1. <<>> \in Seq(Atoms)
    OBVIOUS
  <2> QED
    BY <2>1, CityFacts
<1>4. badge \in Seq(Atoms)
  <2>1. <<>> \in Seq(Atoms)
    OBVIOUS
  <2> QED
    BY <1>2, <2>1, TwoLong
<1>5. Without(c, ModeTags) = c
  BY <1>1, WithoutNone
<1>6. CASE d # <<>>
  <2> DEFINE t == (gap \o d) \o badge
  <2>1. t \in Seq(Atoms) /\ OpensWith(t, Comma)
    <3>1. gap \in Seq(Atoms) /\ gap # <<>> /\ Head(gap) = Comma
      BY <1>2, TwoLong
    <3> HIDE DEF gap
    <3>2. gap \o d \in Seq(Atoms) /\ gap \o d # <<>> /\ Head(gap \o d) = Head(gap)
      BY <1>3, <3>1, OpensAsFirst
    <3>3. t \in Seq(Atoms) /\ t # <<>> /\ Head(t) = Head(gap \o d)
      BY <1>4, <3>2, OpensAsFirst
    <3> QED
      BY <3>1, <3>2, <3>3 DEF OpensWith
  <2>2. Placed(c, d) = c \o (gap \o d)
    BY <1>1, <1>2, <1>3, <1>6, PlacedAs
  <2>3. (c \o (gap \o d)) \o badge = c \o t
    <3>1. gap \o d \in Seq(Atoms)
      BY <1>2, <1>3, TwoLong, OneAfterOther
    <3> DEFINE x == gap \o d
    <3>2. c \in Seq(Atoms) /\ x \in Seq(Atoms) /\ badge \in Seq(Atoms)
      BY <1>1, <1>4, <3>1
    <3> HIDE DEF x
    <3>3. (c \o x) \o badge = c \o (x \o badge)
      BY <3>2, ConcatAssociative, SMTT(20)
    <3> QED
      BY <3>3 DEF x
  <2> HIDE DEF t
  <2>4. ExtractCity(c \o t) = Collapse(Without(c, ModeTags), Blank)
    BY <1>1, <2>1, UpToComma
  <2> QED
    BY <1>1, <1>5, <2>2, <2>3, <2>4
<1>7. CASE d = <<>>
  <2>1. Placed(c, d) = c
    BY <1>1, <1>2, <1>3, <1>7, PlacedAs
  <2>2. CASE badge = <<>>
    <3>1. c \o badge = c
      BY <1>1, <2>2
    <3>2. ExtractCity(c) = Collapse(Without(c, ModeTags), Blank)
      BY <1>1, NoComma
    <3> QED
      BY <1>1, <1>5, <2>1, <3>1, <3>2
  <2>3. ASSUME NEW tag \in {"(remote)", "(hybrid)"}, badge = <<Blank, tag>>
        PROVE  ExtractCity(c \o badge) = c
    <3> DEFINE s == Append(c, Blank)
               u == Append(s, tag)
    <3>1. tag \in Atoms /\ tag \in ModeTags /\ tag # Comma
      BY <1>2
    <3>2. c \o badge = u
      BY <1>1, <1>2, <2>3, <3>1, TwoMore
    <3>3. s \in Seq(Atoms) /\ u \in Seq(Atoms)
      BY <1>1, <1>2, <3>1, AppendIsSeq
    <3>4. Lacks(s, Comma)
      BY <1>1, <1>2, LacksAppend
    <3>5. Lacks(u, Comma)
      BY <3>1, <3>3, <3>4, LacksAppend
    <3>6. Without(s, ModeTags) = Append(c, Blank)
      BY <1>1, <1>2, <1>5, WithoutOther
    <3> HIDE DEF s
    <3>7. Without(u, ModeTags) = Append(c, Blank)
      BY <3>1, <3>3, <3>6, WithoutMember
    <3> HIDE DEF u
    <3>8. ExtractCity(u) = Collapse(Append(c, Blank), Blank)
      BY <3>3, <3>5, <3>7, NoComma
    <3> QED
      BY <1>1, <1>2, <3>2, <3>8, CollapsedStays
  <2> QED
    BY <2>1, <2>2, <2>3
<1> QED
  BY <1>6, <1>7

\* Nothing of a place says a mode, but for its badge.
LEMMA PlacedAvoids ==
    ASSUME NEW c \in {<<>>} \cup Cities, NEW d \in {<<>>} \cup Cities, NEW mode \in DOMAIN ModeWords
    PROVE  Placed(c, d) \in Seq(Atoms) /\ Avoids(Placed(c, d), ModeWords[mode])
<1> DEFINE gap == <<Comma, Blank>>
           words == ModeWords[mode]
<1>1. Comma \in Atoms /\ Blank \in Atoms
  BY DEF Atoms, Marks, Blanks
<1>2. gap \in Seq(Atoms) /\ Avoids(gap, words)
  <2>1. Lower(Comma) \notin words /\ Lower(Blank) \notin words
    BY NoMode
  <2> QED
    BY <1>1, <2>1, TwoLong DEF Avoids
<1>3. \A e \in {<<>>} \cup Cities : e \in Seq(Atoms) /\ Avoids(e, words)
  <2>1. <<>> \in Seq(Atoms) /\ Avoids(<<>>, words)
    BY DEF Avoids
  <2> QED
    BY <2>1, CityFacts
<1> HIDE DEF gap, words
<1>4. gap \o d \in Seq(Atoms) /\ Avoids(gap \o d, words)
  BY <1>2, <1>3, AvoidsConcat, OneAfterOther
<1>5. c \o (gap \o d) \in Seq(Atoms) /\ Avoids(c \o (gap \o d), words)
  BY <1>3, <1>4, AvoidsConcat, OneAfterOther
<1>6. Placed(c, d) = IF c = <<>> THEN d ELSE IF d = <<>> THEN c ELSE c \o (gap \o d)
  BY <1>1, <1>3, PlacedAs DEF gap
<1> QED
  BY <1>3, <1>5, <1>6 DEF words

\* What is in the text a mode is looked for in, if all but the place is plain.
Around(location) == Searched(<<"developer">>, location, <<>>)

LEMMA AroundAvoids ==
    ASSUME NEW location \in Seq(Atoms), NEW mode \in DOMAIN ModeWords,
           Avoids(location, ModeWords[mode])
    PROVE  Avoids(Around(location), ModeWords[mode])
<1> DEFINE words == ModeWords[mode]
           x == <<"developer">>
           y == <<Blank>>
           B == Atoms \cup {"developer"}
<1>1. x \in Seq(B) /\ y \in Seq(B) /\ <<>> \in Seq(B)
  BY OneLong DEF Atoms, Marks, Blanks
<1>2. Avoids(x, words) /\ Avoids(y, words) /\ Avoids(<<>>, words)
  <2>1. Lower("developer") \notin words /\ Lower(Blank) \notin words
    BY NoMode
  <2> QED
    BY <2>1 DEF Avoids
<1>3. location \in Seq(B)
  BY SeqOfMore
<1> HIDE DEF words, x, y, B
<1>4. Avoids(location, words)
  BY DEF words
<1>5. x \o y \in Seq(B) /\ Avoids(x \o y, words)
  BY <1>1, <1>2, AvoidsConcat, OneAfterOther
<1>6. (x \o y) \o location \in Seq(B) /\ Avoids((x \o y) \o location, words)
  BY <1>3, <1>4, <1>5, AvoidsConcat, OneAfterOther
<1>7. ((x \o y) \o location) \o y \in Seq(B) /\ Avoids(((x \o y) \o location) \o y, words)
  BY <1>1, <1>2, <1>6, AvoidsConcat, OneAfterOther
<1>8. Avoids((((x \o y) \o location) \o y) \o <<>>, words)
  BY <1>1, <1>2, <1>7, AvoidsConcat, OneAfterOther
<1> QED
  BY <1>8 DEF Around, Searched, words, x, y

\* A text that does not begin with a blank is not collapsed to nothing.
LEMMA KeptHead ==
    ASSUME NEW A, NEW b \in A, NEW s \in Seq(A), s # <<>>, Head(s) # b
    PROVE  Kept(s, b) # <<>> /\ Head(Kept(s, b)) # b
<1> DEFINE Good(k) == k # <<>> /\ Head(k) # b
           T == {t \in Seq(A) : Good(t) => Good(Kept(t, b))}
<1>1. <<>> \in T
  OBVIOUS
<1>2. ASSUME NEW t \in Seq(A), NEW x \in A, t \in T
      PROVE  Append(t, x) \in T
  <2> DEFINE k == Kept(t, b)
             u == Append(t, x)
  <2>1. k \in Seq(A) /\ Kept(u, b) = Then(k, x, b) /\ u \in Seq(A)
    BY KeptType, KeptAppend
  <2> SUFFICES ASSUME Good(u) PROVE Good(Then(k, x, b))
    BY <2>1
  <2>2. CASE t = <<>>
    <3>1. k = <<>>
      BY <2>2, KeptEmpty
    <3>2. x # b
      BY <2>2
    <3> HIDE DEF k
    <3>3. Then(k, x, b) = Append(k, x)
      BY <3>2 DEF Then
    <3> QED
      BY <3>1, <3>2, <3>3
  <2>3. CASE t # <<>>
    <3>1. Good(t)
      BY <2>3
    <3>2. Good(k)
      BY <1>2, <3>1
    <3> HIDE DEF k, u
    <3>3. Good(Append(k, x))
      BY <2>1, <3>2, SMTT(20)
    <3> QED
      BY <3>2, <3>3 DEF Then
  <2> QED
    BY <2>2, <2>3
<1>3. Seq(A) \subseteq T
  <2> HIDE DEF T
  <2> QED
    BY <1>1, <1>2, InductiveSeq
<1> QED
  BY <1>3

LEMMA CollapseIsNotEmpty ==
    ASSUME NEW A, NEW b \in A, NEW s \in Seq(A), s # <<>>, Head(s) # b
    PROVE  Collapse(s, b) # <<>>
<1> DEFINE k == Kept(s, b)
<1>1. k \in Seq(A) /\ k # <<>> /\ Head(k) # b /\ Collapse(s, b) = Trimmed(k, b)
  BY KeptType, KeptHead, CollapseIsTrimmedKept
<1> HIDE DEF k
<1>2. CASE Last(k) = b
  <2>1. Len(k) # 1
    BY <1>1, <1>2 DEF Last
  <2>2. Front(k) # <<>>
    <3>1. Len(Front(k)) = Len(k) - 1
      BY <1>1, SeqIsAppend
    <3>2. Len(Front(k)) # 0
      BY <1>1, <2>1, <3>1
    <3> QED
      BY <3>2
  <2> QED
    BY <1>1, <2>2 DEF Trimmed
<1>3. CASE Last(k) # b
  BY <1>1, <1>3 DEF Trimmed
<1> QED
  BY <1>2, <1>3

LEMMA CityIsWritten ==
    ASSUME NEW c \in Cities
    PROVE  c \in Seq(Atoms) /\ c # <<>> /\ Head(c) # Blank
<1>1. c \in Seq(Atoms) /\ c # <<>> /\ Collapse(c, Blank) = c
  BY CityFacts
<1>2. Single(c, Blank)
  BY <1>1, CollapseIsSeq
<1>3. 1 \in DOMAIN c /\ Head(c) = c[1]
  BY <1>1
<1> QED
  BY <1>1, <1>2, <1>3 DEF Single

LEMMA KnownPlaceIsWritten ==
    ASSUME NEW c \in {<<>>} \cup Cities, NEW d \in {<<>>} \cup Cities, c # <<>> \/ d # <<>>
    PROVE  Collapse(Placed(c, d), Blank) # <<>>
<1> DEFINE gap == <<Comma, Blank>>
<1>1. Blank \in Atoms /\ Comma \in Atoms
  BY DEF Atoms, Marks, Blanks
<1>2. \A e \in {<<>>} \cup Cities : e \in Seq(Atoms) /\ (e # <<>> => Head(e) # Blank)
  <2>1. <<>> \in Seq(Atoms)
    OBVIOUS
  <2> QED
    BY <2>1, CityIsWritten
<1>3. Placed(c, d) = IF c = <<>> THEN d ELSE IF d = <<>> THEN c ELSE c \o (gap \o d)
  BY <1>1, <1>2, PlacedAs
<1>4. gap \o d \in Seq(Atoms)
  BY <1>1, <1>2, TwoLong, OneAfterOther
<1> HIDE DEF gap
<1>5. c # <<>> =>
        c \o (gap \o d) \in Seq(Atoms) /\ c \o (gap \o d) # <<>> /\ Head(c \o (gap \o d)) = Head(c)
  BY <1>2, <1>4, OpensAsFirst
<1>6. CASE c = <<>>
  BY <1>1, <1>2, <1>3, <1>6, CollapseIsNotEmpty
<1>7. CASE c # <<>> /\ d = <<>>
  BY <1>1, <1>2, <1>3, <1>7, CollapseIsNotEmpty
<1>8. CASE c # <<>> /\ d # <<>>
  BY <1>1, <1>2, <1>3, <1>5, <1>8, CollapseIsNotEmpty
<1> QED
  BY <1>6, <1>7, <1>8

----------------------------------------------------------------------------

\* Of a posting of which only the place was rewritten.
LEMMA PlainTitle == TitleText(Plain.title) = <<"developer">>
<1> DEFINE t == <<"developer">>
           A == {"developer", Blank}
<1>1. t \in Seq(A)
  BY OneLong
<1>2. /\ Plain.title.level = <<>> /\ Plain.title.badge = <<>>
      /\ Plain.title.name = <<t>> /\ Plain.title.gap = <<Blank>>
  BY DEF Plain
<1> HIDE DEF t, A
<1>3. Spaced(<<t>>, <<Blank>>) = t
  BY <1>1, SpacedFirst
<1>4. (<<>> \o t) \o <<>> = t
  BY <1>1
<1>5. TitleText(Plain.title) = (<<>> \o t) \o <<>>
  BY <1>2, <1>3 DEF TitleText
<1> QED
  BY <1>4, <1>5 DEF t

LEMMA NothingAdded ==
    ASSUME NEW A, NEW x \in Seq(A)
    PROVE  x \o <<>> = x /\ <<>> \o x = x
OBVIOUS

LEMMA OneMore ==
    ASSUME NEW A, NEW s \in Seq(A), NEW a \in A
    PROVE  s \o <<a>> = Append(s, a)
OBVIOUS

LEMMA TwoThenOne ==
    ASSUME NEW A, NEW a \in A, NEW b \in A, NEW c \in A
    PROVE  Append(<<a, b>>, c) = <<a, b, c>>
<1>1. Append(<<a, b>>, c) = [i \in 1..3 |-> IF i = 1 THEN a ELSE IF i = 2 THEN b ELSE c]
  OBVIOUS
<1>2. <<a, b, c>> = [i \in 1..3 |-> IF i = 1 THEN a ELSE IF i = 2 THEN b ELSE c]
  OBVIOUS
<1> QED
  BY <1>1, <1>2

LEMMA OneAndOne ==
    ASSUME NEW A, NEW a \in A, NEW b \in A
    PROVE  <<a>> \o <<b>> = <<a, b>>
<1> DEFINE s == <<a>>
<1>1. s \in Seq(A)
  BY OneLong
<1> HIDE DEF s
<1>2. s \o <<b>> = Append(s, b)
  BY <1>1, OneMore
<1> QED
  BY <1>2, PairIsAppend DEF s

LEMMA TwoAndOne ==
    ASSUME NEW A, NEW a \in A, NEW b \in A, NEW c \in A
    PROVE  <<a, b>> \o <<c>> = <<a, b, c>> /\ <<a, b, c>> \in Seq(A)
<1> DEFINE s == <<a, b>>
<1>1. s \in Seq(A)
  BY TwoLong
<1> HIDE DEF s
<1>2. s \o <<c>> = Append(s, c) /\ Append(s, c) \in Seq(A)
  BY <1>1, OneMore, AppendIsSeq
<1> QED
  BY <1>2, TwoThenOne DEF s

LEMMA NothingBetween ==
    ASSUME NEW a, NEW b
    PROVE  /\ (<<a>> \o <<>>) \o <<b>> = <<a, b>>
           /\ <<>> \o ((<<a>> \o <<>>) \o <<b>>) = <<a, b>>
<1> DEFINE A == {a, b}
           x == <<a>>
           xy == <<a, b>>
<1>1. a \in A /\ b \in A
  OBVIOUS
<1> HIDE DEF A
<1>2. x \in Seq(A) /\ xy \in Seq(A) /\ x \o <<b>> = xy
  BY <1>1, OneLong, TwoLong, OneAndOne
<1> HIDE DEF x, xy
<1>3. x \o <<>> = x /\ <<>> \o xy = xy
  BY <1>2, NothingAdded
<1> QED
  BY <1>2, <1>3 DEF x, xy

LEMMA PlainSkills == SkillsHtml(Plain.skills) = <<"<p>", "</p>">>
<1> DEFINE k == Plain.skills
           names == [i \in DOMAIN k.named |-> SkillHtml(k.named[i].text, k.layout)]
<1>1. k.named = <<>> /\ k.lead = <<>> /\ k.layout = "prose"
  BY DEF Plain
<1> HIDE DEF k
<1>2. names = <<>>
  BY <1>1
<1>3. SkillsHtml(k) = <<>> \o (<<"<p>">> \o Spaced(<<>>, <<Comma, Blank>>) \o <<"</p>">>)
  BY <1>1, <1>2 DEF SkillsHtml
<1>4. SkillsHtml(k) = <<>> \o ((<<"<p>">> \o <<>>) \o <<"</p>">>)
  BY <1>3, SpacedEmpty
<1>5. <<>> \o ((<<"<p>">> \o <<>>) \o <<"</p>">>) = <<"<p>", "</p>">>
  BY NothingBetween
<1> QED
  BY <1>4, <1>5 DEF k

LEMMA PlainRequirement == RequirementHtml(Plain.requirement) = <<"<p>", "</p>">>
<1> DEFINE r == Plain.requirement
           p == [i \in DOMAIN r.text |->
                    IF IsFragment(r.text[i]) THEN <<Blank, r.text[i]>> ELSE <<r.text[i]>>]
<1>1. r.text = <<>>
  BY DEF Plain
<1> HIDE DEF r
<1>2. p = <<>>
  BY <1>1
<1>3. RequirementHtml(r) = (<<"<p>">> \o <<>>) \o <<"</p>">>
  BY <1>2, FlattenSeqEmpty DEF RequirementHtml
<1>4. (<<"<p>">> \o <<>>) \o <<"</p>">> = <<"<p>", "</p>">>
  BY NothingBetween
<1> QED
  BY <1>3, <1>4 DEF r

LEMMA PlainDescription ==
    SanitizeDescription(
        Collapse(<<>> \o <<Blank>> \o (SkillsHtml(Plain.skills) \o RequirementHtml(Plain.requirement)),
                 Blank)) = <<>>
<1> DEFINE two == <<"<p>", "</p>">>
           one == <<Blank>>
           whole == <<>> \o one \o (two \o two)
<1>1. two \in Seq(Empty) /\ one \in Seq(Empty) /\ <<>> \in Seq(Empty)
  <2>1. "<p>" \in Empty /\ "</p>" \in Empty /\ Blank \in Empty
    BY DEF Empty, BreakingTags
  <2> QED
    BY <2>1, OneLong, TwoLong
<1> HIDE DEF two, one
<1>2. two \o two \in Seq(Empty) /\ <<>> \o one \in Seq(Empty)
  BY <1>1, OneAfterOther
<1>3. whole \in Seq(Empty)
  BY <1>2, OneAfterOther
<1> HIDE DEF whole
<1>4. SanitizeDescription(Collapse(whole, Blank)) = <<>>
  BY <1>3, CollapseIsSeq, EmptyDescription
<1> QED
  BY <1>4, PlainSkills, PlainRequirement DEF whole, one, two

LEMMA OnlyPlaceIsRead ==
    ASSUME OnlyIn({"place"})
    PROVE  /\ Scraped(posting).title = <<"developer">>
           /\ Scraped(posting).location = LocationText(posting.place)
           /\ SanitizeDescription(Scraped(posting).description) = <<>>
<1>1. /\ posting.title = Plain.title /\ posting.skills = Plain.skills
      /\ posting.requirement = Plain.requirement /\ posting.body = <<>>
  <2>1. \A f \in DOMAIN Plain \ {"place"} : posting[f] = Plain[f]
    BY DEF OnlyIn
  <2>2. /\ posting["title"] = Plain["title"] /\ posting["skills"] = Plain["skills"]
        /\ posting["requirement"] = Plain["requirement"] /\ posting["body"] = Plain["body"]
    BY <2>1, PlainParts
  <2>3. Plain.body = <<>>
    BY DEF Plain
  <2> QED
    BY <2>2, <2>3
<1> DEFINE raw == ToRawJob(KalibrrJob(posting))
<1>2. /\ raw.title = TitleText(posting.title)
      /\ raw.location = LocationText(posting.place)
      /\ raw.description =
           Collapse(posting.body \o <<Blank>> \o
                      (SkillsHtml(posting.skills) \o RequirementHtml(posting.requirement)), Blank)
  BY DEF ToRawJob, KalibrrJob
<1>3. raw.title = <<"developer">> /\ SanitizeDescription(raw.description) = <<>>
  BY <1>1, <1>2, PlainTitle, PlainDescription
<1>4. /\ Scraped(posting).title = raw.title /\ Scraped(posting).location = raw.location
      /\ Scraped(posting).description = raw.description
  BY DEF Scraped, ToRawJob
<1> QED
  BY <1>2, <1>3, <1>4

LEMMA AroundTag ==
    ASSUME NEW L \in Seq(Atoms), NEW tag \in Atoms
    PROVE  Around(L \o <<Blank, tag>>)
             = (<<"developer">> \o <<Blank>> \o L) \o (<<Blank, tag, Blank>> \o <<>>)
<1> DEFINE x == <<"developer">>
           y == <<Blank>>
           t == <<Blank, tag>>
           A == Atoms \cup {"developer"}
<1>0. "developer" \in A /\ Blank \in A /\ tag \in A /\ L \in Seq(A)
  BY SeqOfMore DEF Atoms, Marks, Blanks
<1> HIDE DEF A
<1>1. x \in Seq(A) /\ y \in Seq(A) /\ t \in Seq(A)
  BY <1>0, OneLong, TwoLong
<1>2. t \o y = <<Blank, tag, Blank>> /\ <<Blank, tag, Blank>> \in Seq(A)
  BY <1>0, TwoAndOne
<1>3. <<Blank, tag, Blank>> \o <<>> = <<Blank, tag, Blank>>
  BY <1>2, NothingAdded
<1> HIDE DEF x, y, t
<1>4. (((x \o y) \o (L \o t)) \o y) \o <<>> = ((x \o y) \o L) \o (t \o y)
  BY <1>0, <1>1, SMTT(20)
<1>5. Around(L \o t) = (((x \o y) \o (L \o t)) \o y) \o <<>>
  BY DEF Around, Searched, x, y
<1> QED
  BY <1>2, <1>3, <1>4, <1>5 DEF x, y, t

\* The two columns a place decides, of a posting of which only that was rewritten.
LEMMA PlaceIsRead ==
    ASSUME IngInv, OnlyIn({"place"}),
           NEW c \in {<<>>} \cup Cities, NEW d \in {<<>>} \cup Cities,
           NEW badge, badge = Badge(posting.place),
           LocationText(posting.place) = Placed(c, d) \o badge
    PROVE  /\ c # <<>> => row.columns.locationCity = c
           /\ badge = <<Blank, "(remote)">> => row.columns.mode = "remote"
           /\ badge = <<Blank, "(hybrid)">> => row.columns.mode = "hybrid"
           /\ badge = <<>> /\ (c # <<>> \/ d # <<>>) => row.columns.mode = "onsite"
<1> DEFINE L == Placed(c, d)
           location == L \o badge
           text == Around(location)
<1>1. /\ row.columns.locationCity = ExtractCity(location)
      /\ row.columns.mode = DetectMode(<<"developer">>, location, <<>>)
  <2>1. row.columns = Normalize(Scraped(posting))
    BY DEF IngInv, Ingested
  <2>2. /\ row.columns.locationCity = ExtractCity(Scraped(posting).location)
        /\ row.columns.mode = DetectMode(Scraped(posting).title, Scraped(posting).location,
                                         SanitizeDescription(Scraped(posting).description))
    BY <2>1 DEF Normalize
  <2> QED
    BY <2>2, OnlyPlaceIsRead
<1>2. /\ Says(text, ModeWords.hybrid) => DetectMode(<<"developer">>, location, <<>>) = "hybrid"
      /\ ~Says(text, ModeWords.hybrid) /\ Says(text, ModeWords.remote)
           => DetectMode(<<"developer">>, location, <<>>) = "remote"
      /\ (\A m \in DOMAIN ModeWords : ~Says(text, ModeWords[m]))
         /\ Collapse(location, Blank) # <<>>
           => DetectMode(<<"developer">>, location, <<>>) = "onsite"
  BY ModeIsTheFirstSaid DEF Around
<1>3. /\ Blank \in Atoms /\ "(remote)" \in Atoms /\ "(hybrid)" \in Atoms
  BY DEF Atoms, Marks, Blanks
<1>4. L \in Seq(Atoms) /\ \A mode \in DOMAIN ModeWords : Avoids(L, ModeWords[mode])
  <2>1. "hybrid" \in DOMAIN ModeWords
    BY DEF ModeWords
  <2> QED
    BY <2>1, PlacedAvoids
<1>5. ModeWords.hybrid = ModeWords["hybrid"] /\ ModeWords.remote = ModeWords["remote"]
      /\ DOMAIN ModeWords = {"hybrid", "remote", "onsite"}
  BY DEF ModeWords
<1>6. badge \in {<<>>, <<Blank, "(remote)">>, <<Blank, "(hybrid)">>}
  BY DEF Badge
<1> HIDE DEF L
<1>7. ASSUME c # <<>> PROVE row.columns.locationCity = c
  BY <1>1, <1>6, <1>7, CityComesFirst DEF L
<1>8. ASSUME NEW tag \in {"(remote)", "(hybrid)"}, badge = <<Blank, tag>>,
             NEW mode \in DOMAIN ModeWords, Lower(tag) \notin ModeWords[mode]
      PROVE  ~Says(text, ModeWords[mode])
  <2>1. badge \in Seq(Atoms)
    BY <1>3, <1>8, TwoLong
  <2>2. Avoids(badge, ModeWords[mode])
    <3>1. Lower(Blank) \notin ModeWords[mode]
      BY NoMode
    <3> QED
      BY <1>8, <3>1 DEF Avoids
  <2>3. location \in Seq(Atoms) /\ Avoids(location, ModeWords[mode])
    BY <1>4, <2>1, <2>2, AvoidsConcat, OneAfterOther
  <2> HIDE DEF location
  <2> QED
    BY <2>3, AroundAvoids, NotSaid
<1>9. ASSUME NEW tag \in {"(remote)", "(hybrid)"}, badge = <<Blank, tag>>,
             NEW words, Lower(tag) \in words
      PROVE  Says(text, words)
  <2> DEFINE u == <<"developer">> \o <<Blank>> \o L
             A == Atoms \cup {"developer"}
  <2>1. text = u \o (<<Blank, tag, Blank>> \o <<>>)
    BY <1>3, <1>4, <1>9, AroundTag
  <2>2. Blank \in A /\ tag \in A /\ "developer" \in A /\ L \in Seq(A) /\ <<>> \in Seq(A)
    BY <1>3, <1>4, SeqOfMore
  <2> HIDE DEF A
  <2>3. u \in Seq(A)
    BY <2>2, OneLong, OneAfterOther
  <2> HIDE DEF u
  <2> QED
    BY <1>9, <2>1, <2>2, <2>3, TagIsSaid
<1> HIDE DEF text, location
<1>10. CASE badge = <<Blank, "(remote)">>
  <2>1. Says(text, ModeWords.remote)
    BY <1>9, <1>10, NoMode
  <2>2. ~Says(text, ModeWords.hybrid)
    BY <1>5, <1>8, <1>10, NoMode
  <2> QED
    BY <1>1, <1>2, <1>7, <1>10, <2>1, <2>2
<1>11. CASE badge = <<Blank, "(hybrid)">>
  <2>1. Says(text, ModeWords.hybrid)
    BY <1>9, <1>11, NoMode
  <2> QED
    BY <1>1, <1>2, <1>7, <1>11, <2>1
<1>12. CASE badge = <<>>
  <2>1. location = L
    BY <1>4, <1>12, NothingAdded DEF location
  <2>2. \A mode \in DOMAIN ModeWords : ~Says(text, ModeWords[mode])
    BY <1>4, <2>1, AroundAvoids, NotSaid DEF text
  <2>3. c # <<>> \/ d # <<>> => Collapse(location, Blank) # <<>>
    BY <2>1, KnownPlaceIsWritten DEF L
  <2> QED
    BY <1>1, <1>2, <1>7, <1>12, <2>2, <2>3
<1> QED
  BY <1>6, <1>10, <1>11, <1>12

\* City, country, flags and badges as they may, every place is read back: the
\* city as it was meant, and the mode of the badge, or on site.
THEOREM IngestPlaceSurvives == Spec => []PlaceSurvives
<1>1. ASSUME IngInv PROVE PlaceSurvives
  <2> DEFINE p == posting.place
  <2>1. CASE p.location = {}
    BY <2>1 DEF PlaceSurvives
  <2>2. CASE p.location # {}
    <3>1. p # Plain.place
      BY <2>2 DEF Plain
    <3>2. OnlyIn({"place"}) /\ p \in Places
      BY <1>1, <3>1 DEF IngInv, Postings
    <3>3. PICK c \in {<<>>} \cup Cities, d \in {<<>>} \cup Cities :
            p.location = {[city |-> c, country |-> d]}
      <4> DEFINE E == {<<>>} \cup Cities
                 R == [city : E, country : E]
      <4>1. p.location \in Maybe(R)
        BY <3>2 DEF Places
      <4>2. \A r \in R : r.city \in E /\ r.country \in E
                         /\ r = [city |-> r.city, country |-> r.country]
        OBVIOUS
      <4> HIDE DEF R
      <4>3. PICK r \in R : p.location = {r}
        BY <2>2, <4>1 DEF Maybe
      <4> QED
        BY <4>2, <4>3
    <3>4. p.home \in BOOLEAN /\ p.hybrid \in BOOLEAN
      BY <3>2 DEF Places
    <3> DEFINE l == [city |-> c, country |-> d]
               badge == Badge(p)
    <3>5. LocationText(p) = Placed(c, d) \o badge
      <4>1. The({l}) = l
        BY DEF The
      <4>2. l.city = c /\ l.country = d /\ {l} # {}
        OBVIOUS
      <4> HIDE DEF l
      <4>3. p.location = {l}
        BY <3>3 DEF l
      <4> QED
        BY <4>1, <4>2, <4>3 DEF LocationText, Placed
    <3>6. /\ p.home => badge = <<Blank, "(remote)">>
          /\ ~p.home /\ p.hybrid => badge = <<Blank, "(hybrid)">>
          /\ ~p.home /\ ~p.hybrid => badge = <<>>
      BY DEF Badge
    <3> HIDE DEF badge
    <3>7. /\ c # <<>> => row.columns.locationCity = c
          /\ badge = <<Blank, "(remote)">> => row.columns.mode = "remote"
          /\ badge = <<Blank, "(hybrid)">> => row.columns.mode = "hybrid"
          /\ badge = <<>> /\ (c # <<>> \/ d # <<>>) => row.columns.mode = "onsite"
      BY <1>1, <3>2, <3>5, PlaceIsRead DEF badge
    <3> QED
      BY <3>3, <3>6, <3>7 DEF PlaceSurvives
  <2> QED
    BY <2>1, <2>2
<1> QED
  BY <1>1, IngInvAlways, PTL

----------------------------------------------------------------------------
(* The salary *)

\* An amount is written in at least one digit.
LEMMA DigitsOfFigure ==
    ASSUME NEW n \in Nat, n < 10 ^ 8
    PROVE  Min({d \in 1 .. 8 : n < 10 ^ d}) \in 1..8
<1> DEFINE D == {d \in 1 .. 8 : n < 10 ^ d}
<1>1. 8 \in D
  OBVIOUS
<1>2. D \subseteq Nat /\ D \subseteq 1..8
  OBVIOUS
<1> HIDE DEF D
<1>3. PICK k \in D : \A i \in D : k <= i
  BY <1>1, <1>2, LeastNat
<1>4. Min(D) \in D
  BY <1>3, Zenon DEF Min
<1> QED
  BY <1>2, <1>4 DEF D

\* 10 ^ d, of as many digits.
LEMMA PowerOfTen ==
    ASSUME NEW d \in 1..8 PROVE 0 * 10 ^ d = 0
<1>1. d \in {1, 2, 3, 4, 5, 6, 7, 8}
  OBVIOUS
<1> QED
  BY <1>1

LEMMA JoinOne ==
    ASSUME NEW n \in Nat, NEW d \in 1..8
    PROVE  JoinGroups(<<[value |-> n, digits |-> d]>>) = n
<1> DEFINE g == [value |-> n, digits |-> d]
           s == <<g>>
           body(read) == [i \in 0 .. Len(s) |->
              IF i = 0 THEN 0 ELSE read[i - 1] * 10 ^ s[i].digits + s[i].value]
           R == CHOOSE read : read = body(read)
           f == [i \in 0..1 |-> IF i = 0 THEN 0 ELSE n]
<1>1. s[1].digits = d /\ s[1].value = n /\ Len(s) = 1
  OBVIOUS
<1> HIDE DEF s
<1>2. f = body(f)
  <2>1. ASSUME NEW i \in 0..1 PROVE f[i] = IF i = 0 THEN 0 ELSE f[i - 1] * 10 ^ s[i].digits + s[i].value
    BY <1>1, PowerOfTen
  <2> QED
    BY <1>1, <2>1
<1>3. R = body(R)
  BY <1>2
<1>7. JoinGroups(s) = R[Len(s)]
  BY DEF JoinGroups
<1> HIDE DEF R
<1>4. R[0] = 0
  BY <1>1, <1>3
<1>5. R[1] = R[0] * 10 ^ s[1].digits + s[1].value
  BY <1>1, <1>3
<1>6. R[1] = n
  BY <1>1, <1>4, <1>5, PowerOfTen
<1> QED
  BY <1>1, <1>6, <1>7 DEF s

\* The first alone of a sequence.
LEMMA FirstAlone ==
    ASSUME NEW a, NEW s, s = <<a>> \/ \E b : s = <<a, b>>
    PROVE  SubSeq(s, 1, 1) = <<a>>
<1> DEFINE A == {a}
           t == SubSeq(s, 1, 1)
<1>1. s[1] = a
  OBVIOUS
<1>2. \A i \in 1..1 : s[i] \in A
  BY <1>1
<1>3. t \in Seq(A) /\ Len(t) = 1 /\ t[1] = a
  <2> HIDE DEF A
  <2>1. t \in Seq(A) /\ Len(t) = IF 1 <= 1 THEN 1 - 1 + 1 ELSE 0
    BY <1>2, SubSeqProperties
  <2>2. \A i \in 1..1 - 1 + 1 : t[i] = s[1 + i - 1]
    BY <1>2, SubSeqProperties
  <2> HIDE DEF t
  <2> QED
    BY <1>1, <2>1, <2>2
<1> HIDE DEF t, A
<1>4. t = <<a>>
  BY <1>3
<1> QED
  BY <1>4 DEF t

\* A figure printed by %d is read back as it was, whatever its length.
LEMMA DecimalIsParsed ==
    ASSUME NEW n \in Nat, n < 10 ^ 8
    PROVE  /\ Decimal(n).kind = "number"
           /\ ParseAmountToken(Decimal(n), 1) = {n}
<1> DEFINE d == Min({e \in 1 .. 8 : n < 10 ^ e})
           g == [value |-> n, digits |-> d]
           s == <<g>>
<1>1. d \in 1..8
  BY DigitsOfFigure
<1>2. JoinGroups(s) = n
  BY <1>1, JoinOne
<1>3. Decimal(n) = [kind |-> "number", groups |-> s]
  BY DEF Decimal, Number
<1>4. g.digits \in 1..8
  BY <1>1
<1> HIDE DEF d, g
<1>5. SelectLastInSeq(s, LAMBDA h : h.digits > 0) = 1
  <2> DEFINE I == {i \in 1..Len(s) : s[i].digits > 0}
  <2>1. I = {1}
    BY <1>4
  <2>2. Max({1}) = 1
    BY DEF Max
  <2> QED
    BY <2>1, <2>2 DEF SelectLastInSeq
<1>6. TrimmedGroups(s) = s
  BY <1>5, FirstAlone DEF TrimmedGroups
<1>7. \A i \in DOMAIN s : s[i].digits # 0
  BY <1>4
<1> HIDE DEF s
<1>8. ~IsDecimal(s, 1) /\ n * 1 = n
  BY DEF IsDecimal
<1>9. Decimal(n).kind = "number" /\ Decimal(n).groups = s
  BY <1>3
<1> QED
  BY <1>2, <1>6, <1>7, <1>8, <1>9 DEF ParseAmountToken

\* A word and a figure.
LEMMA OneFigure ==
    ASSUME NEW kind \in {"upto", "from"}, NEW n \in Nat, n < 10 ^ 8
    PROVE  LET text == <<Token(kind), Decimal(n)>>
               found == [min |-> IF kind = "upto" THEN 0 ELSE n,
                         max |-> IF kind = "upto" THEN n ELSE 0, conf |-> "estimated"]
           IN  ExtractRange(text) = {} /\ ExtractSingle(text) = {found}
<1> DEFINE N == Decimal(n)
           text == <<Token(kind), N>>
<1>1. /\ Len(text) = 2 /\ DOMAIN text = 1..2
      /\ text[1].kind = kind /\ text[2] = N
  BY DEF Token
<1>2. N.kind = "number" /\ ParseAmountToken(N, 1) = {n}
  BY DecimalIsParsed
<1>3. SubSeq(text, 1, 1) = <<Token(kind)>>
  BY FirstAlone
<1> HIDE DEF text, N
<1>4. ExtractRange(text) = {}
  <2>1. ~IsKind(text, 3, "dash") /\ ~IsKind(text, 3, "until") /\ ~IsKind(text, 3, "unit")
    BY <1>1 DEF IsKind
  <2>2. SepOf(text, 2) = 3
    BY <2>1 DEF SepOf, AfterUnit
  <2>3. \A i \in DOMAIN text : ~RangeAt(text, i)
    BY <1>1, <2>1, <2>2 DEF RangeAt, IsKind
  <2>4. {i \in DOMAIN text : RangeAt(text, i)} = {}
    BY <2>3
  <2> QED
    BY <2>4 DEF ExtractRange
<1>5. SelectInSeq(text, LAMBDA x : x.kind = "number") = 2
  <2> DEFINE I == {i \in 1..Len(text) : text[i].kind = "number"}
  <2>1. I = {2}
    BY <1>1, <1>2
  <2>2. Min({2}) = 2
    BY DEF Min
  <2> QED
    BY <2>1, <2>2 DEF SelectInSeq
<1>6. UnitAt(text, 3) = 1
  BY <1>1 DEF UnitAt, IsKind
<1>7. \A kinds : Has(SubSeq(text, 1, 1), kinds) <=> kind \in kinds
  <2>1. \A kinds : Has(<<Token(kind)>>, kinds) <=> kind \in kinds
    BY DEF Has, Token
  <2> QED
    BY <1>3, <2>1
<1>8. Bound(n, SubSeq(text, 1, 1)) =
        [min |-> IF kind = "upto" THEN 0 ELSE n,
         max |-> IF kind = "upto" THEN n ELSE 0, conf |-> "estimated"]
  BY <1>7 DEF Bound
<1>9. ExtractSingle(text) = {Bound(n, SubSeq(text, 1, 1))}
  <2>1. text[2] = N /\ 2 - 1 = 1 /\ 2 + 1 = 3 /\ 2 # 0
    BY <1>1
  <2>2. ExtractSingle(text) =
          {Bound(m, SubSeq(text, 1, 2 - 1)) : m \in ParseAmountToken(text[2], UnitAt(text, 2 + 1))}
    BY <1>5, <2>1 DEF ExtractSingle
  <2> QED
    BY <1>2, <1>6, <2>1, <2>2
<1> QED
  BY <1>4, <1>8, <1>9 DEF text, N

\* Two figures and a dash: a range, in whichever order they are.
LEMMA TwoFigures ==
    ASSUME NEW n \in Nat, n < 10 ^ 8, NEW m \in Nat, m < 10 ^ 8
    PROVE  ExtractRange(<<Decimal(n), Token("dash"), Decimal(m)>>) =
              {[min |-> Min({n} \cup {m}), max |-> Max({n} \cup {m}), conf |-> "range"]}
<1> DEFINE N == Decimal(n)
           M == Decimal(m)
           text == <<N, Token("dash"), M>>
           starts == {i \in DOMAIN text : RangeAt(text, i)}
<1>1. /\ DOMAIN text = 1..3 /\ text[1] = N /\ text[2].kind = "dash" /\ text[3] = M
  BY DEF Token
<1>2. /\ N.kind = "number" /\ ParseAmountToken(N, 1) = {n}
      /\ M.kind = "number" /\ ParseAmountToken(M, 1) = {m}
  BY DecimalIsParsed
<1> HIDE DEF text, N, M
<1>3. /\ SepOf(text, 1) = 2 /\ SepOf(text, 3) = 4
      /\ UnitAt(text, 2) = 1 /\ UnitAt(text, 4) = 1
  BY <1>1 DEF SepOf, AfterUnit, UnitAt, IsKind
<1>4. \A i \in DOMAIN text : RangeAt(text, i) <=> i = 1
  BY <1>1, <1>2, <1>3 DEF RangeAt, IsKind
<1>5. starts = {1}
  BY <1>1, <1>4
<1>6. Min({1}) = 1 /\ Shared(1, 1) = 1 /\ {1} # {}
  BY DEF Min, Shared
<1> DEFINE i == Min(starts)
           j == SepOf(text, i) + 1
           unit1 == UnitAt(text, i + 1)
           unit2 == UnitAt(text, j + 1)
           a == ParseAmountToken(text[i], Shared(unit1, unit2))
           b == ParseAmountToken(text[j], Shared(unit2, unit1))
<1>7. ExtractRange(text) =
        IF starts = {} \/ a = Unreadable \/ b = Unreadable THEN {}
        ELSE {[min |-> Min(a \cup b), max |-> Max(a \cup b), conf |-> "range"]}
  BY DEF ExtractRange
<1> HIDE DEF starts
<1>8. i = 1 /\ j = 3 /\ unit1 = 1 /\ unit2 = 1
  BY <1>3, <1>5, <1>6
<1>9. a = {n} /\ b = {m}
  BY <1>1, <1>2, <1>6, <1>8
<1> HIDE DEF a, b
<1> QED
  BY <1>5, <1>6, <1>7, <1>9 DEF Unreadable, text, N, M

Noise == {Token("rupiah"), Token("period")}

\* What one token more makes of a text.
LEMMA HasAppend ==
    ASSUME NEW A, NEW s \in Seq(A), NEW x \in A, NEW kinds
    PROVE  Has(Append(s, x), kinds) <=> Has(s, kinds) \/ x.kind \in kinds
<1> DEFINE t == Append(s, x)
<1>1. /\ DOMAIN t = DOMAIN s \cup {Len(s) + 1} /\ t[Len(s) + 1] = x
      /\ \A i \in DOMAIN s : t[i] = s[i]
  OBVIOUS
<1> HIDE DEF t
<1>2. Has(t, kinds) <=> Has(s, kinds) \/ x.kind \in kinds
  BY <1>1 DEF Has
<1> QED
  BY <1>2 DEF t

LEMMA HasOne ==
    ASSUME NEW x, NEW kinds PROVE Has(<<x>>, kinds) <=> x.kind \in kinds
BY DEF Has

\* A currency mark, a figure and the period after them.
LEMMA StripWorded ==
    ASSUME NEW A, NEW w \in A \ Noise, NEW R \in A, NEW N \in A \ Noise
    PROVE  LET text == <<w>> \o <<R, N>>
           IN  /\ text \in Seq(A)
               /\ R \in Noise => StripNoise(text) = <<w, N>>
               /\ \A kinds : Has(text, kinds) <=> {w.kind, R.kind, N.kind} \cap kinds # {}
<1> DEFINE s == <<w>>
           t == Append(s, R)
           text == Append(t, N)
<1>1. s \in Seq(A) /\ Without(s, Noise) = s
  BY OneLong, WithoutOne
<1>2. \A kinds : Has(s, kinds) <=> w.kind \in kinds
  BY HasOne
<1>3. Append(s, N) = <<w, N>>
  BY PairIsAppend
<1> HIDE DEF s
<1>4. t \in Seq(A)
  BY <1>1, AppendIsSeq
<1>5. \A kinds : Has(t, kinds) <=> w.kind \in kinds \/ R.kind \in kinds
  BY <1>1, <1>2, HasAppend
<1>6. R \in Noise => Without(t, Noise) = s
  BY <1>1, WithoutMember
<1>7. s \o <<R, N>> = text
  BY <1>1, TwoMore
<1> HIDE DEF t
<1>8. text \in Seq(A)
  BY <1>4, AppendIsSeq
<1>9. \A kinds : Has(text, kinds) <=> w.kind \in kinds \/ R.kind \in kinds \/ N.kind \in kinds
  BY <1>4, <1>5, HasAppend
<1>10. Without(text, Noise) = Append(Without(t, Noise), N)
  BY <1>4, WithoutOther
<1> HIDE DEF text
<1>11. R \in Noise => StripNoise(text) = <<w, N>>
  BY <1>3, <1>6, <1>10 DEF StripNoise, Noise
<1> QED
  BY <1>7, <1>8, <1>9, <1>11 DEF s

LEMMA StripRange ==
    ASSUME NEW A, NEW R \in A, NEW N \in A \ Noise, NEW w \in A \ Noise, NEW M \in A \ Noise
    PROVE  LET text == <<R, N>> \o <<w, M>>
           IN  /\ text \in Seq(A)
               /\ R \in Noise => StripNoise(text) = <<N, w, M>>
               /\ \A kinds : Has(text, kinds) <=> {R.kind, N.kind, w.kind, M.kind} \cap kinds # {}
<1> DEFINE s == <<R, N>>
           t == Append(s, w)
           text == Append(t, M)
<1>1. s \in Seq(A) /\ s = Append(<<R>>, N) /\ <<R>> \in Seq(A)
  BY TwoLong, PairIsAppend
<1>2. \A kinds : Has(s, kinds) <=> R.kind \in kinds \/ N.kind \in kinds
  <2> DEFINE r == <<R>>
  <2>1. r \in Seq(A) /\ s = Append(r, N) /\ \A kinds : Has(r, kinds) <=> R.kind \in kinds
    BY <1>1, HasOne
  <2> HIDE DEF r, s
  <2>2. \A kinds : Has(Append(r, N), kinds) <=> R.kind \in kinds \/ N.kind \in kinds
    BY <2>1, HasAppend
  <2> QED
    BY <2>1, <2>2
<1>3. R \in Noise => Without(s, Noise) = <<N>>
  <2>1. Without(s, Noise) = Append(Without(<<R>>, Noise), N)
    BY <1>1, WithoutOther, ZenonT(30)
  <2>2. R \in Noise => Without(<<R>>, Noise) = <<>>
    BY WithoutOne
  <2>3. Append(<<>>, N) = <<N>>
    BY PairIsAppend
  <2> QED
    BY <2>1, <2>2, <2>3
<1> HIDE DEF s
<1>4. t \in Seq(A)
  BY <1>1, AppendIsSeq
<1>5. \A kinds : Has(t, kinds) <=> R.kind \in kinds \/ N.kind \in kinds \/ w.kind \in kinds
  BY <1>1, <1>2, HasAppend
<1>6. R \in Noise => Without(t, Noise) = <<N, w>>
  <2>1. Without(t, Noise) = Append(Without(s, Noise), w)
    BY <1>1, WithoutOther, ZenonT(30)
  <2>2. Append(<<N>>, w) = <<N, w>>
    BY PairIsAppend
  <2> QED
    BY <1>3, <2>1, <2>2
<1>7. s \o <<w, M>> = text
  BY <1>1, TwoMore
<1> HIDE DEF t
<1>8. text \in Seq(A)
  BY <1>4, AppendIsSeq
<1>9. \A kinds : Has(text, kinds) <=>
          R.kind \in kinds \/ N.kind \in kinds \/ w.kind \in kinds \/ M.kind \in kinds
  BY <1>4, <1>5, HasAppend
<1>10. Without(text, Noise) = Append(Without(t, Noise), M)
  BY <1>4, WithoutOther
<1>11. Append(<<N, w>>, M) = <<N, w, M>>
  BY TwoThenOne
<1> HIDE DEF text
<1>12. R \in Noise => StripNoise(text) = <<N, w, M>>
  BY <1>6, <1>10, <1>11 DEF StripNoise, Noise
<1> QED
  BY <1>7, <1>8, <1>9, <1>12 DEF s

LEMMA StripInterval ==
    ASSUME NEW A, Token("period") \in A, NEW s \in Seq(A), NEW i \in {"", "month"}
    PROVE  /\ StripNoise(s \o Interval(i)) = StripNoise(s)
           /\ Has(s \o Interval(i), {"vague", "foreign"}) <=> Has(s, {"vague", "foreign"})
<1> DEFINE x == Token("period")
<1>1. CASE i = ""
  BY <1>1, NothingAdded DEF Interval
<1>2. CASE i = "month"
  <2>1. x \in Noise /\ x \in A /\ x.kind \notin {"vague", "foreign"}
    BY DEF Noise, Token
  <2>2. Interval(i) = <<x>>
    BY <1>2 DEF Interval
  <2> HIDE DEF x
  <2>3. s \o <<x>> = Append(s, x)
    BY <2>1, OneMore
  <2>4. Without(Append(s, x), Noise) = Without(s, Noise)
    BY <2>1, WithoutMember
  <2>5. Has(Append(s, x), {"vague", "foreign"}) <=> Has(s, {"vague", "foreign"})
    BY <2>1, HasAppend
  <2> QED
    BY <2>2, <2>3, <2>4, <2>5 DEF StripNoise, Noise
<1> QED
  BY <1>1, <1>2

\* The tokens of a salary Kalibrr shows, and of what ToRawJob makes of it.
ShownText(pay) ==
    LET money(side) == <<Currency(pay.currency), Decimal(The(side))>>
    IN  IF pay.base = {} THEN <<Token("upto")>> \o money(pay.max)
        ELSE IF pay.max = {} THEN <<Token("from")>> \o money(pay.base)
        ELSE money(pay.base) \o <<Token("dash"), Decimal(The(pay.max))>>

\* The bounds of a posting that only the pay was rewritten of, or the offer was not.
LEMMA BoundsAreParsed ==
    ASSUME IngInv, posting.offer = Plain.offer
    PROVE  row.bounds = SalaryBoundsToDB(ParseSalary(SalaryRawText(posting.pay)))
<1> DEFINE raw == ToRawJob(KalibrrJob(posting))
<1>1. row.bounds = SalaryBoundsToDB(Normalize(raw).salary)
  BY DEF IngInv, Ingested, Scraped
<1>2. Normalize(raw).salary = ParseSalary(raw.salaryRaw)
  BY DEF Normalize
<1>3. raw.salaryRaw = SalaryRawText(posting.pay)
  BY DEF ToRawJob, KalibrrJob
<1> QED
  BY <1>1, <1>2, <1>3

\* Nothing shown is nothing stated.
LEMMA NoSalary == ParseSalary(<<>>) = Unknown
<1>1. StripNoise(<<>>) = <<>>
  BY WithoutEmpty DEF StripNoise
<1>2. ExtractRange(<<>>) = {}
  <2>1. {i \in DOMAIN <<>> : RangeAt(<<>>, i)} = {}
    OBVIOUS
  <2> QED
    BY <2>1 DEF ExtractRange
<1>3. ExtractSingle(<<>>) = {}
  <2>1. {i \in 1..Len(<<>>) : <<>>[i].kind = "number"} = {}
    OBVIOUS
  <2>2. SelectInSeq(<<>>, LAMBDA x : x.kind = "number") = 0
    BY <2>1 DEF SelectInSeq
  <2> QED
    BY <2>2 DEF ExtractSingle
<1> QED
  BY <1>1, <1>2, <1>3 DEF ParseSalary

LEMMA ForeignSalary ==
    ASSUME NEW text, Has(text, {"vague", "foreign"}) PROVE ParseSalary(text) = Unknown
BY DEF ParseSalary

\* What is found is the salary.
LEMMA FoundSalary ==
    ASSUME NEW text, ~Has(text, {"vague", "foreign"}), NEW s,
           \/ ExtractRange(StripNoise(text)) = {s}
           \/ /\ ExtractRange(StripNoise(text)) = {}
              /\ ExtractSingle(StripNoise(text)) = {s}
    PROVE  ParseSalary(text) = s
<1> DEFINE found == IF ExtractRange(StripNoise(text)) # {}
                    THEN ExtractRange(StripNoise(text)) ELSE ExtractSingle(StripNoise(text))
<1>1. found = {s}
  OBVIOUS
<1>2. ParseSalary(text) =
        IF Has(text, {"vague", "foreign"}) \/ found = {} THEN Unknown
        ELSE CHOOSE r \in found : TRUE
  BY DEF ParseSalary
<1> HIDE DEF found
<1>3. (CHOOSE r \in {s} : TRUE) = s
  OBVIOUS
<1> QED
  BY <1>1, <1>2, <1>3

\* A foreign salary is not taken for rupiah, and a salary in rupiah is found.
LEMMA ShownSalaryIsParsed ==
    ASSUME NEW pay \in Pays, NEW base, NEW max,
           pay.base = {} \/ (pay.base = {base} /\ base \in Nat /\ base < 10 ^ 8),
           pay.max = {} \/ (pay.max = {max} /\ max \in Nat /\ max < 10 ^ 8),
           ShowsSalary(pay)
    PROVE  ParseSalary(SalaryRawText(pay)) =
             IF pay.currency = "USD" THEN Unknown
             ELSE IF pay.base = {} THEN [min |-> 0, max |-> max, conf |-> "estimated"]
             ELSE IF pay.max = {} THEN [min |-> base, max |-> 0, conf |-> "estimated"]
             ELSE [min |-> Min({base} \cup {max}), max |-> Max({base} \cup {max}),
                   conf |-> "range"]
<1> DEFINE R == Currency(pay.currency)
           text == ShownText(pay)
           A == {R, Decimal(base), Decimal(max), Token("upto"), Token("from"), Token("dash"),
                 Token("period")}
<1>1. pay.currency \in {"", "IDR", "USD"} /\ pay.interval \in {"", "month"}
      /\ ~(pay.base = {} /\ pay.max = {})
  BY DEF Pays, ShowsSalary
<1>2. SalaryRawText(pay) = text \o Interval(pay.interval)
  BY DEF SalaryRawText, ShownText
<1>3. /\ pay.currency = "USD" => R = Token("foreign") /\ R.kind = "foreign"
      /\ pay.currency # "USD" => R = Token("rupiah") /\ R.kind = "rupiah" /\ R \in Noise
  BY <1>1 DEF Currency, Token, Noise
<1>4. \A n : Decimal(n).kind = "number" /\ Decimal(n) \notin Noise
  BY DEF Decimal, Number, Noise, Token
<1>5. \A k \in {"upto", "from", "dash"} : Token(k).kind = k /\ Token(k) \notin Noise
  BY DEF Token, Noise
<1>6. /\ R \in A /\ Decimal(base) \in A /\ Decimal(max) \in A /\ Token("upto") \in A
      /\ Token("from") \in A /\ Token("dash") \in A /\ Token("period") \in A
  OBVIOUS
<1>7. The({base}) = base /\ The({max}) = max
  BY DEF The
<1> HIDE DEF R, A
<1>8. ASSUME text \in Seq(A)
      PROVE  /\ StripNoise(SalaryRawText(pay)) = StripNoise(text)
             /\ Has(SalaryRawText(pay), {"vague", "foreign"}) <=> Has(text, {"vague", "foreign"})
  <2> DEFINE i == pay.interval
  <2>1. text \in Seq(A) /\ i \in {"", "month"} /\ Token("period") \in A
    BY <1>1, <1>6, <1>8
  <2> HIDE DEF text, i
  <2>2. /\ StripNoise(text \o Interval(i)) = StripNoise(text)
        /\ Has(text \o Interval(i), {"vague", "foreign"}) <=> Has(text, {"vague", "foreign"})
    BY <2>1, StripInterval
  <2> QED
    BY <1>2, <2>2 DEF i
<1>9. CASE pay.base = {}
  <2> DEFINE t == <<Token("upto")>> \o <<R, Decimal(max)>>
  <2>1. text = t /\ max \in Nat /\ max < 10 ^ 8
    BY <1>1, <1>7, <1>9 DEF ShownText, R
  <2>2. /\ t \in Seq(A)
        /\ R \in Noise => StripNoise(t) = <<Token("upto"), Decimal(max)>>
        /\ \A kinds : Has(t, kinds) <=> {"upto", R.kind, "number"} \cap kinds # {}
    BY <1>4, <1>5, <1>6, StripWorded
  <2> HIDE DEF text, t
  <2>3. CASE pay.currency = "USD"
    BY <1>3, <1>8, <2>1, <2>2, <2>3, ForeignSalary
  <2>4. CASE pay.currency # "USD"
    <3>1. ~Has(t, {"vague", "foreign"}) /\ StripNoise(t) = <<Token("upto"), Decimal(max)>>
      BY <1>3, <2>2, <2>4
    <3>2. /\ ExtractRange(StripNoise(t)) = {}
          /\ ExtractSingle(StripNoise(t)) = {[min |-> 0, max |-> max, conf |-> "estimated"]}
      BY <2>1, <3>1, OneFigure
    <3>3. ~Has(SalaryRawText(pay), {"vague", "foreign"})
          /\ StripNoise(SalaryRawText(pay)) = StripNoise(t)
      BY <1>8, <2>1, <2>2, <3>1
    <3>4. ParseSalary(SalaryRawText(pay)) = [min |-> 0, max |-> max, conf |-> "estimated"]
      BY <3>2, <3>3, FoundSalary
    <3> QED
      BY <1>9, <2>4, <3>4
  <2> QED
    BY <2>3, <2>4
<1>10. CASE pay.base # {} /\ pay.max = {}
  <2> DEFINE t == <<Token("from")>> \o <<R, Decimal(base)>>
  <2>1. text = t /\ base \in Nat /\ base < 10 ^ 8
    BY <1>1, <1>7, <1>10 DEF ShownText, R
  <2>2. /\ t \in Seq(A)
        /\ R \in Noise => StripNoise(t) = <<Token("from"), Decimal(base)>>
        /\ \A kinds : Has(t, kinds) <=> {"from", R.kind, "number"} \cap kinds # {}
    BY <1>4, <1>5, <1>6, StripWorded
  <2> HIDE DEF text, t
  <2>3. CASE pay.currency = "USD"
    BY <1>3, <1>8, <2>1, <2>2, <2>3, ForeignSalary
  <2>4. CASE pay.currency # "USD"
    <3>1. ~Has(t, {"vague", "foreign"}) /\ StripNoise(t) = <<Token("from"), Decimal(base)>>
      BY <1>3, <2>2, <2>4
    <3>2. /\ ExtractRange(StripNoise(t)) = {}
          /\ ExtractSingle(StripNoise(t)) = {[min |-> base, max |-> 0, conf |-> "estimated"]}
      BY <2>1, <3>1, OneFigure
    <3>3. ~Has(SalaryRawText(pay), {"vague", "foreign"})
          /\ StripNoise(SalaryRawText(pay)) = StripNoise(t)
      BY <1>8, <2>1, <2>2, <3>1
    <3>4. ParseSalary(SalaryRawText(pay)) = [min |-> base, max |-> 0, conf |-> "estimated"]
      BY <3>2, <3>3, FoundSalary
    <3> QED
      BY <1>10, <2>4, <3>4
  <2> QED
    BY <2>3, <2>4
<1>11. CASE pay.base # {} /\ pay.max # {}
  <2> DEFINE t == <<R, Decimal(base)>> \o <<Token("dash"), Decimal(max)>>
             s == [min |-> Min({base} \cup {max}), max |-> Max({base} \cup {max}),
                   conf |-> "range"]
  <2>1. text = t /\ base \in Nat /\ base < 10 ^ 8 /\ max \in Nat /\ max < 10 ^ 8
    BY <1>1, <1>7, <1>11 DEF ShownText, R
  <2>2. /\ t \in Seq(A)
        /\ R \in Noise => StripNoise(t) = <<Decimal(base), Token("dash"), Decimal(max)>>
        /\ \A kinds : Has(t, kinds) <=> {R.kind, "number", "dash", "number"} \cap kinds # {}
    BY <1>4, <1>5, <1>6, StripRange
  <2> HIDE DEF text, t, s
  <2>3. CASE pay.currency = "USD"
    BY <1>3, <1>8, <2>1, <2>2, <2>3, ForeignSalary
  <2>4. CASE pay.currency # "USD"
    <3>1. ~Has(t, {"vague", "foreign"})
          /\ StripNoise(t) = <<Decimal(base), Token("dash"), Decimal(max)>>
      BY <1>3, <2>2, <2>4
    <3>2. ExtractRange(StripNoise(t)) = {s}
      BY <2>1, <3>1, TwoFigures DEF s
    <3>3. ~Has(SalaryRawText(pay), {"vague", "foreign"})
          /\ StripNoise(SalaryRawText(pay)) = StripNoise(t)
      BY <1>8, <2>1, <2>2, <3>1
    <3>4. ParseSalary(SalaryRawText(pay)) = s
      BY <3>2, <3>3, FoundSalary
    <3> QED
      BY <1>11, <2>4, <3>4 DEF s
  <2> QED
    BY <2>3, <2>4
<1> QED
  BY <1>9, <1>10, <1>11

\* The figures Kalibrr displays, and no others, are in the columns, in order.
THEOREM IngestShownFiguresAreStored == Spec => []ShownFiguresAreStored
<1>1. ASSUME IngInv PROVE ShownFiguresAreStored
  <2> DEFINE p == posting.pay
             nothing == [min |-> {}, max |-> {}]
  <2> SUFFICES ASSUME posting.offer = Plain.offer PROVE ShownFiguresAreStored
    BY DEF ShownFiguresAreStored
  <2>1. row.bounds = SalaryBoundsToDB(ParseSalary(SalaryRawText(p)))
    BY <1>1, BoundsAreParsed
  <2>2. p \in Pays
    <3>1. Plain.pay \in Pays
      BY DEF Plain, Pays, Maybe
    <3> QED
      BY <1>1, <3>1 DEF IngInv, Postings
  <2>3. /\ p.base = {} \/ \E x \in Figures : p.base = {x}
        /\ p.max = {} \/ \E x \in Figures : p.max = {x}
        /\ p.shown \in BOOLEAN
    BY <2>2 DEF Pays, Maybe
  <2>4. SalaryBoundsToDB(Unknown) = nothing
    BY DEF SalaryBoundsToDB, Unknown
  <2> HIDE DEF p
  <2>5. CASE ~ShowsSalary(p)
    <3>1. row.bounds = nothing
      BY <2>1, <2>4, <2>5, NoSalary DEF SalaryRawText
    <3>2. ~p.shown \/ (p.base = {} /\ p.max = {})
      BY <2>5 DEF ShowsSalary
    <3> QED
      BY <3>1, <3>2 DEF ShownFiguresAreStored, p
  <2>6. CASE ShowsSalary(p)
    <3>1. PICK base : p.base = {} \/ (p.base = {base} /\ base \in Nat /\ base < 10 ^ 8)
      BY <2>3, FigureAssumption
    <3>2. PICK max : p.max = {} \/ (p.max = {max} /\ max \in Nat /\ max < 10 ^ 8)
      BY <2>3, FigureAssumption
    <3>3. ParseSalary(SalaryRawText(p)) =
             IF p.currency = "USD" THEN Unknown
             ELSE IF p.base = {} THEN [min |-> 0, max |-> max, conf |-> "estimated"]
             ELSE IF p.max = {} THEN [min |-> base, max |-> 0, conf |-> "estimated"]
             ELSE [min |-> Min({base} \cup {max}), max |-> Max({base} \cup {max}),
                   conf |-> "range"]
      BY <2>2, <2>6, <3>1, <3>2, ShownSalaryIsParsed
    <3>4. p.shown /\ ~(p.base = {} /\ p.max = {})
      BY <2>6 DEF ShowsSalary
    <3>5. \A n \in Nat : Stated(n) = {n} \ {0}
      BY DEF Stated
    <3>6. CASE p.currency = "USD"
      BY <2>1, <2>4, <3>3, <3>6 DEF ShownFiguresAreStored, p
    <3>7. CASE p.currency # "USD" /\ p.base = {}
      <4>1. row.bounds = [min |-> Stated(0), max |-> Stated(max)]
        BY <2>1, <3>3, <3>7 DEF SalaryBoundsToDB
      <4>2. Stated(0) = {} /\ Stated(max) = {max} \ {0} /\ p.max = {max}
        BY <3>2, <3>4, <3>5, <3>7
      <4> QED
        BY <3>4, <3>7, <4>1, <4>2 DEF ShownFiguresAreStored, p
    <3>8. CASE p.currency # "USD" /\ p.base # {} /\ p.max = {}
      <4>1. row.bounds = [min |-> Stated(base), max |-> Stated(0)]
        BY <2>1, <3>3, <3>8 DEF SalaryBoundsToDB
      <4>2. Stated(0) = {} /\ Stated(base) = {base} \ {0} /\ p.base = {base}
        BY <3>1, <3>4, <3>5, <3>8
      <4> QED
        BY <3>4, <3>8, <4>1, <4>2 DEF ShownFiguresAreStored, p
    <3>9. CASE p.currency # "USD" /\ p.base # {} /\ p.max # {}
      <4>1. row.bounds = [min |-> {Min({base} \cup {max})}, max |-> {Max({base} \cup {max})}]
        BY <2>1, <3>3, <3>9, SMTT(20) DEF SalaryBoundsToDB
      <4>2. p.base = {base} /\ p.max = {max}
        BY <3>1, <3>2, <3>9
      <4> QED
        BY <3>4, <3>9, <4>1, <4>2 DEF ShownFiguresAreStored, p
    <3> QED
      BY <3>6, <3>7, <3>8, <3>9
  <2> QED
    BY <2>5, <2>6
<1> QED
  BY <1>1, IngInvAlways, PTL

----------------------------------------------------------------------------
(* The level *)

\* Nothing stands for a mark in lower case but the mark, and no mark for a fragment.
LEMMA LowerOfMark ==
    ASSUME NEW a
    PROVE  /\ a \in Marks => Lower(a) = a
           /\ a \notin Marks => Lower(a) \notin Marks
           /\ Lower(Lower(a)) = Lower(a)
<1>1. CASE a \notin DOMAIN Lowercase
  BY <1>1 DEF Lower
<1>2. CASE a \in DOMAIN Lowercase
  <2>1. a \notin Marks
    BY <1>2 DEF Lowercase, Marks, Blanks, Blank, LineBreak, Comma
  <2> DEFINE V == {"go", "react", "native", "js", "doc", "senior", "junior", "lead",
                   "magang", "pt", "cv", "tbk", "maju", "jaya", "developer"}
  <2>3. Lowercase[a] \in V
    BY <1>2 DEF Lowercase
  <2>4. \A v \in V : v \notin Marks
    BY DEF Marks, Blanks, Blank, LineBreak, Comma
  <2>5. \A v \in V : v \notin DOMAIN Lowercase
    BY DEF Lowercase
  <2> HIDE DEF V
  <2>2. Lowercase[a] \notin Marks /\ Lowercase[a] \notin DOMAIN Lowercase
    BY <2>3, <2>4, <2>5
  <2> QED
    BY <1>2, <2>1, <2>2 DEF Lower
<1> QED
  BY <1>1, <1>2

LEMMA LevelsAre ==
    /\ LevelWords = {"lead", "senior", "junior", "intern", "internship", "magang"}
    /\ Seniority \subseteq LevelWords
    /\ Seniority = DOMAIN LevelOf
    /\ LevelWords \cap Marks = {}
<1>1. /\ DOMAIN LevelPatterns = 1..4
      /\ LevelPatterns[1].words = {"lead"} /\ LevelPatterns[2].words = {"senior"}
      /\ LevelPatterns[3].words = {"junior"}
      /\ LevelPatterns[4].words = {"intern", "internship", "magang"}
  BY DEF LevelPatterns
<1>2. LevelWords = LevelPatterns[1].words \cup LevelPatterns[2].words
                   \cup LevelPatterns[3].words \cup LevelPatterns[4].words
  BY <1>1 DEF LevelWords
<1>3. LevelWords = {"lead", "senior", "junior", "intern", "internship", "magang"}
  BY <1>1, <1>2
<1> QED
  BY <1>3 DEF Seniority, LevelOf, Marks, Blanks, Blank, LineBreak, Comma

\* Marks around a text say nothing, and keep no word of it from being one.
LEMMA SaysBetweenMarks ==
    ASSUME NEW A, NEW x \in Seq(A), NEW y \in Seq(A), NEW z \in Seq(A),
           x \in Seq(Marks), z \in Seq(Marks),
           NEW W, W \cap Marks = {}, Says((x \o y) \o z, W)
    PROVE  Says(y, W)
<1> DEFINE t == (x \o y) \o z
           m == Len(x)
           n == Len(y)
<1>1. /\ m \in Nat /\ n \in Nat /\ DOMAIN y = 1..n /\ Len(t) = m + n + Len(z) /\ Len(z) \in Nat
      /\ DOMAIN t = 1..Len(t)
      /\ \A i \in 1..m : t[i] = x[i] /\ x[i] \in Marks
      /\ \A i \in 1..n : t[m + i] = y[i]
      /\ \A i \in 1..Len(z) : t[m + n + i] = z[i] /\ z[i] \in Marks
  OBVIOUS
<1> HIDE DEF t, m
<1>2. PICK i \in DOMAIN t : Lower(t[i]) \in W /\ Bounded(t, i, i)
  BY DEF Says, t
<1>3. t[i] \notin Marks
  BY <1>2, LowerOfMark
<1>4. i \in m + 1..m + n
  <2>1. CASE i \in 1..m
    BY <1>1, <1>3, <2>1
  <2>2. CASE i \in m + n + 1..Len(t)
    <3>1. i - (m + n) \in 1..Len(z) /\ i = m + n + (i - (m + n))
      BY <1>1, <2>2
    <3> QED
      BY <1>1, <1>3, <3>1
  <2> QED
    BY <1>1, <2>1, <2>2
<1> DEFINE k == i - m
<1>5. k \in 1..n /\ t[i] = y[k] /\ i = m + k
  BY <1>1, <1>4
<1>6. k > 1 => i > 1 /\ t[i - 1] = y[k - 1]
  <2>1. k > 1 => k - 1 \in 1..n /\ m + (k - 1) = i - 1
    BY <1>1, <1>5
  <2> QED
    BY <1>1, <1>5, <2>1, SMTT(20)
<1>7. k < n => i < Len(t) /\ t[i + 1] = y[k + 1]
  <2>1. k < n => k + 1 \in 1..n /\ m + (k + 1) = i + 1
    BY <1>1, <1>5
  <2> QED
    BY <1>1, <1>5, <2>1, SMTT(20)
<1> HIDE DEF k
<1>8. Bounded(y, k, k)
  BY <1>2, <1>6, <1>7 DEF Bounded
<1> QED
  BY <1>1, <1>2, <1>5, <1>8 DEF Says

\* A word before a mark is said, and besides it what the rest says.
LEMMA SaysFirst ==
    ASSUME NEW A, NEW s \in Seq(A), s # <<>>, s[1] \in Marks, NEW w \in A, NEW W
    PROVE  /\ Lower(w) \in W => Says(<<w>> \o s, W)
           /\ Says(<<w>> \o s, W) => Lower(w) \in W \/ Says(s, W)
<1> DEFINE t == <<w>> \o s
<1>1. /\ Len(t) = Len(s) + 1 /\ Len(s) \in Nat \ {0} /\ t[1] = w
      /\ DOMAIN t = 1..Len(s) + 1 /\ DOMAIN s = 1..Len(s)
      /\ \A i \in 1..Len(s) : t[i + 1] = s[i]
  OBVIOUS
<1> HIDE DEF t
<1>2. t[2] = s[1]
  <2>1. 1 \in 1..Len(s) /\ 1 + 1 = 2
    BY <1>1
  <2> QED
    BY <1>1, <2>1
<1>3. Bounded(t, 1, 1)
  BY <1>2 DEF Bounded, IsFragment
<1>4. \A i \in 1..Len(s) : Bounded(t, i + 1, i + 1) => Bounded(s, i, i)
  <2> SUFFICES ASSUME NEW i \in 1..Len(s), Bounded(t, i + 1, i + 1) PROVE Bounded(s, i, i)
    OBVIOUS
  <2>1. i > 1 => (i + 1) - 1 = (i - 1) + 1 /\ i - 1 \in 1..Len(s)
    BY <1>1
  <2>2. i < Len(s) => i + 1 \in 1..Len(s)
    BY <1>1
  <2>3. i > 1 => ~IsFragment(s[i - 1])
    <3>1. i > 1 => t[(i + 1) - 1] = s[i - 1]
      BY <1>1, <2>1
    <3> QED
      BY <3>1 DEF Bounded
  <2>4. i < Len(s) => ~IsFragment(s[i + 1])
    <3>1. i < Len(s) => t[(i + 1) + 1] = s[i + 1] /\ i + 1 < Len(t)
      BY <1>1, <2>2
    <3> QED
      BY <3>1 DEF Bounded
  <2> QED
    BY <2>3, <2>4 DEF Bounded
<1>5. ASSUME Says(t, W) PROVE Lower(w) \in W \/ Says(s, W)
  <2>1. PICK i \in 1..Len(s) + 1 : Lower(t[i]) \in W /\ Bounded(t, i, i)
    BY <1>1, <1>5 DEF Says
  <2>2. CASE i = 1
    BY <1>1, <2>1, <2>2
  <2>3. CASE i # 1
    <3> DEFINE k == i - 1
    <3>1. k \in 1..Len(s) /\ i = k + 1
      BY <1>1, <2>3
    <3> HIDE DEF k
    <3> QED
      BY <1>1, <1>4, <2>1, <3>1 DEF Says
  <2> QED
    BY <2>2, <2>3
<1>6. ASSUME Lower(w) \in W PROVE Says(t, W)
  <2>1. 1 \in DOMAIN t
    BY <1>1
  <2> QED
    BY <1>1, <1>3, <1>6, <2>1 DEF Says
<1> QED
  BY <1>5, <1>6 DEF t

\* A title is its level, if it has one, and then the rest of it.
LEMMA TitleParts ==
    ASSUME NEW t \in Titles
    PROVE  LET u == Spaced(t.name, t.gap)
               rest == (t.mark \o u) \o t.badge
           IN  /\ t.name \in Seq(Seq(Atoms)) /\ t.gap \in Seq(Atoms) /\ u \in Seq(Atoms)
               /\ t.mark \in Seq(Atoms) /\ t.mark \in Seq(Marks)
               /\ t.badge \in Seq(Atoms) /\ t.badge \in Seq(Marks)
               /\ rest \in Seq(Atoms) /\ rest # <<>> /\ rest[1] \in Marks
               /\ t.level # <<>> =>
                    /\ Head(t.level) \in Atoms /\ Lower(Head(t.level)) \in Seniority
                    /\ TitleText(t) = <<Head(t.level)>> \o rest
<1> DEFINE u == Spaced(t.name, t.gap)
           mark == t.mark
           badge == t.badge
           w == Head(t.level)
           rest == (mark \o u) \o badge
<1>1. /\ t.name \in Seq(Words)
      /\ t.level # <<>> => t.level \in Seq(STRING) /\ Len(t.level) = 1 /\ Lower(w) \in Seniority
      /\ mark \in Seq(Marks) /\ mark # <<>> /\ t.gap \in Seq(Marks) /\ badge \in Seq(Marks)
  BY TitleAssumption
<1>2. Marks \subseteq Atoms /\ STRING \subseteq Atoms /\ STRING \ Marks \subseteq Atoms
  BY DEF Atoms
<1>3. t.name \in Seq(Seq(Atoms))
  <2>1. Words \subseteq Seq(Atoms)
    BY <1>2, SeqOfMore DEF Words
  <2> QED
    BY <1>1, <2>1, SeqOfMore
<1>4. mark \in Seq(Atoms) /\ t.gap \in Seq(Atoms) /\ badge \in Seq(Atoms)
  BY <1>1, <1>2, SeqOfMore
<1>5. u \in Seq(Atoms)
  BY <1>3, <1>4, SpacedType
<1>6. t.level # <<>> => w \in Atoms /\ t.level = <<w>>
  BY <1>1, <1>2
<1>7. t.level # <<>> => TitleText(t) = ((t.level \o mark) \o u) \o badge
  BY DEF TitleText
<1> HIDE DEF u, mark, badge
<1>8. mark \o u \in Seq(Atoms) /\ mark \o u # <<>> /\ Head(mark \o u) = Head(mark)
  BY <1>1, <1>4, <1>5, OpensAsFirst
<1>9. rest \in Seq(Atoms) /\ rest # <<>> /\ Head(rest) = Head(mark)
  <2> DEFINE x == mark \o u
  <2> HIDE DEF x
  <2> QED
    BY <1>4, <1>8, OpensAsFirst DEF x
<1>10. rest[1] \in Marks
  <2>1. Head(mark) \in Marks
    BY <1>1
  <2> HIDE DEF rest
  <2>2. rest[1] = Head(rest)
    BY <1>9
  <2> QED
    BY <1>9, <2>1, <2>2
<1>11. t.level # <<>> => TitleText(t) = <<w>> \o rest
  <2> SUFFICES ASSUME t.level # <<>> PROVE TitleText(t) = <<w>> \o rest
    OBVIOUS
  <2> DEFINE l == <<w>>
  <2>1. l \in Seq(Atoms) /\ t.level = l
    BY <1>6, OneLong
  <2> HIDE DEF w, l
  <2>2. ((l \o mark) \o u) \o badge = l \o ((mark \o u) \o badge)
    BY <1>4, <1>5, <2>1, SMTT(20)
  <2> QED
    BY <1>7, <2>1, <2>2 DEF l
<1> QED
  BY <1>1, <1>3, <1>4, <1>5, <1>6, <1>9, <1>10, <1>11 DEF u, mark, badge

\* A title says its level, and no other.
LEMMA TitleSaysItsLevel ==
    ASSUME NEW t \in Titles, t.level # <<>>, NEW W, W \subseteq LevelWords
    PROVE  Says(TitleText(t), W) <=> Lower(Head(t.level)) \in W
<1> DEFINE u == Spaced(t.name, t.gap)
           mark == t.mark
           badge == t.badge
           w == Head(t.level)
           rest == (mark \o u) \o badge
<1>1. /\ u \in Seq(Atoms) /\ mark \in Seq(Atoms) /\ mark \in Seq(Marks)
      /\ badge \in Seq(Atoms) /\ badge \in Seq(Marks)
      /\ rest \in Seq(Atoms) /\ rest # <<>> /\ rest[1] \in Marks
      /\ w \in Atoms /\ TitleText(t) = <<w>> \o rest
  BY TitleParts
<1>2. ~Says(u, LevelWords)
  BY TitleAssumption
<1>3. W \cap Marks = {}
  BY LevelsAre
<1> HIDE DEF u, mark, badge, w
<1>4. ~Says(rest, W)
  <2>1. ~Says(u, W)
    BY <1>2 DEF Says
  <2> QED
    BY <1>1, <1>3, <2>1, SaysBetweenMarks
<1> HIDE DEF rest
<1>5. /\ Lower(w) \in W => Says(<<w>> \o rest, W)
      /\ Says(<<w>> \o rest, W) => Lower(w) \in W \/ Says(rest, W)
  BY <1>1, SaysFirst
<1> QED
  BY <1>1, <1>4, <1>5 DEF w

\* The patterns, highest level first, have no word in common.
LEMMA LevelIsDetected ==
    ASSUME NEW title, NEW description, NEW level \in Seniority,
           \A W \in SUBSET LevelWords : Says(title, W) <=> level \in W
    PROVE  DetectLevel(title, description) = LevelOf[level]
<1> DEFINE first == SelectInSeq(LevelPatterns, LAMBDA p : Says(title, p.words))
           k == IF level = "lead" THEN 1 ELSE IF level = "senior" THEN 2
                ELSE IF level = "junior" THEN 3 ELSE 4
           I == {i \in 1..Len(LevelPatterns) : Says(title, LevelPatterns[i].words)}
<1>1. /\ Len(LevelPatterns) = 4
      /\ LevelPatterns[1].words = {"lead"} /\ LevelPatterns[2].words = {"senior"}
      /\ LevelPatterns[3].words = {"junior"}
      /\ LevelPatterns[4].words = {"intern", "internship", "magang"}
      /\ LevelPatterns[1].level = "lead" /\ LevelPatterns[2].level = "senior"
      /\ LevelPatterns[3].level = "junior" /\ LevelPatterns[4].level = "intern"
  BY DEF LevelPatterns
<1>2. level \in {"senior", "junior", "lead", "intern", "magang"}
  BY DEF Seniority
<1>3. \A i \in 1..4 : LevelPatterns[i].words \in SUBSET LevelWords
  BY <1>1, LevelsAre
<1>4. \A i \in 1..4 : level \in LevelPatterns[i].words <=> i = k
  <2> SUFFICES ASSUME NEW i \in 1..4 PROVE level \in LevelPatterns[i].words <=> i = k
    OBVIOUS
  <2>1. i = 1 \/ i = 2 \/ i = 3 \/ i = 4
    OBVIOUS
  <2> QED
    BY <1>1, <1>2, <2>1
<1>5. k \in 1..4 /\ LevelPatterns[k].level = LevelOf[level]
  BY <1>1, <1>2 DEF LevelOf
<1> HIDE DEF k
<1>6. I = {k}
  BY <1>1, <1>3, <1>4, <1>5
<1>7. Min({k}) = k /\ {k} # {}
  BY <1>5 DEF Min
<1>8. first = IF I # {} THEN Min(I) ELSE 0
  BY DEF SelectInSeq
<1> HIDE DEF I
<1>9. first = k /\ first # 0
  BY <1>5, <1>6, <1>7, <1>8
<1>10. first # 0 => DetectLevel(title, description) = LevelPatterns[first].level
  BY DEF DetectLevel
<1> HIDE DEF first
<1> QED
  BY <1>5, <1>9, <1>10

\* The level the key leaves out of a title is the one the level column says,
\* however the description would be read.
THEOREM IngestStrippedLevelIsRecorded == Spec => []StrippedLevelIsRecorded
<1>1. ASSUME IngInv PROVE StrippedLevelIsRecorded
  <2> DEFINE t == posting.title
  <2> SUFFICES ASSUME t.level # <<>> PROVE StrippedLevelIsRecorded
    BY DEF StrippedLevelIsRecorded
  <2>1. t \in Titles
    <3>1. Plain.title.level = <<>>
      BY DEF Plain
    <3> QED
      BY <1>1, <3>1 DEF IngInv, Postings
  <2>2. PICK description : row.columns.level = DetectLevel(TitleText(t), description)
    <3> DEFINE raw == Scraped(posting)
    <3>1. row.columns = Normalize(raw)
      BY <1>1 DEF IngInv, Ingested
    <3>2. raw.title = TitleText(t)
      BY DEF Scraped, ToRawJob, KalibrrJob
    <3>3. Normalize(raw).level = DetectLevel(raw.title, SanitizeDescription(raw.description))
      BY DEF Normalize
    <3> QED
      BY <3>1, <3>2, <3>3
  <2>3. Lower(Head(t.level)) \in Seniority
    BY <2>1, TitleParts
  <2>4. \A W \in SUBSET LevelWords : Says(TitleText(t), W) <=> Lower(Head(t.level)) \in W
    BY <2>1, TitleSaysItsLevel
  <2> HIDE DEF t
  <2>5. row.columns.level = LevelOf[Lower(Head(t.level))]
    BY <2>2, <2>3, <2>4, LevelIsDetected
  <2> QED
    BY <2>5 DEF StrippedLevelIsRecorded, t
<1> QED
  BY <1>1, IngInvAlways, PTL

----------------------------------------------------------------------------
(* The key of a title *)

\* What is posted is written in, by the employer it all starts from too.
Texts == Atoms \cup {"developer", "maju"}

Fragments == Texts \ Marks

\* The same in either case.
Lows == Texts \cup {Lower(a) : a \in Texts}

\* What is left of a text in the key of a title.
Bare(s) == Without(BlankOut(ToLower(s), ModeTags), Marks)

LEMMA ToLowerAppend ==
    ASSUME NEW s \in Seq(Texts), NEW a \in Texts
    PROVE  /\ ToLower(s) \in Seq(Lows) /\ Lower(a) \in Lows
           /\ ToLower(Append(s, a)) = Append(ToLower(s), Lower(a))
<1> DEFINE n == Len(s)
           t == Append(s, a)
<1>1. /\ n \in Nat /\ DOMAIN s = 1..n /\ DOMAIN t = 1..n + 1 /\ t[n + 1] = a
      /\ \A i \in 1..n : t[i] = s[i] /\ s[i] \in Texts
  OBVIOUS
<1>2. \A x \in Texts : Lower(x) \in Lows
  BY DEF Lows
<1> HIDE DEF t, n
<1>3. /\ ToLower(s) = [i \in 1..n |-> Lower(s[i])]
      /\ ToLower(t) = [i \in 1..n + 1 |-> Lower(t[i])]
  BY <1>1 DEF ToLower
<1>4. ToLower(s) \in Seq(Lows) /\ Len(ToLower(s)) = n
  BY <1>1, <1>2, <1>3
<1>5. ToLower(t) = Append(ToLower(s), Lower(a))
  <2> DEFINE r == ToLower(s)
  <2>1. \A i \in 1..n : ToLower(t)[i] = r[i]
    BY <1>1, <1>3
  <2>2. ToLower(t)[n + 1] = Lower(a)
    BY <1>1, <1>3
  <2>3. r \in Seq(Lows) /\ Len(r) = n /\ Lower(a) \in Lows
    BY <1>2, <1>4
  <2>4. ToLower(t) \in Seq(Lows) /\ Len(ToLower(t)) = n + 1
    BY <1>1, <1>2, <1>3
  <2> DEFINE x == Lower(a)
             l == ToLower(t)
  <2> HIDE DEF r, x, l
  <2>5. /\ Append(r, x) \in Seq(Lows) /\ Len(Append(r, x)) = n + 1
        /\ \A i \in 1..n : Append(r, x)[i] = r[i]
        /\ Append(r, x)[n + 1] = x
    BY <1>1, <2>3 DEF x
  <2>6. \A i \in 1..n + 1 : i \in 1..n \/ i = n + 1
    BY <1>1
  <2>7. \A i \in 1..Len(l) : l[i] = Append(r, x)[i]
    BY <2>1, <2>2, <2>4, <2>5, <2>6 DEF l, x
  <2>8. l = Append(r, x)
    BY <2>4, <2>5, <2>7, SeqEqual DEF l
  <2> QED
    BY <2>8 DEF r, x, l
<1> QED
  BY <1>2, <1>4, <1>5 DEF t

\* The lower case of an atom, with a blank for a badge.
Fades(a) == IF Lower(a) \in ModeTags THEN Blank ELSE Lower(a)

LEMMA BlankOutAppend ==
    ASSUME NEW s \in Seq(Texts), NEW a \in Texts
    PROVE  /\ BlankOut(ToLower(s), ModeTags) \in Seq(Lows)
           /\ BlankOut(ToLower(Append(s, a)), ModeTags)
                = Append(BlankOut(ToLower(s), ModeTags), Fades(a))
           /\ Fades(a) \in Lows
<1> DEFINE n == Len(s)
           t == Append(s, a)
           r == BlankOut(ToLower(s), ModeTags)
           u == BlankOut(ToLower(t), ModeTags)
           y == Fades(a)
<1>1. /\ n \in Nat /\ DOMAIN s = 1..n /\ DOMAIN t = 1..n + 1 /\ t[n + 1] = a
      /\ \A i \in 1..n : t[i] = s[i] /\ s[i] \in Texts
  OBVIOUS
<1>2. \A x \in Texts : Fades(x) \in Lows
  BY DEF Fades, Lows, Texts, Atoms, Marks, Blanks
<1>3. /\ r = [i \in 1..n |-> Fades(s[i])]
      /\ u = [i \in 1..n + 1 |-> Fades(t[i])]
  BY <1>1 DEF BlankOut, ToLower, Fades
<1> HIDE DEF t, n, r, u
<1>4. r \in Seq(Lows) /\ Len(r) = n
  BY <1>1, <1>2, <1>3
<1>5. u \in Seq(Lows) /\ Len(u) = n + 1
  BY <1>1, <1>2, <1>3
<1>6. (\A i \in 1..n : u[i] = r[i]) /\ u[n + 1] = y
  BY <1>1, <1>3
<1>7. y \in Lows
  BY <1>2
<1> HIDE DEF y
<1>8. /\ Append(r, y) \in Seq(Lows) /\ Len(Append(r, y)) = n + 1
      /\ \A i \in 1..n : Append(r, y)[i] = r[i]
      /\ Append(r, y)[n + 1] = y
  BY <1>1, <1>4, <1>7
<1>9. \A i \in 1..n + 1 : i \in 1..n \/ i = n + 1
  BY <1>1
<1>10. \A i \in 1..Len(u) : u[i] = Append(r, y)[i]
  BY <1>5, <1>6, <1>8, <1>9
<1>11. u = Append(r, y)
  BY <1>5, <1>8, <1>10, SeqEqual
<1> QED
  BY <1>4, <1>7, <1>11 DEF r, u, t, y

\* Of an atom more, nothing is left if it is a mark, and else its lower case.
LEMMA BareAppend ==
    ASSUME NEW s \in Seq(Texts), NEW a \in Texts
    PROVE  /\ Bare(s) \in Seq(Lows)
           /\ a \in Marks => Bare(Append(s, a)) = Bare(s)
           /\ a \notin Marks => Bare(Append(s, a)) = Append(Bare(s), Lower(a))
<1> DEFINE b == BlankOut(ToLower(s), ModeTags)
           x == Fades(a)
<1>0. Blank \in Marks /\ \A m \in ModeTags : m \in Marks
  BY DEF Marks, Blanks, ModeTags
<1>1. /\ b \in Seq(Lows) /\ x \in Lows
      /\ BlankOut(ToLower(Append(s, a)), ModeTags) = Append(b, x)
  BY BlankOutAppend
<1>2. a \in Marks => x \in Marks
  BY <1>0, LowerOfMark DEF Fades
<1>3. a \notin Marks => x \notin Marks /\ x = Lower(a)
  BY <1>0, LowerOfMark DEF Fades
<1> HIDE DEF b, x
<1>4. /\ Without(b, Marks) \in Seq(Lows)
      /\ x \in Marks => Without(Append(b, x), Marks) = Without(b, Marks)
      /\ x \notin Marks => Without(Append(b, x), Marks) = Append(Without(b, Marks), x)
  BY <1>1, WithoutType, WithoutMember, WithoutOther
<1> QED
  BY <1>1, <1>2, <1>3, <1>4 DEF Bare, b

LEMMA NothingBare == ToLower(<<>>) = <<>> /\ Bare(<<>>) = <<>>
<1>1. ToLower(<<>>) = <<>>
  BY DEF ToLower
<1>2. BlankOut(<<>>, ModeTags) = <<>>
  BY DEF BlankOut
<1> QED
  BY <1>1, <1>2, WithoutEmpty DEF Bare

LEMMA BareType == ASSUME NEW u \in Seq(Texts) PROVE Bare(u) \in Seq(Lows)
<1>1. CASE u = <<>>
  <2>1. <<>> \in Seq(Lows)
    OBVIOUS
  <2> QED
    BY <1>1, <2>1, NothingBare
<1>2. CASE u # <<>>
  BY <1>2, SeqIsAppend, BareAppend
<1> QED
  BY <1>1, <1>2

IsAfter(p, q, x) == Append(p \o q, x) = p \o Append(q, x)

LEMMA AppendAfter ==
    ASSUME NEW A, NEW p \in Seq(A), NEW q \in Seq(A), NEW x \in A
    PROVE  IsAfter(p, q, x)
BY DEF IsAfter

\* One text after the other.
LEMMA BareConcat ==
    ASSUME NEW u \in Seq(Texts), NEW v \in Seq(Texts)
    PROVE  Bare(u \o v) = Bare(u) \o Bare(v)
<1> DEFINE T == {t \in Seq(Texts) : Bare(u \o t) = Bare(u) \o Bare(t)}
<1>1. <<>> \in T
  <2>1. Bare(u) \in Seq(Lows)
    BY BareType
  <2>2. u \o <<>> = u
    BY NothingAdded
  <2>3. Bare(u) \o <<>> = Bare(u)
    BY <2>1, NothingAdded
  <2>4. Bare(u \o <<>>) = Bare(u) \o Bare(<<>>)
    BY <2>2, <2>3, NothingBare
  <2> QED
    BY <2>4
<1>2. ASSUME NEW t \in Seq(Texts), NEW x \in Texts, t \in T
      PROVE  Append(t, x) \in T
  <2>1. u \o Append(t, x) = Append(u \o t, x) /\ u \o t \in Seq(Texts) /\ Append(t, x) \in Seq(Texts)
    OBVIOUS
  <2> DEFINE p == Bare(u)
             q == Bare(t)
             w == u \o t
  <2>2. /\ p \in Seq(Lows) /\ q \in Seq(Lows) /\ Bare(w) = p \o q
        /\ Lower(x) \in Lows
    BY <1>2, BareAppend, ToLowerAppend
  <2>3. /\ x \in Marks => Bare(Append(w, x)) = p \o q /\ Bare(Append(t, x)) = q
        /\ x \notin Marks => /\ Bare(Append(w, x)) = Append(p \o q, Lower(x))
                             /\ Bare(Append(t, x)) = Append(q, Lower(x))
    BY <2>1, <2>2, BareAppend, ZenonT(30)
  <2> HIDE DEF p, q, T
  <2>4. Append(p \o q, Lower(x)) = p \o Append(q, Lower(x))
    <3>1. IsAfter(p, q, Lower(x))
      BY <2>2, AppendAfter
    <3> QED
      BY <3>1 DEF IsAfter
  <2>5. Bare(Append(w, x)) = p \o Bare(Append(t, x))
    BY <2>3, <2>4
  <2> QED
    BY <2>1, <2>5 DEF T, p
<1>3. Seq(Texts) \subseteq T
  <2> HIDE DEF T
  <2> QED
    BY <1>1, <1>2, InductiveSeq
<1> QED
  BY <1>3

\* Of marks nothing is left, and of a word its lower case.
LEMMA BareMarks ==
    ASSUME NEW m \in Seq(Marks) PROVE Bare(m) = <<>>
<1> DEFINE T == {t \in Seq(Marks) : Bare(t) = <<>>}
<1>1. <<>> \in T
  BY NothingBare
<1>2. ASSUME NEW t \in Seq(Marks), NEW x \in Marks, t \in T PROVE Append(t, x) \in T
  <2>1. x \in Texts /\ Marks \subseteq Texts
    BY DEF Texts, Atoms
  <2>2. t \in Seq(Texts)
    BY <2>1, SeqOfMore
  <2>3. Bare(Append(t, x)) = Bare(t)
    BY <2>1, <2>2, BareAppend
  <2>4. Append(t, x) \in Seq(Marks)
    BY AppendIsSeq
  <2> QED
    BY <1>2, <2>3, <2>4
<1>3. Seq(Marks) \subseteq T
  <2> HIDE DEF T
  <2> QED
    BY <1>1, <1>2, InductiveSeq
<1> QED
  BY <1>3

LEMMA BareFragments ==
    ASSUME NEW w \in Seq(Fragments) PROVE Bare(w) = ToLower(w)
<1> DEFINE A == Fragments
           T == {t \in Seq(A) : Bare(t) = ToLower(t)}
<1>1. <<>> \in T
  BY NothingBare
<1>2. ASSUME NEW t \in Seq(A), NEW x \in A, t \in T PROVE Append(t, x) \in T
  <2>1. x \in Texts /\ A \subseteq Texts /\ x \notin Marks
    BY DEF Fragments
  <2> HIDE DEF A
  <2>2. t \in Seq(Texts)
    BY <2>1, SeqOfMore
  <2>3. Bare(Append(t, x)) = Append(Bare(t), Lower(x))
    BY <2>1, <2>2, BareAppend
  <2>4. ToLower(Append(t, x)) = Append(ToLower(t), Lower(x))
    BY <2>1, <2>2, ToLowerAppend
  <2>5. Append(t, x) \in Seq(A)
    BY AppendIsSeq
  <2> QED
    BY <1>2, <2>3, <2>4, <2>5
<1>3. Seq(A) \subseteq T
  <2> HIDE DEF T
  <2> QED
    BY <1>1, <1>2, InductiveSeq
<1> QED
  BY <1>3

\* The gaps between words leave nothing.
LEMMA BareSpaced ==
    ASSUME NEW gap \in Seq(Marks), NEW names \in Seq(Seq(Fragments))
    PROVE  /\ Spaced(names, gap) \in Seq(Texts) /\ FlattenSeq(names) \in Seq(Fragments)
           /\ Bare(Spaced(names, gap)) = ToLower(FlattenSeq(names))
<1> DEFINE W == Seq(Fragments)
           T == {s \in Seq(W) : Bare(Spaced(s, gap)) = Bare(FlattenSeq(s))}
<1>0. Marks \subseteq Texts /\ Fragments \subseteq Texts
  BY DEF Texts, Atoms, Fragments
<1>1. \A x \in W : x \in Seq(Texts)
  BY <1>0, SeqOfMore
<1>2. gap \in Seq(Texts) /\ Bare(gap) = <<>>
  BY <1>0, SeqOfMore, BareMarks
<1>3. \A s \in Seq(W) : s \in Seq(Seq(Texts)) /\ Spaced(s, gap) \in Seq(Texts)
                        /\ FlattenSeq(s) \in W
  <2> SUFFICES ASSUME NEW s \in Seq(W)
               PROVE  s \in Seq(Seq(Texts)) /\ Spaced(s, gap) \in Seq(Texts) /\ FlattenSeq(s) \in W
    OBVIOUS
  <2>1. s \in Seq(Seq(Texts))
    <3> HIDE DEF W
    <3> QED
      BY <1>1, SeqOfMore
  <2>2. Spaced(s, gap) \in Seq(Texts)
    BY <1>2, <2>1, SpacedType
  <2>3. <<>> \in Seq(Fragments)
    OBVIOUS
  <2>4. FlattenSeq(s) \in W
    BY <2>3, FlattenSeqAppend
  <2> QED
    BY <2>1, <2>2, <2>4
<1>4. <<>> \in T
  <2>1. <<>> \in Seq(W)
    OBVIOUS
  <2> QED
    BY <2>1, SpacedEmpty, FlattenSeqEmpty
<1>5. ASSUME NEW s \in Seq(W), NEW x \in W, s \in T PROVE Append(s, x) \in T
  <2>1. /\ Append(s, x) \in Seq(W) /\ FlattenSeq(Append(s, x)) = FlattenSeq(s) \o x
        /\ x \in Seq(Texts)
    BY <1>1, FlattenSeqAppend, AppendIsSeq
  <2>2. CASE s = <<>>
    <3>1. Append(s, x) = <<x>> /\ FlattenSeq(s) = <<>>
      BY <2>2, FlattenSeqEmpty
    <3>2. Spaced(<<x>>, gap) = x /\ <<>> \o x = x
      BY <2>1, SpacedFirst, NothingAdded
    <3> QED
      BY <2>1, <3>1, <3>2
  <2>3. CASE s # <<>>
    <3> DEFINE u == Spaced(s, gap)
               f == FlattenSeq(s)
    <3>1. /\ s \in Seq(Seq(Texts)) /\ u \in Seq(Texts) /\ f \in Seq(Texts)
          /\ Bare(u) = Bare(f)
      BY <1>1, <1>3, <1>5
    <3>2. Spaced(Append(s, x), gap) = u \o (gap \o x)
      BY <1>2, <2>1, <2>3, <3>1, SpacedNext, ZenonT(30)
    <3> HIDE DEF u, f
    <3>3. gap \o x \in Seq(Texts)
      BY <1>2, <2>1, OneAfterOther
    <3>4. Bare(u \o (gap \o x)) = Bare(u) \o Bare(gap \o x)
      BY <3>1, <3>3, BareConcat
    <3>5. Bare(gap \o x) = Bare(gap) \o Bare(x)
      BY <1>2, <2>1, BareConcat
    <3>6. Bare(x) \in Seq(Lows)
      BY <2>1, BareType
    <3>7. Bare(gap \o x) = Bare(x)
      BY <1>2, <3>5, <3>6, NothingAdded
    <3>8. Bare(f \o x) = Bare(f) \o Bare(x)
      BY <2>1, <3>1, BareConcat
    <3> QED
      BY <2>1, <3>1, <3>2, <3>4, <3>7, <3>8 DEF u, f
  <2> QED
    BY <2>2, <2>3
<1>6. Seq(W) \subseteq T
  <2> HIDE DEF T, W
  <2> QED
    BY <1>4, <1>5, InductiveSeq
<1>7. names \in Seq(W)
  OBVIOUS
<1>8. Bare(FlattenSeq(names)) = ToLower(FlattenSeq(names))
  BY <1>3, <1>7, BareFragments
<1> QED
  BY <1>3, <1>6, <1>7, <1>8

\* The level a title opens with is left out of the key.
OpensWithLevel(s) == s # <<>> /\ Lower(s[1]) \in Seniority /\ Bounded(s, 1, 1)

LEMMA FadesAre ==
    ASSUME NEW a
    PROVE  /\ Fades(a) \in Seniority <=> Lower(a) \in Seniority
           /\ IsFragment(Fades(a)) <=> IsFragment(a)
<1>1. \A m \in ModeTags : m \in Marks /\ m \notin Seniority
  BY DEF Marks, ModeTags, Seniority
<1>2. Blank \in Marks /\ Blank \notin Seniority
  BY DEF Marks, Blanks, Blank, Seniority
<1>3. IsFragment(Lower(a)) <=> IsFragment(a)
  BY LowerOfMark DEF IsFragment
<1> QED
  BY <1>1, <1>2, <1>3, LowerOfMark DEF Fades, IsFragment

LEMMA TitleKey ==
    ASSUME NEW s \in Seq(Texts)
    PROVE  /\ ~OpensWithLevel(s) => NormalizeTitle(s) = Bare(s)
           /\ OpensWithLevel(s) => NormalizeTitle(s) = Bare(Tail(s))
<1> DEFINE n == Len(s)
           f == BlankOut(ToLower(s), ModeTags)
           g == BlankOut(ToLower(Tail(s)), ModeTags)
<1>1. /\ n \in Nat /\ DOMAIN s = 1..n /\ (s = <<>> <=> n = 0)
  OBVIOUS
<1>2. f = [i \in 1..n |-> Fades(s[i])]
  BY <1>1 DEF BlankOut, ToLower, Fades
<1>3. f # <<>> <=> s # <<>>
  BY <1>1, <1>2
<1>4. Len(f) = n
  BY <1>1, <1>2
<1>5. OpensWithSeniority(f) <=> OpensWithLevel(s)
  <2>1. CASE s = <<>>
    BY <1>3, <2>1 DEF OpensWithSeniority, OpensWithLevel
  <2>2. CASE s # <<>>
    <3>1. n >= 1 /\ f[1] = Fades(s[1]) /\ (1 < n => f[2] = Fades(s[2]))
      BY <1>1, <1>2, <2>2
    <3> HIDE DEF f
    <3>2. Bounded(f, 1, 1) <=> Bounded(s, 1, 1)
      BY <1>4, <3>1, FadesAre DEF Bounded
    <3> QED
      BY <1>3, <2>2, <3>1, <3>2, FadesAre DEF OpensWithSeniority, OpensWithLevel
  <2> QED
    BY <2>1, <2>2
<1>6. s # <<>> => Tail(f) = g
  <2> SUFFICES ASSUME s # <<>> PROVE Tail(f) = g
    OBVIOUS
  <2>1. /\ Len(Tail(s)) = n - 1 /\ DOMAIN Tail(s) = 1..n - 1 /\ Tail(s) \in Seq(Texts)
        /\ \A i \in 1..n - 1 : Tail(s)[i] = s[i + 1]
    OBVIOUS
  <2>2. \A x \in Texts : Fades(x) \in Lows
    BY BlankOutAppend
  <2>3. g = [i \in 1..n - 1 |-> Fades(Tail(s)[i])]
    BY <2>1 DEF BlankOut, ToLower, Fades
  <2>4. f \in Seq(Lows) /\ f # <<>>
    BY <1>1, <1>2, <1>3, <2>2
  <2>5. g \in Seq(Lows) /\ Len(g) = n - 1
    <3>1. n - 1 \in Nat
      BY <1>1, <2>1
    <3> DEFINE t == Tail(s)
    <3>2. \A i \in 1..n - 1 : Fades(t[i]) \in Lows
      <4>1. \A i \in 1..n - 1 : t[i] \in Texts
        BY <2>1
      <4> HIDE DEF t
      <4> QED
        BY <2>2, <4>1
    <3>3. g = [i \in 1..n - 1 |-> Fades(t[i])]
      BY <2>3
    <3> HIDE DEF t, g, n
    <3> QED
      BY <3>1, <3>2, <3>3
  <2>6. \A i \in 1..n - 1 : g[i] = f[i + 1]
    BY <1>1, <1>2, <2>1, <2>3
  <2> HIDE DEF f, g, n
  <2>7. Tail(f) \in Seq(Lows) /\ Len(Tail(f)) = n - 1 /\ \A i \in 1..n - 1 : Tail(f)[i] = f[i + 1]
    BY <1>4, <2>4
  <2> QED
    BY <2>5, <2>6, <2>7, SeqEqual
<1>7. NormalizeTitle(s) = Without(IF OpensWithSeniority(f) THEN Tail(f) ELSE f, Marks)
  BY DEF NormalizeTitle, WithoutSeniority
<1>8. OpensWithLevel(s) => s # <<>>
  BY DEF OpensWithLevel
<1> HIDE DEF f, g
<1> QED
  BY <1>5, <1>6, <1>7, <1>8 DEF Bare, f, g

LEMMA FlattenSeqOne ==
    ASSUME NEW A, NEW x \in Seq(A) PROVE FlattenSeq(<<x>>) = x
<1>1. <<x>> = Append(<<>>, x) /\ <<>> \in Seq(Seq(A))
  OBVIOUS
<1>2. FlattenSeq(Append(<<>>, x)) = FlattenSeq(<<>>) \o x
  BY <1>1, FlattenSeqAppend
<1> QED
  BY <1>1, <1>2, FlattenSeqEmpty, NothingAdded

\* Whatever a title is dressed up in, its key is its name.
LEMMA TitleKeyIsItsName ==
    ASSUME NEW t \in {Plain.title} \cup Titles
    PROVE  NormalizeTitle(TitleText(t)) = ToLower(FlattenSeq(t.name))
<1> DEFINE s == TitleText(t)
<1>1. CASE t = Plain.title
  <2> DEFINE w == <<"developer">>
  <2>1. t.name = <<w>> /\ s = w
    BY <1>1, PlainTitle DEF Plain
  <2>2. w \in Seq(Fragments) /\ w \in Seq(Texts) /\ w[1] = "developer"
    <3>1. "developer" \in Fragments /\ "developer" \in Texts
      BY DEF Fragments, Texts, Marks, Blanks, Blank, LineBreak, Comma
    <3> QED
      BY <3>1, OneLong
  <2>3. Lower("developer") \notin Seniority
    BY DEF Lower, Lowercase, Seniority
  <2> HIDE DEF w
  <2>4. FlattenSeq(<<w>>) = w
    BY <2>2, FlattenSeqOne
  <2>5. NormalizeTitle(w) = Bare(w)
    BY <2>2, <2>3, TitleKey DEF OpensWithLevel
  <2>6. Bare(w) = ToLower(w)
    BY <2>2, BareFragments
  <2> QED
    BY <2>1, <2>4, <2>5, <2>6
<1>2. CASE t \in Titles
  <2> DEFINE u == Spaced(t.name, t.gap)
             mark == t.mark
             badge == t.badge
             rest == (mark \o u) \o badge
             w == Head(t.level)
             key == ToLower(FlattenSeq(t.name))
  <2>1. Atoms \subseteq Texts /\ Marks \subseteq Texts /\ Words \subseteq Seq(Fragments)
    <3>1. STRING \ Marks \subseteq Fragments
      BY DEF Fragments, Texts, Atoms
    <3> QED
      BY <3>1, SeqOfMore DEF Texts, Atoms, Words
  <2>2. /\ mark \in Seq(Marks) /\ badge \in Seq(Marks) /\ mark \in Seq(Texts) /\ badge \in Seq(Texts)
        /\ t.gap \in Seq(Marks) /\ t.name \in Seq(Words)
        /\ t.level # <<>> => /\ w \in Texts /\ Lower(w) \in Seniority /\ s = <<w>> \o rest
                             /\ rest \in Seq(Texts) /\ rest # <<>> /\ rest[1] \in Marks
        /\ ~Says(u, LevelWords)
    <3>1. /\ mark \in Seq(Marks) /\ badge \in Seq(Marks) /\ mark \in Seq(Atoms) /\ badge \in Seq(Atoms)
          /\ rest \in Seq(Atoms) /\ rest # <<>> /\ rest[1] \in Marks
          /\ t.level # <<>> => w \in Atoms /\ Lower(w) \in Seniority /\ s = <<w>> \o rest
      BY <1>2, TitleParts
    <3>2. t.gap \in Seq(Marks) /\ t.name \in Seq(Words) /\ ~Says(u, LevelWords)
      BY <1>2, TitleAssumption
    <3> HIDE DEF u, mark, badge, s, w, rest
    <3>3. mark \in Seq(Texts) /\ badge \in Seq(Texts) /\ rest \in Seq(Texts)
      BY <2>1, <3>1, SeqOfMore
    <3> QED
      BY <2>1, <3>1, <3>2, <3>3
  <2>3. t.name \in Seq(Seq(Fragments))
    BY <2>1, <2>2, SeqOfMore
  <2>4. u \in Seq(Texts) /\ Bare(u) = key
    BY <2>2, <2>3, BareSpaced
  <2>5. t.level = <<>> => s = (<<>> \o u) \o badge
    BY DEF TitleText
  <2> HIDE DEF u, mark, badge, s, w, key
  <2>6. Bare(mark) = <<>> /\ Bare(badge) = <<>> /\ Bare(u) \in Seq(Lows)
    BY <2>2, <2>4, BareMarks, BareType
  <2>7. CASE t.level # <<>>
    <3>1. OpensWithLevel(<<w>> \o rest) /\ Tail(<<w>> \o rest) = rest /\ <<w>> \o rest \in Seq(Texts)
      <4>1. rest \in Seq(Texts) /\ rest # <<>> /\ rest[1] \in Marks /\ w \in Texts
        BY <2>2, <2>7
      <4> HIDE DEF rest
      <4> DEFINE v == <<w>> \o rest
      <4>2. v \in Seq(Texts) /\ v # <<>> /\ v[1] = w /\ v[2] = rest[1] /\ Tail(v) = rest
        BY <4>1
      <4> HIDE DEF v
      <4>3. OpensWithLevel(v)
        BY <2>2, <2>7, <4>1, <4>2 DEF OpensWithLevel, Bounded, IsFragment
      <4> QED
        BY <4>2, <4>3 DEF v
    <3>2. NormalizeTitle(<<w>> \o rest) = Bare(rest)
      BY <3>1, TitleKey
    <3>3. Bare(mark \o u) = <<>> \o Bare(u) /\ mark \o u \in Seq(Texts)
      BY <2>2, <2>4, <2>6, BareConcat, OneAfterOther
    <3>4. Bare(rest) = Bare(mark \o u) \o <<>>
      BY <2>2, <2>6, <3>3, BareConcat
    <3>5. <<>> \o Bare(u) = Bare(u) /\ Bare(u) \o <<>> = Bare(u)
      BY <2>6, NothingAdded
    <3> QED
      BY <2>2, <2>4, <2>7, <3>2, <3>3, <3>4, <3>5 DEF s, key
  <2>8. CASE t.level = <<>>
    <3> DEFINE v == <<>> \o u
    <3>1. v = u /\ v \in Seq(Texts) /\ <<>> \in Seq(Texts) /\ <<>> \in Seq(Marks)
      BY <2>4, NothingAdded
    <3>2. v \o badge \in Seq(Texts)
      BY <2>2, <3>1, OneAfterOther
    <3>3. ~OpensWithLevel(v \o badge)
      <4> DEFINE x == v \o badge
      <4> SUFFICES ASSUME OpensWithLevel(x) PROVE FALSE
        OBVIOUS
      <4>1. Says(x, LevelWords)
        <5>1. x \in Seq(Texts) /\ x # <<>>
          BY <3>2 DEF OpensWithLevel
        <5> HIDE DEF x
        <5>2. 1 \in DOMAIN x
          BY <5>1
        <5> QED
          BY <5>2, LevelsAre DEF OpensWithLevel, Says
      <4>2. LevelWords \cap Marks = {}
        BY LevelsAre
      <4> HIDE DEF v
      <4>3. Says((<<>> \o u) \o badge, LevelWords)
        BY <4>1 DEF v
      <4>4. Says(u, LevelWords)
        BY <2>2, <2>4, <3>1, <4>2, <4>3, SaysBetweenMarks
      <4> QED
        BY <2>2, <4>4
    <3>4. NormalizeTitle(v \o badge) = Bare(v \o badge)
      BY <3>2, <3>3, TitleKey
    <3> HIDE DEF v
    <3>5. Bare(v \o badge) = Bare(v) \o <<>>
      BY <2>2, <2>6, <3>1, BareConcat
    <3>6. Bare(u) \o <<>> = Bare(u)
      BY <2>6, NothingAdded
    <3> QED
      BY <2>4, <2>5, <2>8, <3>1, <3>4, <3>5, <3>6 DEF s, key, v
  <2> QED
    BY <2>7, <2>8 DEF s
<1> QED
  BY <1>1, <1>2

----------------------------------------------------------------------------
(* The key of a company *)

LEMMA ToLowerType == ASSUME NEW u \in Seq(Texts) PROVE ToLower(u) \in Seq(Lows)
<1>1. CASE u = <<>>
  <2>1. <<>> \in Seq(Lows)
    OBVIOUS
  <2> QED
    BY <1>1, <2>1, NothingBare
<1>2. CASE u # <<>>
  BY <1>2, SeqIsAppend, ToLowerAppend
<1> QED
  BY <1>1, <1>2

LEMMA ToLowerConcat ==
    ASSUME NEW u \in Seq(Texts), NEW v \in Seq(Texts)
    PROVE  ToLower(u \o v) = ToLower(u) \o ToLower(v)
<1> DEFINE T == {t \in Seq(Texts) : ToLower(u \o t) = ToLower(u) \o ToLower(t)}
<1>1. <<>> \in T
  <2>1. ToLower(u) \in Seq(Lows)
    BY ToLowerType
  <2>2. ToLower(u) \o <<>> = ToLower(u) /\ u \o <<>> = u
    BY <2>1, NothingAdded
  <2>3. ToLower(u \o <<>>) = ToLower(u) \o ToLower(<<>>)
    BY <2>2, NothingBare
  <2> QED
    BY <2>3
<1>2. ASSUME NEW t \in Seq(Texts), NEW x \in Texts, t \in T
      PROVE  Append(t, x) \in T
  <2>1. u \o Append(t, x) = Append(u \o t, x) /\ u \o t \in Seq(Texts) /\ Append(t, x) \in Seq(Texts)
    OBVIOUS
  <2> DEFINE p == ToLower(u)
             q == ToLower(t)
             w == u \o t
  <2>2. /\ p \in Seq(Lows) /\ q \in Seq(Lows) /\ ToLower(w) = p \o q
        /\ Lower(x) \in Lows
    BY <1>2, ToLowerAppend, ToLowerType
  <2>3. /\ ToLower(Append(w, x)) = Append(p \o q, Lower(x))
        /\ ToLower(Append(t, x)) = Append(q, Lower(x))
    BY <2>1, <2>2, ToLowerAppend
  <2> HIDE DEF p, q, T
  <2>4. Append(p \o q, Lower(x)) = p \o Append(q, Lower(x))
    <3>1. IsAfter(p, q, Lower(x))
      BY <2>2, AppendAfter
    <3> QED
      BY <3>1 DEF IsAfter
  <2>5. ToLower(Append(w, x)) = p \o ToLower(Append(t, x))
    BY <2>3, <2>4
  <2> QED
    BY <2>1, <2>5 DEF T, p
<1>3. Seq(Texts) \subseteq T
  <2> HIDE DEF T
  <2> QED
    BY <1>1, <1>2, InductiveSeq
<1> QED
  BY <1>3

\* The lower case of a word has no blank, and that of blanks is the same.
LEMMA ToLowerWord ==
    ASSUME NEW x \in Seq(Fragments) \ {<<>>}
    PROVE  x \in Seq(Texts) /\ ToLower(x) \in Seq(Lows \ {Blank}) /\ ToLower(x) # <<>>
<1> DEFINE n == Len(x)
<1>1. n \in Nat /\ n # 0 /\ DOMAIN x = 1..n /\ \A i \in 1..n : x[i] \in Fragments
  OBVIOUS
<1>2. \A a \in Fragments : Lower(a) \in Lows \ {Blank} /\ a \in Texts
  BY LowerOfMark DEF Fragments, Lows, Marks, Blanks
<1>3. ToLower(x) = [i \in 1..n |-> Lower(x[i])]
  BY <1>1 DEF ToLower
<1>4. x \in Seq(Texts)
  BY <1>2, SeqOfMore
<1> HIDE DEF n
<1> DEFINE y == ToLower(x)
           B == Lows \ {Blank}
<1>5. \A i \in 1..n : y[i] \in B
  BY <1>1, <1>2, <1>3
<1>6. y = [i \in 1..n |-> y[i]]
  BY <1>3
<1> HIDE DEF y, B
<1>7. y \in Seq(B) /\ y # <<>>
  <2>1. y \in Seq(B)
    BY <1>1, <1>5, <1>6
  <2>2. DOMAIN y = 1..n
    BY <1>6
  <2> QED
    BY <1>1, <2>1, <2>2
<1> QED
  BY <1>4, <1>7 DEF y, B

LEMMA ToLowerBlanks ==
    ASSUME NEW g \in Seq({Blank}) PROVE ToLower(g) = g /\ g \in Seq(Texts)
<1>1. Lower(Blank) = Blank /\ Blank \in Texts
  BY LowerOfMark DEF Marks, Blanks, Texts, Atoms
<1>2. DOMAIN g = 1..Len(g) /\ \A i \in 1..Len(g) : g[i] = Blank
  OBVIOUS
<1>3. ToLower(g) = [i \in 1..Len(g) |-> g[i]]
  BY <1>1, <1>2 DEF ToLower
<1>4. g = [i \in 1..Len(g) |-> g[i]]
  OBVIOUS
<1>5. {Blank} \subseteq Texts
  BY <1>1
<1> QED
  BY <1>3, <1>4, <1>5, SeqOfMore

\* A word is kept, and of blanks one, unless there is one already.
LEMMA KeptOverWord ==
    ASSUME NEW A, NEW b \in A, NEW u \in Seq(A), NEW w \in Seq(A \ {b})
    PROVE  /\ Kept(u \o w, b) = Kept(u, b) \o w
           /\ w # <<>> => ~EndsBlank(Kept(u, b) \o w, b)
<1> DEFINE B == A \ {b}
           k == Kept(u, b)
           T == {t \in Seq(B) : /\ Kept(u \o t, b) = k \o t
                                /\ t # <<>> => ~EndsBlank(k \o t, b)}
<1>0. k \in Seq(A) /\ k \o <<>> = k /\ u \o <<>> = u /\ <<>> \in Seq(B)
  BY KeptType, NothingAdded
<1>1. <<>> \in T
  BY <1>0
<1>2. ASSUME NEW t \in Seq(B), NEW x \in B, t \in T PROVE Append(t, x) \in T
  <2>1. x \in A /\ x # b /\ t \in Seq(A)
    BY SeqOfMore
  <2> HIDE DEF k, B
  <2>2. Append(t, x) \in Seq(B)
    BY AppendIsSeq
  <2>3. u \o Append(t, x) = Append(u \o t, x) /\ u \o t \in Seq(A)
    BY <2>1
  <2>4. k \o Append(t, x) = Append(k \o t, x) /\ k \o t \in Seq(A)
    BY <1>0, <2>1
  <2>5. Kept(Append(u \o t, x), b) = Then(Kept(u \o t, b), x, b)
    BY <2>1, <2>3, KeptAppend
  <2>6. Then(k \o t, x, b) = Append(k \o t, x)
    BY <2>1 DEF Then
  <2>7. ~EndsBlank(Append(k \o t, x), b)
    BY <2>1, <2>4, AppendIsSeq, ZenonT(30) DEF EndsBlank
  <2> QED
    BY <1>2, <2>2, <2>3, <2>4, <2>5, <2>6, <2>7
<1>3. Seq(B) \subseteq T
  <2> HIDE DEF T, B
  <2> QED
    BY <1>1, <1>2, InductiveSeq
<1> QED
  BY <1>3

LEMMA KeptOverBlanks ==
    ASSUME NEW A, NEW b \in A, NEW u \in Seq(A), NEW g \in Seq({b})
    PROVE  /\ g = <<>> => Kept(u \o g, b) = Kept(u, b)
           /\ g # <<>> => Kept(u \o g, b) = Then(Kept(u, b), b, b)
<1> DEFINE B == {b}
           k == Kept(u, b)
           T == {t \in Seq(B) : /\ t = <<>> => Kept(u \o t, b) = k
                                /\ t # <<>> => Kept(u \o t, b) = Then(k, b, b)}
<1>0. k \in Seq(A) /\ u \o <<>> = u /\ <<>> \in Seq(B)
  BY KeptType, NothingAdded
<1>1. <<>> \in T
  BY <1>0
<1>2. ASSUME NEW t \in Seq(B), NEW x \in B, t \in T PROVE Append(t, x) \in T
  <2>1. x \in A /\ x = b /\ t \in Seq(A)
    BY SeqOfMore
  <2> HIDE DEF k, B
  <2>2. Append(t, x) \in Seq(B) /\ Append(t, x) # <<>>
    BY AppendIsSeq
  <2>3. u \o Append(t, x) = Append(u \o t, x) /\ u \o t \in Seq(A)
    BY <2>1
  <2>5. Kept(Append(u \o t, x), b) = Then(Kept(u \o t, b), b, b)
    BY <2>1, <2>3, KeptAppend
  <2>6. Then(Then(k, b, b), b, b) = Then(k, b, b)
    BY <1>0, ThenBlank
  <2> QED
    BY <1>2, <2>2, <2>3, <2>5, <2>6
<1>3. Seq(B) \subseteq T
  <2> HIDE DEF T, B
  <2> QED
    BY <1>1, <1>2, InductiveSeq
<1> QED
  BY <1>3

Dots == {".", Comma}

\* What NormalizeCompany takes the punctuation marks out of.
Untagged(s) == BlankOutTbk(BlankOut(ToLower(s), {"(persero)"}))

\* The lower case of an atom, with a blank for the tag.
Dim(a) == IF Lower(a) = "(persero)" THEN Blank ELSE Lower(a)

LEMMA UntaggedIs ==
    ASSUME NEW s \in Seq(Texts)
    PROVE  Untagged(s) = [i \in 1..Len(s) |->
              IF Lower(s[i]) = "tbk" /\ Bounded(s, i, i) THEN Blank ELSE Dim(s[i])]
<1> DEFINE n == Len(s)
           l == BlankOut(ToLower(s), {"(persero)"})
<1>1. /\ n \in Nat /\ DOMAIN s = 1..n
  OBVIOUS
<1>2. l = [i \in 1..n |-> Dim(s[i])]
  BY <1>1 DEF BlankOut, ToLower, Dim
<1>3. Len(l) = n /\ DOMAIN l = 1..n
  BY <1>1, <1>2
<1>4. \A a : /\ IsFragment(Dim(a)) <=> IsFragment(a)
             /\ Dim(a) = "tbk" <=> Lower(a) = "tbk"
  <2> TAKE a
  <2>1. "(persero)" \in Marks /\ Blank \in Marks /\ Blank # "tbk" /\ "(persero)" # "tbk"
    BY DEF Marks, Blanks, Blank
  <2>2. IsFragment(Lower(a)) <=> IsFragment(a)
    BY LowerOfMark DEF IsFragment
  <2> QED
    BY <2>1, <2>2 DEF Dim, IsFragment
<1>5. \A i \in 1..n : Bounded(l, i, i) <=> Bounded(s, i, i)
  <2> TAKE i \in 1..n
  <2>1. i > 1 => i - 1 \in 1..n /\ l[i - 1] = Dim(s[i - 1])
    BY <1>1, <1>2
  <2>2. i < n => i + 1 \in 1..n /\ l[i + 1] = Dim(s[i + 1])
    BY <1>1, <1>2
  <2> HIDE DEF l
  <2> QED
    BY <1>3, <1>4, <2>1, <2>2 DEF Bounded
<1>6. \A i \in 1..n : l[i] = Dim(s[i])
  BY <1>2
<1> HIDE DEF l
<1>7. Untagged(s) = [i \in 1..n |-> IF l[i] = "tbk" /\ Bounded(l, i, i) THEN Blank ELSE l[i]]
  BY <1>3 DEF Untagged, BlankOutTbk, l
<1> QED
  BY <1>4, <1>5, <1>6, <1>7

\* w is made of the three.
AreParts(w, p, q, t) ==
    /\ Len(w) = Len(p) + Len(q) + Len(t)
    /\ \A i \in 1..Len(p) : w[i] = p[i]
    /\ \A i \in 1..Len(q) : w[Len(p) + i] = q[i]
    /\ \A i \in 1..Len(t) : w[Len(p) + Len(q) + i] = t[i]

LEMMA ThreeParts ==
    ASSUME NEW A, NEW p \in Seq(A), NEW q \in Seq(A), NEW t \in Seq(A)
    PROVE  (p \o q) \o t \in Seq(A) /\ AreParts((p \o q) \o t, p, q, t)
BY DEF AreParts

\* Between what is set apart from it a name loses no word to the tags, and
\* after it they leave blanks.
LEMMA UntaggedParts ==
    ASSUME NEW x \in Seq(Texts), NEW y \in Seq(Texts), NEW z \in Seq(Texts),
           \A i \in 1..Len(x) : Lower(x[i]) \notin {"tbk", "(persero)"},
           \A i \in 1..Len(y) : Lower(y[i]) # "(persero)",
           ~Says(y, {"tbk"}),
           \A i \in 1..Len(z) :
              \/ z[i] \in {Blank, ".", Comma, "(persero)"}
              \/ Lower(z[i]) = "tbk" /\ i > 1 /\ ~IsFragment(z[i - 1])
    PROVE  \E t \in Seq({Blank} \cup Dots) : Untagged((x \o y) \o z) = (ToLower(x) \o ToLower(y)) \o t
<1> DEFINE s == (x \o y) \o z
           m == Len(x)
           n == Len(y)
           k == Len(z)
           U(i) == IF Lower(s[i]) = "tbk" /\ Bounded(s, i, i) THEN Blank ELSE Dim(s[i])
           B == {Blank} \cup Dots
           t == [i \in 1..k |-> U(m + n + i)]
<1>1. /\ m \in Nat /\ n \in Nat /\ k \in Nat /\ s \in Seq(Texts) /\ Len(s) = m + n + k
      /\ DOMAIN y = 1..n
      /\ \A i \in 1..m : s[i] = x[i]
      /\ \A i \in 1..n : s[m + i] = y[i]
      /\ \A i \in 1..k : s[m + n + i] = z[i]
  OBVIOUS
<1>0. /\ "(persero)" \in Marks /\ Blank \in Marks /\ B \subseteq Marks /\ "tbk" \notin Marks
      /\ "(persero)" \notin B
  BY DEF Marks, Blanks, Blank, LineBreak, Dots, Comma
<1>2. Untagged(s) = [i \in 1..m + n + k |-> U(i)]
  <2>1. Untagged(s) = [i \in 1..Len(s) |-> U(i)]
    BY <1>1, UntaggedIs
  <2> QED
    BY <1>1, <2>1
<1>3. \A i \in 1..m : U(i) = Lower(x[i])
  <2> HIDE DEF s
  <2> QED
    BY <1>1 DEF Dim
<1>4. \A i \in 1..n : U(m + i) = Lower(y[i])
  <2> TAKE i \in 1..n
  <2> DEFINE j == m + i
  <2>1. s[j] = y[i] /\ j \in 1..Len(s) /\ Lower(y[i]) # "(persero)"
    BY <1>1
  <2>2. i > 1 => j > 1 /\ s[j - 1] = y[i - 1]
    <3>1. i > 1 => i - 1 \in 1..n /\ m + (i - 1) = j - 1
      BY <1>1
    <3> QED
      BY <1>1, <3>1
  <2>3. i < n => j < Len(s) /\ s[j + 1] = y[i + 1]
    <3>1. i < n => i + 1 \in 1..n /\ m + (i + 1) = j + 1
      BY <1>1
    <3> QED
      BY <1>1, <3>1
  <2> HIDE DEF j, s
  <2>4. Bounded(s, j, j) => Bounded(y, i, i)
    BY <2>2, <2>3 DEF Bounded
  <2>5. ~(Lower(y[i]) = "tbk" /\ Bounded(y, i, i))
    BY <1>1 DEF Says
  <2>6. U(j) = Lower(y[i])
    BY <2>1, <2>4, <2>5 DEF Dim
  <2> QED
    BY <2>6 DEF j
<1>5. \A i \in 1..k : U(m + n + i) \in B
  <2> TAKE i \in 1..k
  <2> DEFINE j == m + n + i
  <2>1. s[j] = z[i] /\ j \in 1..Len(s)
    BY <1>1
  <2>2. CASE z[i] \in {Blank, ".", Comma, "(persero)"}
    <3>1. z[i] \in Marks /\ Lower(z[i]) = z[i] /\ Lower(z[i]) # "tbk"
      BY <1>0, <2>2, LowerOfMark DEF Dots
    <3> HIDE DEF s, j
    <3>2. U(j) = Dim(z[i])
      BY <2>1, <3>1
    <3>3. Dim(z[i]) \in B
      BY <2>2, <3>1 DEF Dim, Dots
    <3> QED
      BY <3>2, <3>3 DEF j
  <2>3. CASE Lower(z[i]) = "tbk" /\ i > 1 /\ ~IsFragment(z[i - 1])
    <3>1. s[j - 1] = z[i - 1]
      <4>1. i - 1 \in 1..k /\ m + n + (i - 1) = j - 1
        BY <1>1, <2>3
      <4> QED
        BY <1>1, <4>1
    <3>2. IsFragment(z[i])
      BY <1>0, <2>3, LowerOfMark DEF IsFragment
    <3>3. i < k => s[j + 1] = z[i + 1] /\ ~IsFragment(z[i + 1])
      <4> SUFFICES ASSUME i < k PROVE s[j + 1] = z[i + 1] /\ ~IsFragment(z[i + 1])
        OBVIOUS
      <4>1. i + 1 \in 1..k /\ m + n + (i + 1) = j + 1 /\ (i + 1) - 1 = i
        BY <1>1
      <4>2. s[j + 1] = z[i + 1]
        BY <1>1, <4>1
      <4>3. z[i + 1] \in {Blank, ".", Comma, "(persero)"}
        BY <3>2, <4>1
      <4>4. z[i + 1] \in Marks
        BY <1>0, <4>3 DEF Dots
      <4> QED
        BY <4>2, <4>4 DEF IsFragment
    <3>4. j < Len(s) => i < k
      BY <1>1
    <3> HIDE DEF s, j
    <3>5. Bounded(s, j, j)
      BY <2>3, <3>1, <3>3, <3>4 DEF Bounded
    <3>6. U(j) = Blank
      BY <2>1, <2>3, <3>5
    <3> QED
      BY <3>6 DEF j
  <2> QED
    BY <2>2, <2>3
<1>6. t \in Seq(B)
  <2> DEFINE V(i) == U(m + n + i)
  <2>1. \A i \in 1..k : V(i) \in B
    BY <1>5
  <2>2. t = [i \in 1..k |-> V(i)]
    OBVIOUS
  <2> HIDE DEF t, V, B, k
  <2> QED
    BY <1>1, <2>1, <2>2
<1> DEFINE p == ToLower(x)
           q == ToLower(y)
           r == Untagged(s)
           C == Lows \cup B
<1>7. /\ p \in Seq(C) /\ q \in Seq(C)
  <2>1. p \in Seq(Lows) /\ q \in Seq(Lows)
    BY ToLowerType
  <2> HIDE DEF p, q
  <2> QED
    BY <2>1, SeqOfMore
<1>8. /\ Len(p) = m /\ \A i \in 1..m : p[i] = Lower(x[i])
      /\ Len(q) = n /\ \A i \in 1..n : q[i] = Lower(y[i])
  <2>1. DOMAIN x = 1..m /\ DOMAIN y = 1..n
    BY <1>1
  <2>2. p = [i \in 1..m |-> Lower(x[i])] /\ q = [i \in 1..n |-> Lower(y[i])]
    BY <2>1 DEF ToLower
  <2> QED
    BY <1>1, <2>2
<1>9. t \in Seq(C) /\ Len(t) = k /\ \A i \in 1..k : t[i] = U(m + n + i)
  <2>1. Len(t) = k
    BY <1>1
  <2>2. t \in Seq(C)
    <3> HIDE DEF t, B
    <3> QED
      BY <1>6, SeqOfMore
  <2> QED
    BY <2>1, <2>2
<1>10. r = [i \in 1..m + n + k |-> U(i)]
  BY <1>2
<1> HIDE DEF p, q, r, t, U, B, C, s, m, n, k
<1> DEFINE w == (p \o q) \o t
<1>11. /\ w \in Seq(C) /\ Len(w) = m + n + k
       /\ \A i \in 1..m : w[i] = p[i]
       /\ \A i \in 1..n : w[m + i] = q[i]
       /\ \A i \in 1..k : w[m + n + i] = t[i]
  <2>1. w \in Seq(C) /\ AreParts(w, p, q, t)
    BY <1>7, <1>9, ThreeParts
  <2> HIDE DEF w
  <2> QED
    BY <1>8, <1>9, <2>1 DEF AreParts
<1> HIDE DEF w
<1>12. \A i \in 1..m + n + k : U(i) = w[i]
  <2> TAKE i \in 1..m + n + k
  <2>1. CASE i \in 1..m
    BY <1>3, <1>8, <1>11, <2>1
  <2>2. CASE i \in m + 1..m + n
    <3>1. i - m \in 1..n /\ i = m + (i - m)
      BY <1>1, <2>2
    <3> QED
      BY <1>4, <1>8, <1>11, <3>1, SMTT(20)
  <2>3. CASE i \in m + n + 1..m + n + k
    <3>1. i - (m + n) \in 1..k /\ i = m + n + (i - (m + n))
      BY <1>1, <2>3
    <3> QED
      BY <1>9, <1>11, <3>1, SMTT(20)
  <2> QED
    BY <1>1, <2>1, <2>2, <2>3
<1>13. r = w
  <2>1. r = [i \in 1..m + n + k |-> w[i]]
    BY <1>10, <1>12
  <2>2. w = [i \in 1..m + n + k |-> w[i]]
    BY <1>11
  <2> QED
    BY <2>1, <2>2
<1> QED
  BY <1>6, <1>13 DEF p, q, r, w, B, s

LEMMA WithoutMore ==
    ASSUME NEW A, NEW set, NEW s \in Seq(A), NEW x \in A
    PROVE  /\ x \in set => Without(Append(s, x), set) = Without(s, set)
           /\ x \notin set => Without(Append(s, x), set) = Append(Without(s, set), x)
<1>1. Without(Append(s, x), set) =
         IF x \in set THEN Without(s, set) ELSE Append(Without(s, set), x)
  BY WithoutAppend
<1> QED
  BY <1>1

SplitsInto(s, u, v, set) == Without(s, set) = Without(u, set) \o Without(v, set)

LEMMA WithoutConcat ==
    ASSUME NEW A, NEW set, NEW u \in Seq(A), NEW v \in Seq(A)
    PROVE  SplitsInto(u \o v, u, v, set)
<1> DEFINE T == {t \in Seq(A) : Without(u \o t, set) = Without(u, set) \o Without(t, set)}
<1>0. Without(u, set) \in Seq(A)
  BY WithoutType
<1>1. <<>> \in T
  <2>1. u \o <<>> = u /\ Without(u, set) \o <<>> = Without(u, set)
    BY <1>0, NothingAdded
  <2>2. Without(u \o <<>>, set) = Without(u, set) \o Without(<<>>, set)
    BY <2>1, WithoutEmpty
  <2>3. <<>> \in Seq(A)
    OBVIOUS
  <2> QED
    BY <2>2, <2>3
<1>2. ASSUME NEW t \in Seq(A), NEW x \in A, t \in T PROVE Append(t, x) \in T
  <2>1. u \o Append(t, x) = Append(u \o t, x) /\ u \o t \in Seq(A) /\ Append(t, x) \in Seq(A)
    OBVIOUS
  <2> DEFINE p == Without(u, set)
             q == Without(t, set)
             w == u \o t
  <2>2. p \in Seq(A) /\ q \in Seq(A) /\ Without(w, set) = p \o q
    BY <1>0, <1>2, WithoutType
  <2>3. /\ x \in set => Without(Append(w, x), set) = p \o q /\ Without(Append(t, x), set) = q
        /\ x \notin set => /\ Without(Append(w, x), set) = Append(p \o q, x)
                           /\ Without(Append(t, x), set) = Append(q, x)
    BY <2>1, <2>2, WithoutMore, ZenonT(30)
  <2> HIDE DEF p, q, T
  <2>4. Append(p \o q, x) = p \o Append(q, x)
    <3>1. IsAfter(p, q, x)
      BY <2>2, AppendAfter
    <3> QED
      BY <3>1 DEF IsAfter
  <2>5. Without(Append(w, x), set) = p \o Without(Append(t, x), set)
    BY <2>3, <2>4
  <2> QED
    BY <2>1, <2>5 DEF T, p
<1>3. Seq(A) \subseteq T
  <2> HIDE DEF T
  <2> QED
    BY <1>1, <1>2, InductiveSeq
<1> QED
  BY <1>3 DEF SplitsInto

LEMMA BlankIsSmall ==
    /\ Blank \in Marks /\ Blank \in Texts /\ Blank \in Lows /\ {Blank} \subseteq Lows
    /\ {Blank} \subseteq Texts
BY DEF Marks, Blanks, Texts, Atoms, Lows

\* Of blanks at the beginning, nothing is kept.
LEMMA KeptLead ==
    ASSUME NEW lead \in Seq({Blank})
    PROVE  Kept(lead, Blank) = <<>> /\ lead \in Seq(Lows)
<1>1. lead \in Seq(Lows)
  BY BlankIsSmall, SeqOfMore
<1>2. <<>> \in Seq(Lows) /\ <<>> \o lead = lead
  OBVIOUS
<1>3. /\ lead = <<>> => Kept(<<>> \o lead, Blank) = Kept(<<>>, Blank)
      /\ lead # <<>> => Kept(<<>> \o lead, Blank) = Then(Kept(<<>>, Blank), Blank, Blank)
  BY <1>2, BlankIsSmall, KeptOverBlanks
<1> QED
  BY <1>1, <1>2, <1>3, KeptEmpty DEF Then

OneBetween(k, b, x) == Append(k, b) \o x = k \o (<<b>> \o x)

LEMMA AppendConcat ==
    ASSUME NEW A, NEW k \in Seq(A), NEW b \in A, NEW x \in Seq(A)
    PROVE  OneBetween(k, b, x)
<1>1. Append(k, b) = k \o <<b>> /\ <<b>> \in Seq(A)
  OBVIOUS
<1>2. (k \o <<b>>) \o x = k \o (<<b>> \o x)
  BY <1>1, ConcatAssociative
<1> QED
  BY <1>1, <1>2 DEF OneBetween

Associates(p, q, r) == (p \o q) \o r = p \o (q \o r)

LEMMA AssociatesAlways ==
    ASSUME NEW A, NEW p \in Seq(A), NEW q \in Seq(A), NEW r \in Seq(A)
    PROVE  Associates(p, q, r)
<1>1. (p \o q) \o r = p \o (q \o r)
  BY ConcatAssociative, SMTT(20)
<1> QED
  BY <1>1 DEF Associates

IsRegrouped(p, q, r, t) == p \o (q \o (r \o t)) = ((p \o q) \o r) \o t

LEMMA Regroup ==
    ASSUME NEW A, NEW p \in Seq(A), NEW q \in Seq(A), NEW r \in Seq(A), NEW t \in Seq(A)
    PROVE  IsRegrouped(p, q, r, t)
<1> DEFINE u == p \o q
           v == r \o t
<1>1. u \in Seq(A) /\ v \in Seq(A)
  OBVIOUS
<1>2. Associates(p, q, v)
  <2> HIDE DEF v
  <2> QED
    BY <1>1, AssociatesAlways
<1>3. Associates(u, r, t)
  <2> HIDE DEF u
  <2> QED
    BY <1>1, AssociatesAlways
<1>4. u \o v = p \o (q \o v) /\ (u \o r) \o t = u \o v
  <2>1. u \o v = p \o (q \o v)
    BY <1>2 DEF Associates
  <2>2. (u \o r) \o t = u \o v
    BY <1>3 DEF Associates
  <2> QED
    BY <2>1, <2>2
<1> QED
  BY <1>4 DEF IsRegrouped

\* Blanks before the words and between them come down to one between any two.
LEMMA NamesKept ==
    ASSUME NEW gap \in Seq({Blank}), gap # <<>>, NEW lead \in Seq({Blank}),
           NEW names \in Seq(Seq(Fragments) \ {<<>>}), names # <<>>
    PROVE  /\ Spaced(names, gap) \in Seq(Texts) /\ Spaced(names, <<Blank>>) \in Seq(Texts)
           /\ Kept(lead \o ToLower(Spaced(names, gap)), Blank) = ToLower(Spaced(names, <<Blank>>))
           /\ ~EndsBlank(ToLower(Spaced(names, <<Blank>>)), Blank)
<1> DEFINE W == Seq(Fragments) \ {<<>>}
           one == <<Blank>>
           P(s) == /\ Kept(lead \o ToLower(Spaced(s, gap)), Blank) = ToLower(Spaced(s, one))
                   /\ ~EndsBlank(ToLower(Spaced(s, one)), Blank)
           T == {s \in Seq(W) : s # <<>> => P(s)}
<1>1. \A x \in W : /\ x \in Seq(Texts) /\ ToLower(x) \in Seq(Lows \ {Blank})
                   /\ ToLower(x) \in Seq(Lows) /\ ToLower(x) # <<>>
  BY ToLowerWord, ToLowerType
<1>2. /\ gap \in Seq(Texts) /\ one \in Seq(Texts) /\ ToLower(gap) = gap /\ ToLower(one) = one
      /\ one \in Seq({Blank}) /\ lead \in Seq(Lows) /\ gap \in Seq(Lows) /\ one \in Seq(Lows)
  <2>1. one \in Seq({Blank})
    OBVIOUS
  <2> HIDE DEF one
  <2>2. gap \in Seq(Texts) /\ one \in Seq(Texts) /\ ToLower(gap) = gap /\ ToLower(one) = one
    BY <2>1, ToLowerBlanks
  <2>3. gap \in Seq(Lows) /\ one \in Seq(Lows) /\ lead \in Seq(Lows)
    BY <2>1, BlankIsSmall, SeqOfMore
  <2> QED
    BY <2>1, <2>2, <2>3
<1>3. \A s \in Seq(W) : /\ s \in Seq(Seq(Texts)) /\ Spaced(s, gap) \in Seq(Texts)
                        /\ Spaced(s, one) \in Seq(Texts)
  <2> SUFFICES ASSUME NEW s \in Seq(W)
               PROVE  /\ s \in Seq(Seq(Texts)) /\ Spaced(s, gap) \in Seq(Texts)
                      /\ Spaced(s, one) \in Seq(Texts)
    OBVIOUS
  <2>1. W \subseteq Seq(Texts)
    BY <1>1
  <2>2. s \in Seq(Seq(Texts))
    <3> HIDE DEF W
    <3> QED
      BY <2>1, SeqOfMore
  <2> HIDE DEF one
  <2> QED
    BY <1>2, <2>2, SpacedType
<1>4. <<>> \in T
  OBVIOUS
<1>5. ASSUME NEW s \in Seq(W), NEW x \in W, s \in T PROVE Append(s, x) \in T
  <2> DEFINE y == ToLower(x)
  <2>1. Append(s, x) \in Seq(W) /\ x \in Seq(Texts)
    BY <1>1, AppendIsSeq
  <2>2. y \in Seq(Lows \ {Blank}) /\ y \in Seq(Lows) /\ y # <<>>
    BY <1>1
  <2>3. CASE s = <<>>
    <3>1. Append(s, x) = <<x>>
      BY <2>3
    <3>2. Spaced(<<x>>, gap) = x /\ Spaced(<<x>>, one) = x
      BY <2>1, SpacedFirst
    <3> HIDE DEF y
    <3>3. /\ Kept(lead \o y, Blank) = Kept(lead, Blank) \o y
          /\ ~EndsBlank(Kept(lead, Blank) \o y, Blank)
      BY <1>2, <2>2, BlankIsSmall, KeptOverWord, ZenonT(30)
    <3>4. Kept(lead, Blank) \o y = y
      BY <2>2, KeptLead, NothingAdded
    <3>5. P(<<x>>)
      BY <3>2, <3>3, <3>4 DEF y
    <3> QED
      BY <2>1, <3>1, <3>5
  <2>4. CASE s # <<>>
    <3> DEFINE u == Spaced(s, gap)
               v == Spaced(s, one)
               l == ToLower(u)
               k == ToLower(v)
    <3>1. /\ s \in Seq(Seq(Texts)) /\ u \in Seq(Texts) /\ v \in Seq(Texts)
          /\ Kept(lead \o l, Blank) = k /\ ~EndsBlank(k, Blank)
      BY <1>3, <1>5, <2>4
    <3>2. /\ Spaced(Append(s, x), gap) = u \o (gap \o x)
          /\ Spaced(Append(s, x), one) = v \o (one \o x)
      <4> HIDE DEF one
      <4>1. Spaced(Append(s, x), gap) = u \o (gap \o x)
        BY <1>2, <2>1, <2>4, <3>1, SpacedNext, ZenonT(30)
      <4>2. Spaced(Append(s, x), one) = v \o (one \o x)
        BY <1>2, <2>1, <2>4, <3>1, SpacedNext, ZenonT(30)
      <4> QED
        BY <4>1, <4>2
    <3> HIDE DEF u, v, one
    <3>3. gap \o x \in Seq(Texts) /\ one \o x \in Seq(Texts)
      BY <1>2, <2>1, OneAfterOther
    <3>4. ToLower(u \o (gap \o x)) = l \o (gap \o y) /\ ToLower(v \o (one \o x)) = k \o (one \o y)
      <4>1. ToLower(gap \o x) = gap \o y /\ ToLower(one \o x) = one \o y
        BY <1>2, <2>1, ToLowerConcat
      <4> QED
        BY <3>1, <3>3, <4>1, ToLowerConcat
    <3>5. l \in Seq(Lows) /\ k \in Seq(Lows)
      BY <3>1, ToLowerType
    <3> HIDE DEF l, k, y
    <3>6. lead \o (l \o (gap \o y)) = ((lead \o l) \o gap) \o y
      <4>1. IsRegrouped(lead, l, gap, y)
        BY <1>2, <2>2, <3>5, Regroup
      <4> QED
        BY <4>1 DEF IsRegrouped
    <3> DEFINE m == lead \o l
    <3>7. m \in Seq(Lows) /\ m \o gap \in Seq(Lows)
      BY <1>2, <3>5, OneAfterOther
    <3> HIDE DEF m
    <3>8. Kept(m \o gap, Blank) = Then(Kept(m, Blank), Blank, Blank)
      BY <3>7, BlankIsSmall, KeptOverBlanks
    <3>9. Then(k, Blank, Blank) = Append(k, Blank)
      BY <3>1 DEF Then, EndsBlank
    <3>10. Kept(m \o gap, Blank) = Append(k, Blank)
      BY <3>1, <3>8, <3>9 DEF m
    <3>11. /\ Kept((m \o gap) \o y, Blank) = Append(k, Blank) \o y
           /\ ~EndsBlank(Append(k, Blank) \o y, Blank)
      <4> DEFINE w == m \o gap
      <4>1. w \in Seq(Lows)
        BY <3>7
      <4> HIDE DEF w
      <4>2. /\ Kept(w \o y, Blank) = Kept(w, Blank) \o y
            /\ ~EndsBlank(Kept(w, Blank) \o y, Blank)
        BY <2>2, <4>1, BlankIsSmall, KeptOverWord, ZenonT(30)
      <4> QED
        BY <3>10, <4>2 DEF w
    <3>12. Append(k, Blank) \o y = k \o (one \o y)
      <4>1. OneBetween(k, Blank, y)
        BY <2>2, <3>5, BlankIsSmall, AppendConcat
      <4> QED
        BY <4>1 DEF OneBetween, one
    <3>13. P(Append(s, x))
      BY <3>2, <3>4, <3>6, <3>11, <3>12 DEF m
    <3> QED
      BY <2>1, <3>13
  <2> QED
    BY <2>3, <2>4
<1>6. Seq(W) \subseteq T
  <2> HIDE DEF T, W
  <2> QED
    BY <1>4, <1>5, InductiveSeq
<1> QED
  BY <1>3, <1>6

\* The place of the first atom that is no blank.
LEMMA FirstWordAt ==
    ASSUME NEW A, NEW s \in Seq(A), NEW k \in 1..Len(s), s[k] \notin Blanks,
           \A i \in 1..k - 1 : s[i] \in Blanks
    PROVE  SelectInSeq(s, LAMBDA a : a \notin Blanks) = k
<1> DEFINE P == {i \in 1..Len(s) : s[i] \notin Blanks}
           n == Len(s)
           I == {i \in 1..n : i \in P}
<1>1. n \in Nat /\ k \in 1..n /\ k \in P /\ \A i \in 1..k - 1 : i \notin P
  OBVIOUS
<1>2. I = P
  OBVIOUS
<1>3. Min(I) = k
  <2> HIDE DEF P, n
  <2> QED
    BY <1>1, FirstPlace
<1>4. P # {} /\ Min(P) = k
  BY <1>1, <1>2, <1>3
<1> QED
  BY <1>4 DEF SelectInSeq

AreTwo(w, p, q) ==
    /\ Len(w) = Len(p) + Len(q)
    /\ \A i \in 1..Len(p) : w[i] = p[i]
    /\ \A i \in 1..Len(q) : w[Len(p) + i] = q[i]

LEMMA TwoParts ==
    ASSUME NEW A, NEW p \in Seq(A), NEW q \in Seq(A)
    PROVE  p \o q \in Seq(A) /\ AreTwo(p \o q, p, q)
BY DEF AreTwo

\* A legal form that is a word of its own is left out, with the blanks before it.
LEMMA LegalFormGoes ==
    ASSUME NEW g \in Seq({Blank}), NEW f \in {"pt", "cv"}, NEW v \in Seq(Lows), v # <<>>, v[1] = Blank
    PROVE  WithoutLegalForm(g \o (<<f>> \o v)) = v
<1> DEFINE C == Lows \cup {"pt", "cv"}
           s == g \o (<<f>> \o v)
           n == Len(g) + 1
           p == <<f>>
<1>1. g \in Seq(C) /\ p \in Seq(C) /\ v \in Seq(C)
  <2>1. g \in Seq(C)
    <3>1. {Blank} \subseteq C
      BY BlankIsSmall
    <3> HIDE DEF C
    <3> QED
      BY <3>1, SeqOfMore
  <2>2. v \in Seq(C)
    BY SeqOfMore
  <2>3. p \in Seq(C)
    OBVIOUS
  <2> QED
    BY <2>1, <2>2, <2>3
<1>2. Len(g) \in Nat /\ \A i \in 1..Len(g) : g[i] \in Blanks
  BY DEF Blanks
<1>3. f \notin Blanks /\ Blank \in Blanks /\ ~IsFragment(Blank)
  BY DEF Blanks, Blank, LineBreak, IsFragment, Marks
<1> HIDE DEF C
<1>4. /\ s \in Seq(C) /\ Len(s) = n + Len(v) /\ Len(v) \in Nat \ {0}
      /\ \A i \in 1..n - 1 : s[i] = g[i]
      /\ s[n] = f
      /\ \A i \in 1..Len(v) : s[n + i] = v[i]
  <2> DEFINE q == p \o v
  <2>1. /\ q \in Seq(C) /\ Len(q) = 1 + Len(v) /\ q[1] = f /\ Len(v) \in Nat \ {0}
        /\ \A i \in 1..Len(v) : q[1 + i] = v[i]
    BY <1>1
  <2> HIDE DEF q
  <2>0. g \o q \in Seq(C) /\ AreTwo(g \o q, g, q)
    BY <1>1, <2>1, TwoParts
  <2>2. /\ g \o q \in Seq(C) /\ Len(g \o q) = Len(g) + Len(q)
        /\ \A i \in 1..Len(g) : (g \o q)[i] = g[i]
        /\ \A i \in 1..Len(q) : (g \o q)[Len(g) + i] = q[i]
    BY <2>0 DEF AreTwo
  <2>3. (g \o q)[n] = f
    BY <2>1, <2>2
  <2>4. \A i \in 1..Len(v) : (g \o q)[n + i] = v[i]
    <3> TAKE i \in 1..Len(v)
    <3>1. 1 + i \in 1..Len(q) /\ Len(g) + (1 + i) = n + i
      BY <1>2, <2>1
    <3> QED
      BY <2>1, <2>2, <3>1
  <2>5. n - 1 = Len(g) /\ Len(g) + Len(q) = n + Len(v)
    BY <1>2, <2>1
  <2> QED
    BY <2>1, <2>2, <2>3, <2>4, <2>5 DEF q
<1>5. n \in 1..Len(s) /\ n < Len(s) /\ n > 0 /\ n - 1 = Len(g) /\ Len(s) \in Nat
  BY <1>2, <1>4
<1> HIDE DEF s, n
<1>6. SelectInSeq(s, LAMBDA a : a \notin Blanks) = n
  <2>1. s[n] \notin Blanks /\ \A i \in 1..n - 1 : s[i] \in Blanks
    BY <1>2, <1>3, <1>4, <1>5
  <2> QED
    BY <1>4, <1>5, <2>1, FirstWordAt
<1>7. ~IsFragment(s[n + 1])
  <2>1. 1 \in 1..Len(v)
    BY <1>4
  <2> QED
    BY <1>3, <1>4, <2>1
<1>8. WithoutLegalForm(s) = SubSeq(s, n + 1, Len(s))
  BY <1>4, <1>5, <1>6, <1>7 DEF WithoutLegalForm
<1>9. SubSeq(s, n + 1, Len(s)) = v
  <2> DEFINE r == SubSeq(s, n + 1, Len(s))
  <2>1. /\ r \in Seq(C) /\ Len(r) = Len(v)
        /\ \A i \in 1..Len(v) : r[i] = s[n + i]
    <3>1. r = [i \in 1..Len(v) |-> s[n + i]]
      <4>1. (Len(s) - (n + 1)) + 1 = Len(v) /\ \A i \in 1..Len(v) : (i + (n + 1)) - 1 = n + i
        BY <1>4, <1>5
      <4> QED
        BY <1>4, <1>5, <4>1
    <3>2. \A i \in 1..Len(v) : v[i] \in C
      BY <1>1
    <3> HIDE DEF r
    <3>3. r = [i \in 1..Len(v) |-> v[i]]
      BY <1>4, <3>1
    <3>4. r \in Seq(C) /\ Len(r) = Len(v)
      BY <1>4, <3>2, <3>3
    <3> QED
      BY <3>1, <3>4
  <2> HIDE DEF r
  <2>2. \A i \in 1..Len(r) : r[i] = v[i]
    BY <1>4, <2>1
  <2> QED
    BY <1>1, <2>1, <2>2, SeqEqual DEF r
<1> QED
  BY <1>8, <1>9 DEF s

\* A first word that is none stays.
LEMMA NoLegalForm ==
    ASSUME NEW A, NEW s \in Seq(A), s # <<>>, s[1] \notin Blanks,
           ~(s[1] \in {"pt", "cv"} /\ Bounded(s, 1, 1))
    PROVE  WithoutLegalForm(s) = s
<1>1. 1 \in 1..Len(s) /\ \A i \in 1..1 - 1 : s[i] \in Blanks
  OBVIOUS
<1>2. SelectInSeq(s, LAMBDA a : a \notin Blanks) = 1
  BY <1>1, FirstWordAt
<1>3. 1 < Len(s) => 1 + 1 = 2
  OBVIOUS
<1>4. ~(s[1] \in {"pt", "cv"} /\ (1 < Len(s) => ~IsFragment(s[1 + 1])))
  BY DEF Bounded
<1> QED
  BY <1>2, <1>4 DEF WithoutLegalForm

\* Without what is in the set, there is nothing of it left.
LEMMA WithoutLeaves ==
    ASSUME NEW A, NEW set, NEW s \in Seq(A)
    PROVE  Without(s, set) \in Seq(A \ set)
<1> DEFINE B == A \ set
           T == {t \in Seq(A) : Without(t, set) \in Seq(B)}
<1>1. <<>> \in T
  <2>1. <<>> \in Seq(A) /\ <<>> \in Seq(B)
    OBVIOUS
  <2> QED
    BY <2>1, WithoutEmpty
<1>2. ASSUME NEW t \in Seq(A), NEW x \in A, t \in T PROVE Append(t, x) \in T
  <2>1. Append(t, x) \in Seq(A)
    OBVIOUS
  <2>2. /\ x \in set => Without(Append(t, x), set) = Without(t, set)
        /\ x \notin set => Without(Append(t, x), set) = Append(Without(t, set), x)
    BY WithoutMore
  <2>3. Without(t, set) \in Seq(B) /\ (x \notin set => x \in B)
    BY <1>2
  <2> HIDE DEF B
  <2>4. x \notin set => Append(Without(t, set), x) \in Seq(B)
    BY <2>3, AppendIsSeq
  <2> QED
    BY <2>1, <2>2, <2>3, <2>4
<1>3. Seq(A) \subseteq T
  <2> HIDE DEF T
  <2> QED
    BY <1>1, <1>2, InductiveSeq
<1> QED
  BY <1>3

\* A company's name is dressed up with what the key leaves out.
IsForm(form) ==
    \/ form = <<>>
    \/ /\ \A i \in 1..Len(form) : Lower(form[i]) \notin {"tbk", "(persero)"}
       /\ \E g \in Seq({Blank}), w \in Texts, v \in Seq({Blank} \cup Dots) :
             form = g \o (<<w>> \o v) /\ Lower(w) \in {"pt", "cv"} /\ v # <<>> /\ Last(v) = Blank

IsEnding(suffix) ==
    \A i \in 1..Len(suffix) :
        \/ suffix[i] \in {Blank, ".", Comma, "(persero)"}
        \/ Lower(suffix[i]) = "tbk" /\ i > 1 /\ ~IsFragment(suffix[i - 1])

IsDressed(c) ==
    /\ c.name \in Seq(Seq(Fragments) \ {<<>>}) /\ c.name # <<>>
    /\ c.gap \in Seq({Blank}) /\ c.gap # <<>>
    /\ LacksForm(Spaced(c.name, c.gap))
    /\ c.form \in Seq(Texts) /\ IsForm(c.form)
    /\ c.suffix \in Seq(Texts) /\ IsEnding(c.suffix)

LEMMA FormHasParts ==
    ASSUME NEW form \in Seq(Texts), NEW i \in 1..Len(form), Lower(form[i]) \in {"pt", "cv"},
           \A j \in 1..i - 1 : form[j] = Blank,
           \A j \in i + 1..Len(form) : form[j] \in {Blank, ".", Comma},
           i < Len(form), Last(form) = Blank
    PROVE  IsForm(form)
<1> DEFINE n == Len(form)
           g == [j \in 1..i - 1 |-> form[j]]
           v == [j \in 1..n - i |-> form[i + j]]
           w == form[i]
           p == <<w>>
           B == {Blank} \cup Dots
<1>1. n \in Nat /\ i \in Nat \ {0} /\ i - 1 \in Nat /\ n - i \in Nat \ {0} /\ w \in Texts
  OBVIOUS
<1>2. g \in Seq({Blank}) /\ Len(g) = i - 1
  BY <1>1
<1>3. \A j \in 1..n - i : form[i + j] \in B /\ form[i + j] \in Texts
  <2> TAKE j \in 1..n - i
  <2>1. i + j \in i + 1..Len(form) /\ i + j \in 1..Len(form)
    BY <1>1, SMTT(20)
  <2> QED
    BY <2>1 DEF Dots
<1>4. v \in Seq(B) /\ v \in Seq(Texts) /\ Len(v) = n - i /\ v # <<>>
  <2> HIDE DEF B
  <2>1. v \in Seq(B) /\ v \in Seq(Texts) /\ Len(v) = n - i
    BY <1>1, <1>3
  <2> QED
    BY <1>1, <2>1
<1>5. Last(v) = Blank
  <2>1. Last(v) = v[n - i] /\ n - i \in 1..n - i /\ i + (n - i) = n
    <3>1. n - i \in 1..n - i /\ i + (n - i) = n
      BY <1>1
    <3> HIDE DEF v
    <3>2. Last(v) = v[n - i]
      BY <1>4 DEF Last
    <3> QED
      BY <3>1, <3>2
  <2>2. v[n - i] = form[n]
    BY <2>1
  <2> QED
    BY <2>1, <2>2 DEF Last
<1>6. form = g \o (p \o v)
  <2>1. g \in Seq(Texts) /\ p \in Seq(Texts) /\ Len(p) = 1 /\ p[1] = w
    <3>1. g \in Seq(Texts)
      <4> HIDE DEF g
      <4> QED
        BY <1>2, BlankIsSmall, SeqOfMore
    <3> QED
      BY <1>1, <3>1
  <2>2. \A j \in 1..i - 1 : g[j] = form[j]
    OBVIOUS
  <2>3. \A j \in 1..n - i : v[j] = form[i + j]
    OBVIOUS
  <2> DEFINE u == (g \o p) \o v
  <2> HIDE DEF g, p, v, w
  <2>4. u \in Seq(Texts) /\ AreParts(u, g, p, v)
    BY <1>4, <2>1, ThreeParts
  <2>5. g \o (p \o v) = u
    <3>1. Associates(g, p, v)
      BY <1>4, <2>1, AssociatesAlways
    <3> QED
      BY <3>1 DEF Associates
  <2> HIDE DEF u
  <2>6. /\ Len(u) = n
        /\ \A j \in 1..i - 1 : u[j] = form[j]
        /\ u[i] = form[i]
        /\ \A j \in 1..n - i : u[i + j] = form[i + j]
    <3>1. /\ Len(u) = (i - 1) + 1 + (n - i)
          /\ \A j \in 1..i - 1 : u[j] = g[j]
          /\ \A j \in 1..1 : u[(i - 1) + j] = p[j]
          /\ \A j \in 1..n - i : u[(i - 1) + 1 + j] = v[j]
      BY <1>2, <1>4, <2>1, <2>4 DEF AreParts
    <3>2. u[i] = w
      <4>1. 1 \in 1..1 /\ (i - 1) + 1 = i
        BY <1>1
      <4> QED
        BY <2>1, <3>1, <4>1
    <3>3. \A j \in 1..n - i : (i - 1) + 1 + j = i + j
      BY <1>1
    <3>4. \A j \in 1..n - i : u[i + j] = form[i + j]
      BY <2>3, <3>1, <3>3
    <3>5. \A j \in 1..i - 1 : u[j] = form[j]
      BY <2>2, <3>1
    <3>6. Len(u) = n
      BY <1>1, <3>1
    <3> QED
      BY <3>2, <3>4, <3>5, <3>6 DEF w
  <2>7. \A k \in 1..n : u[k] = form[k]
    <3> TAKE k \in 1..n
    <3>1. CASE k < i
      BY <2>6, <3>1
    <3>2. CASE k = i
      BY <2>6, <3>2
    <3>3. CASE k > i
      <4>1. k - i \in 1..n - i /\ i + (k - i) = k
        BY <1>1, <3>3
      <4> QED
        BY <2>6, <4>1
    <3> QED
      BY <1>1, <3>1, <3>2, <3>3
  <2>8. u = form
    BY <2>4, <2>6, <2>7, SeqEqual
  <2> QED
    BY <2>5, <2>8
<1>7. \A j \in 1..n : Lower(form[j]) \notin {"tbk", "(persero)"}
  <2> TAKE j \in 1..n
  <2>1. CASE j = i
    BY <2>1
  <2>2. CASE j # i
    <3>1. j \in 1..i - 1 \/ j \in i + 1..n
      BY <1>1, <2>2
    <3>2. form[j] \in {Blank, ".", Comma}
      BY <3>1
    <3>3. {Blank, ".", Comma} \subseteq Marks \ {"tbk", "(persero)"}
      BY DEF Marks, Blanks, Blank, Comma
    <3>4. form[j] \in Marks /\ form[j] \notin {"tbk", "(persero)"}
      BY <3>2, <3>3
    <3> QED
      BY <3>4, LowerOfMark
  <2> QED
    BY <2>1, <2>2
<1> HIDE DEF g, v
<1> QED
  BY <1>1, <1>2, <1>4, <1>5, <1>6, <1>7 DEF IsForm

LEMMA CompaniesAreDressed ==
    ASSUME NEW c \in {Plain.company} \cup Companies
    PROVE  IsDressed(c)
<1>1. CASE c = Plain.company
  <2> DEFINE w == <<"maju">>
  <2>1. /\ c.name = <<w>> /\ c.form = <<>> /\ c.suffix = <<>> /\ c.gap = <<Blank>>
    BY <1>1 DEF Plain
  <2>2. "maju" \in Fragments /\ "maju" \in Texts
    BY DEF Fragments, Texts, Marks, Blanks, Blank, LineBreak, Comma
  <2>3. w \in Seq(Fragments) \ {<<>>} /\ w \in Seq(Texts) /\ Len(w) = 1 /\ w[1] = "maju"
    BY <2>2, OneLong
  <2>4. Lower("maju") = "maju"
    BY DEF Lower, Lowercase
  <2> HIDE DEF w
  <2>5. Spaced(<<w>>, <<Blank>>) = w
    BY <2>3, SpacedFirst
  <2>6. LacksForm(w)
    <3>1. DOMAIN w = {1}
      BY <2>3
    <3> QED
      BY <2>3, <2>4, <3>1 DEF Says, LacksForm
  <2>7. <<w>> \in Seq(Seq(Fragments) \ {<<>>}) /\ <<w>> # <<>>
    <3> DEFINE W == Seq(Fragments) \ {<<>>}
    <3>1. w \in W
      BY <2>3
    <3> HIDE DEF W
    <3>2. <<w>> \in Seq(W)
      BY <3>1, OneLong
    <3> QED
      BY <3>2 DEF W
  <2>8. <<>> \in Seq(Texts) /\ <<Blank>> \in Seq({Blank}) /\ <<Blank>> # <<>>
    OBVIOUS
  <2>9. IsForm(<<>>) /\ IsEnding(<<>>)
    BY DEF IsForm, IsEnding
  <2> QED
    BY <2>1, <2>5, <2>6, <2>7, <2>8, <2>9 DEF IsDressed
<1>2. CASE c \in Companies
  <2>1. STRING \subseteq Texts /\ Words \subseteq Seq(Fragments) \ {<<>>}
    <3>1. STRING \subseteq Texts
      BY DEF Texts, Atoms
    <3>2. STRING \ Marks \subseteq Fragments
      BY <3>1 DEF Fragments
    <3> QED
      BY <3>1, <3>2, SeqOfMore DEF Words
  <2>2. /\ c.name \in Seq(Words) /\ c.name # <<>>
        /\ c.gap \in Seq({Blank}) /\ c.gap # <<>>
        /\ LacksForm(Spaced(c.name, c.gap))
        /\ c.form \in Seq(STRING) /\ c.suffix \in Seq(STRING)
    BY <1>2, CompanyAssumption
  <2>3. /\ c.name \in Seq(Seq(Fragments) \ {<<>>})
        /\ c.form \in Seq(Texts) /\ c.suffix \in Seq(Texts)
    BY <2>1, <2>2, SeqOfMore
  <2>4. IsForm(c.form)
    <3>1. CASE c.form = <<>>
      BY <3>1 DEF IsForm
    <3>2. CASE c.form # <<>>
      <4>1. PICK i \in DOMAIN c.form :
                  /\ Lower(c.form[i]) \in {"pt", "cv"}
                  /\ \A j \in 1 .. i - 1 : c.form[j] = Blank
                  /\ \A j \in i + 1 .. Len(c.form) : c.form[j] \in {Blank, ".", Comma}
                  /\ i < Len(c.form) /\ Last(c.form) = Blank
        BY <1>2, <3>2, CompanyAssumption
      <4>2. DOMAIN c.form = 1..Len(c.form)
        BY <2>3
      <4> QED
        BY <2>3, <4>1, <4>2, FormHasParts
    <3> QED
      BY <3>1, <3>2
  <2>5. IsEnding(c.suffix)
    <3>1. DOMAIN c.suffix = 1..Len(c.suffix)
      BY <2>3
    <3>2. \A i \in DOMAIN c.suffix :
              \/ c.suffix[i] \in {Blank, ".", Comma, "(persero)"}
              \/ Lower(c.suffix[i]) = "tbk" /\ i > 1 /\ ~IsFragment(c.suffix[i - 1])
      BY <1>2, CompanyAssumption
    <3> QED
      BY <3>1, <3>2 DEF IsEnding
  <2> QED
    BY <2>2, <2>3, <2>4, <2>5 DEF IsDressed
<1> QED
  BY <1>1, <1>2

\* A name opens with a word, and there is nothing in it but words and blanks.
LEMMA NameOpens ==
    ASSUME NEW gap \in Seq({Blank}), NEW names \in Seq(Seq(Fragments) \ {<<>>}), names # <<>>
    PROVE  /\ Spaced(names, gap) \in Seq(Fragments \cup {Blank})
           /\ Spaced(names, gap) # <<>> /\ Spaced(names, gap)[1] \in Fragments
<1> DEFINE W == Seq(Fragments) \ {<<>>}
           D == Fragments \cup {Blank}
           Opens(u) == u \in Seq(D) /\ u # <<>> /\ u[1] \in Fragments
           T == {s \in Seq(W) : s \in Seq(Seq(D)) /\ (s # <<>> => Opens(Spaced(s, gap)))}
<1>1. \A w \in W : w \in Seq(D) /\ Opens(w)
  <2> TAKE w \in W
  <2>1. w \in Seq(D)
    BY SeqOfMore
  <2>2. w # <<>> /\ w[1] \in Fragments
    OBVIOUS
  <2> QED
    BY <2>1, <2>2
<1>2. gap \in Seq(D)
  BY SeqOfMore
<1>3. <<>> \in T
  OBVIOUS
<1>4. ASSUME NEW s \in Seq(W), NEW x \in W, s \in T PROVE Append(s, x) \in T
  <2>1. s \in Seq(Seq(D)) /\ x \in Seq(D) /\ (s # <<>> => Opens(Spaced(s, gap)))
    BY <1>1, <1>4
  <2>2. Append(s, x) \in Seq(W) /\ Append(s, x) \in Seq(Seq(D))
    BY <2>1, AppendIsSeq
  <2>3. CASE s = <<>>
    <3>1. Append(s, x) = <<x>>
      BY <2>3
    <3>2. Spaced(<<x>>, gap) = x
      BY <2>1, SpacedFirst
    <3> QED
      BY <1>1, <2>2, <3>1, <3>2
  <2>4. CASE s # <<>>
    <3> DEFINE u == Spaced(s, gap)
               r == gap \o x
    <3>1. Spaced(Append(s, x), gap) = u \o r
      BY <1>2, <2>1, <2>4, SpacedNext
    <3>2. Opens(u) /\ r \in Seq(D)
      BY <1>2, <2>1, <2>4, OneAfterOther
    <3> HIDE DEF u, r, D
    <3>3. Opens(u \o r)
      <4>1. u \o r \in Seq(D) /\ AreTwo(u \o r, u, r)
        BY <3>2, TwoParts
      <4>2. Len(u) \in Nat \ {0} /\ 1 \in 1..Len(u) /\ Len(r) \in Nat
        BY <3>2
      <4>3. (u \o r)[1] = u[1] /\ Len(u \o r) # 0
        BY <4>1, <4>2 DEF AreTwo
      <4> QED
        BY <3>2, <4>1, <4>3
    <3> QED
      BY <2>2, <3>1, <3>3
  <2> QED
    BY <2>3, <2>4
<1>5. Seq(W) \subseteq T
  <2> HIDE DEF T, W
  <2> QED
    BY <1>3, <1>4, InductiveSeq
<1> QED
  BY <1>5

DashedAre(p, l, q, t) == ((p \o l) \o q) \o t = p \o ((l \o q) \o t)

LEMMA DashedAlways ==
    ASSUME NEW A, NEW p \in Seq(A), NEW l \in Seq(A), NEW q \in Seq(A), NEW t \in Seq(A)
    PROVE  DashedAre(p, l, q, t)
<1> DEFINE u == l \o q
<1>1. u \in Seq(A)
  BY OneAfterOther
<1>2. Associates(p, l, q)
  BY AssociatesAlways
<1>3. Associates(p, u, t)
  <2> HIDE DEF u
  <2> QED
    BY <1>1, AssociatesAlways
<1>4. (p \o l) \o q = p \o u
  BY <1>2 DEF Associates
<1>5. (p \o u) \o t = p \o (u \o t)
  BY <1>3 DEF Associates
<1> QED
  BY <1>4, <1>5 DEF DashedAre

\* What is left of a legal form: blanks.
LEMMA FormGoes ==
    ASSUME NEW form \in Seq(Texts), IsForm(form),
           NEW q \in Seq(Lows), NEW trail \in Seq({Blank}),
           q # <<>>, q[1] \notin Blanks, ~(q[1] \in {"pt", "cv"} /\ Bounded(q \o trail, 1, 1))
    PROVE  \E lead \in Seq({Blank}) :
              WithoutLegalForm((Without(ToLower(form), Dots) \o q) \o trail) = (lead \o q) \o trail
<1> DEFINE B == {Blank} \cup Dots
           C == Lows \cup {"pt", "cv"} \cup Dots
<1>1. trail \in Seq(Lows) /\ <<>> \in Seq({Blank}) /\ Blank \in Lows
  BY BlankIsSmall, SeqOfMore
<1>2. CASE form = <<>>
  <2>1. ToLower(form) = <<>>
    BY <1>2, NothingBare
  <2>2. Without(<<>>, Dots) \o q = q /\ <<>> \o q = q
    BY WithoutEmpty, NothingAdded
  <2> DEFINE s == q \o trail
  <2>3. s \in Seq(Lows) /\ s # <<>> /\ s[1] = q[1]
    <3>1. s \in Seq(Lows) /\ AreTwo(s, q, trail)
      BY <1>1, TwoParts
    <3>2. Len(q) \in Nat \ {0} /\ 1 \in 1..Len(q) /\ Len(trail) \in Nat
      OBVIOUS
    <3> HIDE DEF s
    <3> QED
      BY <3>1, <3>2 DEF AreTwo
  <2>4. ~(s[1] \in {"pt", "cv"} /\ Bounded(s, 1, 1))
    BY <2>3
  <2> HIDE DEF s
  <2>5. WithoutLegalForm(s) = s
    BY <2>3, <2>4, NoLegalForm
  <2> QED
    BY <1>1, <2>1, <2>2, <2>5 DEF s
<1>3. CASE form # <<>>
  <2>1. PICK g \in Seq({Blank}), w \in Texts, v \in Seq(B) :
          form = g \o (<<w>> \o v) /\ Lower(w) \in {"pt", "cv"} /\ v # <<>> /\ Last(v) = Blank
    BY <1>3 DEF IsForm
  <2> DEFINE p == <<w>>
             f == Lower(w)
             o == <<f>>
             lead == Without(v, Dots)
             F == ToLower(form)
  <2>2. \A b \in B : b \in Marks /\ b \in Texts
    BY DEF Dots, Comma, Marks, Blanks, Texts, Atoms
  <2>3. v \in Seq(Texts) /\ v \in Seq(Marks) /\ p \in Seq(Texts) /\ g \in Seq(Texts)
    BY <2>2, BlankIsSmall, OneLong, SeqOfMore
  <2>4. F = g \o (o \o v)
    <3>1. ToLower(g) = g
      BY ToLowerBlanks
    <3>2. ToLower(p) = o
      <4>1. DOMAIN p = 1..1 /\ p[1] = w
        OBVIOUS
      <4>2. ToLower(p) = [i \in 1..1 |-> f]
        BY <4>1 DEF ToLower
      <4> QED
        BY <4>2
    <3>3. ToLower(v) = v
      <4>1. DOMAIN v = 1..Len(v) /\ \A i \in 1..Len(v) : Lower(v[i]) = v[i]
        BY <2>3, LowerOfMark
      <4>2. ToLower(v) = [i \in 1..Len(v) |-> v[i]]
        BY <4>1 DEF ToLower
      <4> QED
        BY <2>3, <4>2
    <3> HIDE DEF p, o
    <3>4. p \o v \in Seq(Texts)
      BY <2>3, OneAfterOther
    <3>5. ToLower(p \o v) = o \o v
      BY <2>3, <3>2, <3>3, ToLowerConcat
    <3>6. ToLower(g \o (p \o v)) = g \o (o \o v)
      BY <2>3, <3>1, <3>4, <3>5, ToLowerConcat, ZenonT(30)
    <3> QED
      BY <2>1, <3>6 DEF p
  <2>5. g \in Seq(C) /\ o \in Seq(C) /\ v \in Seq(C) /\ q \in Seq(C) /\ trail \in Seq(C)
    <3>1. {Blank} \subseteq C /\ B \subseteq C /\ f \in C
      BY <1>1, <2>1
    <3>2. Lows \subseteq C
      OBVIOUS
    <3> HIDE DEF C, B, f
    <3> QED
      BY <3>1, <3>2, OneLong, SeqOfMore
  <2>6. Without(g, Dots) = g /\ Without(o, Dots) = o
    <3>1. Blank \notin Dots /\ f \notin Dots
      BY <2>1 DEF Dots, Comma, Blank
    <3>2. \A i \in DOMAIN g : g[i] \notin Dots
      BY <3>1
    <3>3. \A i \in DOMAIN o : o[i] \notin Dots
      BY <3>1
    <3> HIDE DEF o
    <3> QED
      BY <2>5, <3>2, <3>3, WithoutNone
  <2>7. lead \in Seq({Blank}) /\ lead # <<>>
    <3>1. B \ Dots = {Blank}
      BY DEF Dots, Comma, Blank
    <3>2. lead \in Seq({Blank})
      <4>1. lead \in Seq(B \ Dots)
        BY <2>1, WithoutLeaves
      <4> QED
        BY <3>1, <4>1
    <3>3. lead # <<>>
      <4>1. v = Append(Front(v), Blank) /\ Front(v) \in Seq(B)
        BY <2>1, SeqIsAppend
      <4>2. Blank \notin Dots /\ Blank \in B
        BY DEF Dots, Comma, Blank
      <4>3. Without(Append(Front(v), Blank), Dots) = Append(Without(Front(v), Dots), Blank)
        BY <4>1, <4>2, WithoutMore
      <4>4. Without(Front(v), Dots) \in Seq(B)
        BY <4>1, WithoutType
      <4>5. Append(Without(Front(v), Dots), Blank) # <<>>
        BY <4>2, <4>4, AppendIsSeq
      <4> QED
        BY <4>1, <4>3, <4>5
    <3> QED
      BY <3>2, <3>3
  <2>8. Without(F, Dots) = g \o (o \o lead)
    <3> HIDE DEF o
    <3>1. o \o v \in Seq(C)
      BY <2>5, OneAfterOther
    <3>2. Without(o \o v, Dots) = o \o lead
      <4>1. SplitsInto(o \o v, o, v, Dots)
        BY <2>5, WithoutConcat
      <4> QED
        BY <2>6, <4>1 DEF SplitsInto
    <3>3. Without(g \o (o \o v), Dots) = g \o (o \o lead)
      <4> DEFINE k == o \o v
      <4>1. k \in Seq(C)
        BY <3>1
      <4> HIDE DEF k
      <4>2. SplitsInto(g \o k, g, k, Dots)
        BY <2>5, <4>1, WithoutConcat
      <4>3. Without(g \o k, Dots) = g \o Without(k, Dots)
        BY <2>6, <4>2 DEF SplitsInto
      <4> QED
        BY <3>2, <4>3 DEF k
    <3> QED
      BY <2>4, <3>3
  <2> DEFINE m == (lead \o q) \o trail
             h == g \o o
  <2> HIDE DEF lead, F
  <2>9. lead \in Seq(Lows) /\ lead \in Seq(C)
    <3>1. {Blank} \subseteq C
      BY <1>1
    <3> HIDE DEF C
    <3> QED
      BY <2>7, <3>1, BlankIsSmall, SeqOfMore
  <2>10. m \in Seq(Lows) /\ m # <<>> /\ m[1] = Blank
    <3>1. m \in Seq(Lows) /\ AreParts(m, lead, q, trail)
      BY <1>1, <2>9, ThreeParts
    <3>2. /\ Len(lead) \in Nat \ {0} /\ 1 \in 1..Len(lead) /\ Len(q) \in Nat /\ Len(trail) \in Nat
          /\ lead[1] = Blank
      BY <2>7
    <3> HIDE DEF m
    <3> QED
      BY <3>1, <3>2 DEF AreParts
  <2>11. ((g \o (o \o lead)) \o q) \o trail = g \o (o \o m)
    <3> HIDE DEF o, C
    <3> DEFINE k == o \o lead
               n == lead \o q
    <3>1. k \in Seq(C) /\ n \in Seq(C)
      BY <2>5, <2>9, OneAfterOther
    <3>2. DashedAre(g, k, q, trail)
      <4> HIDE DEF k
      <4> QED
        BY <2>5, <3>1, DashedAlways
    <3>3. DashedAre(o, lead, q, trail)
      BY <2>5, <2>9, DashedAlways
    <3>4. ((g \o k) \o q) \o trail = g \o ((k \o q) \o trail)
      BY <3>2 DEF DashedAre
    <3>5. (k \o q) \o trail = o \o m
      BY <3>3 DEF DashedAre
    <3> QED
      BY <3>4, <3>5
  <2>12. WithoutLegalForm(g \o (<<f>> \o m)) = m
    <3> HIDE DEF m, f
    <3>1. f \in {"pt", "cv"}
      BY <2>1 DEF f
    <3> QED
      BY <2>10, <3>1, LegalFormGoes
  <2> QED
    BY <2>7, <2>8, <2>11, <2>12 DEF F
<1> QED
  BY <1>2, <1>3

\* The name, between what the legal form and the tags have left of themselves.
LEMMA NameIsLeft ==
    ASSUME NEW c, IsDressed(c)
    PROVE  \E lead \in Seq({Blank}), trail \in Seq({Blank}) :
              WithoutLegalForm(Without(Untagged(CompanyText(c)), Dots))
                = (lead \o ToLower(Spaced(c.name, c.gap))) \o trail
<1> DEFINE x == c.form
           y == Spaced(c.name, c.gap)
           z == c.suffix
           p == ToLower(x)
           q == ToLower(y)
           B == {Blank} \cup Dots
           C == Lows \cup Dots
           s == (x \o y) \o z
<1>1. /\ x \in Seq(Texts) /\ z \in Seq(Texts) /\ IsForm(x) /\ IsEnding(z)
      /\ LacksForm(y)
      /\ y \in Seq(Fragments \cup {Blank}) /\ y # <<>> /\ y[1] \in Fragments
  BY NameOpens DEF IsDressed
<1>2. CompanyText(c) = s
  <2>1. y \in Seq(Texts)
    BY <1>1, NamesKept DEF IsDressed
  <2> HIDE DEF x, y, z
  <2>2. Associates(x, y, z)
    BY <1>1, <2>1, AssociatesAlways
  <2> QED
    BY <2>2 DEF CompanyText, Associates, x, y, z
<1> HIDE DEF x, y, z
<1>3. y \in Seq(Texts)
  <2>1. Fragments \cup {Blank} \subseteq Texts
    BY BlankIsSmall DEF Fragments
  <2> QED
    BY <1>1, <2>1, SeqOfMore
<1>4. \A a \in Fragments \cup {Blank} : Lower(a) # "(persero)" /\ Lower(a) \notin Dots
  <2> TAKE a \in Fragments \cup {Blank}
  <2>1. "(persero)" \in Marks /\ Dots \subseteq Marks /\ Blank # "(persero)" /\ Blank \notin Dots
        /\ Blank \in Marks
    BY DEF Marks, Blanks, Blank, Dots, Comma
  <2>2. CASE a = Blank
    BY <2>1, <2>2, LowerOfMark
  <2>3. CASE a \in Fragments
    <3>1. Lower(a) \notin Marks
      BY <2>3, LowerOfMark DEF Fragments
    <3> QED
      BY <2>1, <3>1
  <2> QED
    BY <2>2, <2>3
<1>5. PICK t \in Seq(B) : Untagged(s) = (p \o q) \o t
  <2>1. \A i \in 1..Len(x) : Lower(x[i]) \notin {"tbk", "(persero)"}
    BY <1>1 DEF IsForm
  <2>2. \A i \in 1..Len(y) : Lower(y[i]) # "(persero)"
    BY <1>1, <1>4
  <2>3. ~Says(y, {"tbk"})
    BY <1>1 DEF LacksForm
  <2> HIDE DEF p, q, s, B
  <2>4. \E t \in Seq({Blank} \cup Dots) : Untagged((x \o y) \o z) = (ToLower(x) \o ToLower(y)) \o t
    BY <1>1, <1>3, <2>1, <2>2, <2>3, UntaggedParts DEF IsEnding
  <2> QED
    BY <2>4 DEF p, q, s, B
<1>6. /\ p \in Seq(Lows) /\ q \in Seq(Lows) /\ p \in Seq(C) /\ q \in Seq(C) /\ t \in Seq(C)
  <2>1. p \in Seq(Lows) /\ q \in Seq(Lows)
    BY <1>1, <1>3, ToLowerType
  <2>2. Lows \subseteq C /\ B \subseteq C
    BY BlankIsSmall
  <2> HIDE DEF p, q, C, B
  <2> QED
    BY <2>1, <2>2, SeqOfMore
<1>7. /\ DOMAIN q = 1..Len(y) /\ Len(q) = Len(y) /\ Len(y) \in Nat \ {0} /\ DOMAIN y = 1..Len(y)
      /\ \A i \in 1..Len(y) : q[i] = Lower(y[i])
  <2>1. Len(y) \in Nat \ {0} /\ DOMAIN y = 1..Len(y)
    BY <1>1
  <2>2. q = [i \in 1..Len(y) |-> Lower(y[i])]
    BY <2>1 DEF ToLower
  <2> QED
    BY <2>1, <2>2
<1> DEFINE trail == Without(t, Dots)
<1>8. trail \in Seq({Blank})
  <2>1. trail \in Seq(B \ Dots)
    BY <1>5, WithoutLeaves
  <2>2. B \ Dots = {Blank}
    BY DEF Dots, Comma, Blank
  <2> QED
    BY <2>1, <2>2
<1>9. Without(q, Dots) = q
  <2>1. \A i \in DOMAIN q : q[i] \notin Dots
    BY <1>1, <1>4, <1>7
  <2> HIDE DEF q
  <2> QED
    BY <1>6, <2>1, WithoutNone
<1> HIDE DEF p, q, trail, C, B, s
<1>10. Without((p \o q) \o t, Dots) = (Without(p, Dots) \o q) \o trail
  <2> DEFINE u == p \o q
  <2>1. u \in Seq(C)
    BY <1>6, OneAfterOther
  <2>2. SplitsInto(p \o q, p, q, Dots)
    BY <1>6, WithoutConcat
  <2>3. SplitsInto(u \o t, u, t, Dots)
    <3> HIDE DEF u
    <3> QED
      BY <1>6, <2>1, WithoutConcat
  <2>4. Without(u, Dots) = Without(p, Dots) \o q
    BY <1>9, <2>2 DEF SplitsInto
  <2>5. Without(u \o t, Dots) = Without(u, Dots) \o trail
    BY <2>3 DEF SplitsInto, trail
  <2> QED
    BY <2>4, <2>5
<1>11. q # <<>> /\ q[1] = Lower(y[1]) /\ q[1] \notin Blanks
  <2>1. 1 \in 1..Len(y)
    BY <1>7
  <2>2. Lower(y[1]) \notin Marks
    BY <1>1, LowerOfMark DEF Fragments
  <2> QED
    BY <1>7, <2>1, <2>2 DEF Marks
<1>12. ~(q[1] \in {"pt", "cv"} /\ Bounded(q \o trail, 1, 1))
  <2> SUFFICES ASSUME q[1] \in {"pt", "cv"}, Bounded(q \o trail, 1, 1) PROVE FALSE
    OBVIOUS
  <2>1. trail \in Seq(Lows)
    BY <1>8, BlankIsSmall, SeqOfMore
  <2>2. AreTwo(q \o trail, q, trail)
    BY <1>6, <2>1, TwoParts
  <2>3. Len(trail) \in Nat
    BY <2>1
  <2>4. 1 < Len(y) => ~IsFragment(q[2])
    <3> SUFFICES ASSUME 1 < Len(y) PROVE ~IsFragment(q[2])
      OBVIOUS
    <3>1. Len(q \o trail) > 1 /\ (q \o trail)[2] = q[2] /\ 1 + 1 = 2
      BY <1>7, <2>2, <2>3 DEF AreTwo
    <3> QED
      BY <3>1 DEF Bounded
  <2>5. Bounded(y, 1, 1)
    <3>1. 1 < Len(y) => q[2] = Lower(y[2]) /\ 1 + 1 = 2
      BY <1>7
    <3> QED
      BY <1>7, <2>4, <3>1, LowerOfMark DEF Bounded, IsFragment
  <2> QED
    BY <1>1, <1>11, <2>5 DEF LacksForm
<1>13. \E lead \in Seq({Blank}) :
          WithoutLegalForm((Without(ToLower(x), Dots) \o q) \o trail) = (lead \o q) \o trail
  BY <1>1, <1>6, <1>8, <1>11, <1>12, FormGoes
<1> QED
  BY <1>2, <1>5, <1>8, <1>10, <1>13 DEF p, q, x, y

\* Whatever a company's name is dressed up in, its key is the name in lower
\* case, with one blank between two words.
LEMMA CompanyKeyIsItsName ==
    ASSUME NEW c \in {Plain.company} \cup Companies
    PROVE  NormalizeCompany(CompanyText(c)) = ToLower(Spaced(c.name, <<Blank>>))
<1> DEFINE q == ToLower(Spaced(c.name, c.gap))
           k == ToLower(Spaced(c.name, <<Blank>>))
<1>1. IsDressed(c)
  BY CompaniesAreDressed
<1>2. PICK lead \in Seq({Blank}), trail \in Seq({Blank}) :
              WithoutLegalForm(Without(Untagged(CompanyText(c)), Dots)) = (lead \o q) \o trail
  BY <1>1, NameIsLeft
<1>3. Kept(lead \o q, Blank) = k /\ ~EndsBlank(k, Blank) /\ k \in Seq(Lows) /\ q \in Seq(Lows)
  <2>1. /\ Spaced(c.name, c.gap) \in Seq(Texts) /\ Spaced(c.name, <<Blank>>) \in Seq(Texts)
        /\ Kept(lead \o q, Blank) = k /\ ~EndsBlank(k, Blank)
    BY <1>1, NamesKept DEF IsDressed
  <2> QED
    BY <2>1, ToLowerType
<1> HIDE DEF q, k
<1>4. NormalizeCompany(CompanyText(c)) = Collapse((lead \o q) \o trail, Blank)
  BY <1>2 DEF NormalizeCompany, Untagged, Dots
<1> DEFINE m == lead \o q
<1>5. m \in Seq(Lows)
  <2>1. lead \in Seq(Lows)
    BY BlankIsSmall, SeqOfMore
  <2> QED
    BY <1>3, <2>1, OneAfterOther
<1> HIDE DEF m
<1>6. Kept(m, Blank) = k
  BY <1>3 DEF m
<1>7. \/ Kept(m \o trail, Blank) = k
      \/ Kept(m \o trail, Blank) = Append(k, Blank)
  <2>1. /\ trail = <<>> => Kept(m \o trail, Blank) = Kept(m, Blank)
        /\ trail # <<>> => Kept(m \o trail, Blank) = Then(Kept(m, Blank), Blank, Blank)
    BY <1>5, BlankIsSmall, KeptOverBlanks
  <2>2. Then(k, Blank, Blank) = Append(k, Blank)
    BY <1>3 DEF Then, EndsBlank
  <2> QED
    BY <1>6, <2>1, <2>2
<1>8. Trimmed(k, Blank) = k
  BY <1>3 DEF Trimmed, EndsBlank
<1>9. Trimmed(Append(k, Blank), Blank) = k
  <2>1. Append(k, Blank) # <<>> /\ Last(Append(k, Blank)) = Blank /\ Front(Append(k, Blank)) = k
    BY <1>3, BlankIsSmall, AppendIsSeq
  <2> QED
    BY <2>1 DEF Trimmed
<1>10. Collapse(m \o trail, Blank) = k
  BY <1>7, <1>8, <1>9, CollapseIsTrimmedKept
<1> QED
  BY <1>4, <1>10 DEF k, m

LEMMA TitleNameIsText ==
    ASSUME NEW t \in {Plain.title} \cup Titles
    PROVE  FlattenSeq(t.name) \in Seq(Texts)
<1>0. Fragments \subseteq Texts
  BY DEF Fragments
<1>1. t.name \in Seq(Seq(Fragments))
  <2>1. CASE t = Plain.title
    <3> DEFINE w == <<"developer">>
    <3>1. t.name = <<w>>
      BY <2>1 DEF Plain
    <3>2. "developer" \in Fragments
      BY DEF Fragments, Texts, Marks, Blanks, Blank, LineBreak, Comma
    <3>3. w \in Seq(Fragments)
      BY <3>2, OneLong
    <3> HIDE DEF w
    <3> QED
      BY <3>1, <3>3, OneLong
  <2>2. CASE t \in Titles
    <3>1. STRING \ Marks \subseteq Fragments
      BY DEF Fragments, Texts, Atoms
    <3>2. Words \subseteq Seq(Fragments)
      BY <3>1, SeqOfMore DEF Words
    <3>3. t.name \in Seq(Words)
      BY <2>2, TitleAssumption
    <3> QED
      BY <3>2, <3>3, SeqOfMore
  <2> QED
    BY <2>1, <2>2
<1>2. FlattenSeq(t.name) \in Seq(Fragments)
  BY <1>1, FlattenSeqAppend, OneLong
<1> QED
  BY <1>0, <1>2, SeqOfMore

\* However a company and a title are dressed up, the key dedup compares the
\* posting by is that of the bare names (company.go, title.go).
THEOREM IngestPresentationKeepsKey == Spec => []PresentationKeepsKey
<1>1. ASSUME IngInv PROVE PresentationKeepsKey
  <2> DEFINE c == posting.company
             t == posting.title
             u == Spaced(c.name, <<Blank>>)
             v == FlattenSeq(t.name)
  <2>1. c \in {Plain.company} \cup Companies /\ t \in {Plain.title} \cup Titles
    BY <1>1 DEF IngInv, Postings
  <2>2. row.columns.fingerprint = NormalizeCompany(CompanyText(c)) \o NormalizeTitle(TitleText(t))
    <3> DEFINE raw == Scraped(posting)
    <3>1. row.columns = Normalize(raw)
      BY <1>1 DEF IngInv, Ingested
    <3>2. raw.title = TitleText(t) /\ raw.company = CompanyText(c)
      BY DEF Scraped, ToRawJob, KalibrrJob
    <3>3. Normalize(raw).fingerprint
             = Fingerprint(NormalizeCompany(raw.company), NormalizeTitle(raw.title))
      BY DEF Normalize
    <3> QED
      BY <3>1, <3>2, <3>3 DEF Fingerprint
  <2>3. NormalizeCompany(CompanyText(c)) = ToLower(u)
    BY <2>1, CompanyKeyIsItsName
  <2>4. NormalizeTitle(TitleText(t)) = ToLower(v)
    BY <2>1, TitleKeyIsItsName
  <2>5. u \in Seq(Texts)
    <3>1. IsDressed(c)
      BY <2>1, CompaniesAreDressed
    <3>2. <<>> \in Seq({Blank})
      OBVIOUS
    <3> QED
      BY <3>1, <3>2, NamesKept DEF IsDressed
  <2>6. v \in Seq(Texts)
    BY <2>1, TitleNameIsText
  <2> HIDE DEF u, v
  <2>7. ToLower(u \o v) = ToLower(u) \o ToLower(v)
    BY <2>5, <2>6, ToLowerConcat
  <2>8. row.columns.fingerprint = ToLower(u \o v)
    BY <2>2, <2>3, <2>4, <2>7
  <2> QED
    BY <2>8 DEF PresentationKeepsKey, u, v
<1> QED
  BY <1>1, IngInvAlways, PTL
=============================================================================
