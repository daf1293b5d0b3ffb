--------------------------- MODULE KalibrrProofs ---------------------------
(***************************************************************************)
(* Theorems about KalibrrScraper, for every list of keywords, every listing *)
(* of the site and every pattern of failures.  The types hold for any       *)
(* number of goroutines; what Scrape promises of its result holds as long   *)
(* as one goroutine at a time is inside Scrape, and MCKalibrrShared is the  *)
(* counterexample for two.                                                  *)
(*                                                                          *)
(* The listing of a keyword is the concatenation of its pages, which Sums   *)
(* shows to be what FlattenSeq computes.                                    *)
(***************************************************************************)
EXTENDS KalibrrScraper, Sums

----------------------------------------------------------------------------
(* The invariants *)

Results ==
    [found : BOOLEAN, jobs : Seq(Jobs), count : Nat, err : BOOLEAN, retryable : BOOLEAN]

Labels == {"keyword", "page", "attempt", "visit", "read", "backoff", "done"}

CallerState ==
    [pc : Labels, k : 1..Len(Keywords) + 1, page : 1..MaxPages + 1,
     attempt : 0..MaxRetries - 1, visitErr : BOOLEAN, prev : Seq(Jobs),
     got : [DOMAIN Keywords -> Seq(Jobs)], errs : SUBSET (1..Len(Keywords))]

\* Inside fetchPage, and inside scrapeKeyword.
Fetching(c) == caller[c].pc \in {"attempt", "visit", "read", "backoff"}
InKeyword(c) == At(c, "page") \/ Fetching(c)

\* The bounds of the loops.
Placed(c) ==
    /\ InKeyword(c) => caller[c].k <= Len(Keywords)
    /\ Fetching(c) => caller[c].page <= MaxPages
    /\ At(c, "backoff") => caller[c].attempt < MaxRetries - 1

KInv ==
    /\ result \in Results
    /\ caller \in [Callers -> CallerState]
    /\ \A c \in Callers : Placed(c)

\* One goroutine at a time is inside Scrape.
OneCaller == \A c, d \in Callers : c = d

\* What c has of a keyword is some of its first pages; of the keywords it has
\* not come to, none.
Gathered(c, i) ==
    /\ \E n \in 0..Len(Pages[Keywords[i]]) : caller[c].got[i] = Upto(Keywords[i], n)
    /\ i > caller[c].k \/ (i = caller[c].k /\ At(c, "keyword")) => caller[c].got[i] = << >>

\* Of the keyword it is at, c has the pages before this one, and prev is the
\* last of them.
AtPage(c) ==
    InKeyword(c) =>
        LET listing == Pages[Keyword(c)]
            page == caller[c].page
        IN  /\ page <= Len(listing) + 1
            /\ caller[c].got[caller[c].k] = Upto(Keyword(c), page - 1)
            /\ caller[c].prev = IF page = 1 THEN << >> ELSE listing[page - 1]

\* The outcome of a fetch is c's own.
OwnResult(c) ==
    /\ At(c, "visit") => result = NoResult
    /\ At(c, "read") /\ result.found =>
         /\ result.jobs \in Served(Keyword(c), caller[c].page)
         /\ result.count = Count[Keyword(c)]

GInv ==
    /\ KInv
    /\ \A c \in Callers :
        /\ \A i \in DOMAIN Keywords : Gathered(c, i)
        /\ AtPage(c)
        /\ OwnResult(c)

\* Every page of a listing has a job on it that the page before it has not.
PagesAdvance ==
    \A k \in DOMAIN Pages : \A p \in 1..Len(Pages[k]) :
        /\ Pages[k][p] # << >>
        /\ p > 1 => ~(Range(Pages[k][p]) \subseteq Range(Pages[k][p - 1]))

\* Nothing is missing of what c has of keyword i.
Complete(c, i) ==
    LET kw == Keywords[i]
    IN  i \notin caller[c].errs /\ Count[kw] >= Len(FlattenSeq(Pages[kw]))
            => caller[c].got[i] = Upto(kw, Min2(MaxPages, Len(Pages[kw])))

LInv ==
    \A c \in Callers :
        /\ \A i \in DOMAIN Keywords : i < caller[c].k => Complete(c, i)
        /\ At(c, "done") => caller[c].k > Len(Keywords) \/ caller[c].errs # {}

----------------------------------------------------------------------------
(* The site *)

\* The keywords are searches of the site.
LEMMA KeywordFacts ==
    /\ Len(Keywords) \in Nat /\ DOMAIN Keywords = 1..Len(Keywords)
    /\ \A i \in DOMAIN Keywords :
        /\ Keywords[i] \in DOMAIN Pages
        /\ Pages[Keywords[i]] \in Seq(Seq(Jobs)) /\ Len(Pages[Keywords[i]]) \in Nat
        /\ Count[Keywords[i]] \in Nat
BY KalibrrAssumption, LenProperties, ElementOfSeq

\* What the site serves is the page that was asked for, or, past the last,
\* nothing or the last.
LEMMA ServedIsPage ==
    ASSUME NEW k \in DOMAIN Pages, NEW p \in Nat \ {0}, NEW jobs \in Served(k, p)
    PROVE  /\ jobs \in Seq(Jobs)
           /\ \/ p \in 1..Len(Pages[k]) /\ jobs = Pages[k][p]
              \/ p > Len(Pages[k]) /\ jobs = << >>
              \/ /\ p > Len(Pages[k]) /\ Len(Pages[k]) \in 1..Len(Pages[k])
                 /\ jobs = Pages[k][Len(Pages[k])]
<1>1. Pages[k] \in Seq(Seq(Jobs)) /\ Len(Pages[k]) \in Nat
  BY KalibrrAssumption, LenProperties
<1>2. \A q \in 1..Len(Pages[k]) : Pages[k][q] \in Seq(Jobs)
  BY <1>1, ElementOfSeq
<1>3. CASE p <= Len(Pages[k])
  <2>1. jobs = Pages[k][p] /\ p \in 1..Len(Pages[k])
    BY <1>1, <1>3 DEF Served
  <2> QED
    BY <1>2, <2>1
<1>4. CASE p > Len(Pages[k])
  <2>1. jobs = << >> \/ (Pages[k] # << >> /\ jobs = Pages[k][Len(Pages[k])])
    BY <1>1, <1>4 DEF Served, PastEnd, Last
  <2>2. Pages[k] # << >> => Len(Pages[k]) \in 1..Len(Pages[k])
    BY <1>1, EmptySeq
  <2>3. << >> \in Seq(Jobs)
    BY EmptySeq
  <2> QED
    BY <1>2, <1>4, <2>1, <2>2, <2>3
<1> QED
  BY <1>1, <1>3, <1>4

\* The first pages of a keyword, one after the other.
LEMMA UptoFacts ==
    ASSUME NEW k \in DOMAIN Pages
    PROVE  /\ Upto(k, 0) = << >>
           /\ \A n \in 0..Len(Pages[k]) : Upto(k, n) \in Seq(Jobs)
           /\ \A n \in 1..Len(Pages[k]) : Upto(k, n) = Upto(k, n - 1) \o Pages[k][n]
           /\ Upto(k, Len(Pages[k])) = FlattenSeq(Pages[k])
BY KalibrrAssumption, PrefixesConcatenate DEF Upto

\* With more pages there are more jobs, unless the pages are empty.
LEMMA UptoGrows ==
    ASSUME NEW k \in DOMAIN Pages, NEW n \in 0..Len(Pages[k]), NEW m \in n..Len(Pages[k])
    PROVE  /\ Len(Upto(k, n)) \in Nat /\ Len(Upto(k, m)) \in Nat
           /\ Len(Upto(k, n)) <= Len(Upto(k, m))
           /\ Len(Upto(k, n)) = Len(Upto(k, m)) => Upto(k, n) = Upto(k, m)
<1> DEFINE N == Len(Pages[k])
           Grows(j) == /\ Len(Upto(k, n)) <= Len(Upto(k, j))
                       /\ Len(Upto(k, n)) = Len(Upto(k, j)) => Upto(k, n) = Upto(k, j)
           T == {d \in Nat : n + d <= N => Grows(n + d)}
<1>1. N \in Nat /\ n \in Nat /\ m \in Nat /\ n <= N /\ m <= N /\ n <= m
  BY KalibrrAssumption, LenProperties
<1>2. \A j \in 0..N : Upto(k, j) \in Seq(Jobs) /\ Len(Upto(k, j)) \in Nat
  BY UptoFacts, LenProperties
<1>3. \A j \in 1..N : Pages[k][j] \in Seq(Jobs) /\ Len(Pages[k][j]) \in Nat
  BY KalibrrAssumption, ElementOfSeq, LenProperties
<1>4. 0 \in T
  <2>1. n + 0 = n
    BY <1>1
  <2>2. Len(Upto(k, n)) \in Nat
    BY <1>1, <1>2
  <2> QED
    BY <2>1, <2>2
<1>5. ASSUME NEW d \in Nat, d \in T PROVE d + 1 \in T
  <2> SUFFICES ASSUME n + (d + 1) <= N PROVE Grows(n + (d + 1))
    OBVIOUS
  <2> DEFINE j == n + d
  <2>1. /\ j \in 0..N /\ n \in 0..N /\ j + 1 \in 0..N /\ j + 1 \in 1..N
        /\ (j + 1) - 1 = j /\ n + (d + 1) = j + 1 /\ j <= N
    BY <1>1
  <2>2. Grows(j)
    BY <1>5, <2>1
  <2> HIDE DEF j
  <2>3. Upto(k, j + 1) = Upto(k, j) \o Pages[k][j + 1]
    BY <2>1, UptoFacts
  <2>4. Len(Upto(k, j + 1)) = Len(Upto(k, j)) + Len(Pages[k][j + 1])
    BY <1>2, <1>3, <2>1, <2>3, ConcatProperties
  <2>5. /\ Len(Upto(k, j)) \in Nat /\ Len(Upto(k, n)) \in Nat /\ Len(Pages[k][j + 1]) \in Nat
    BY <1>2, <1>3, <2>1
  <2>6. Len(Pages[k][j + 1]) = 0 => Upto(k, j + 1) = Upto(k, j)
    <3>1. Len(Pages[k][j + 1]) = 0 => Pages[k][j + 1] = << >>
      BY <1>3, <2>1, EmptySeq
    <3> QED
      BY <1>2, <2>1, <2>3, <3>1, ConcatEmptySeq
  <2>7. Grows(j + 1)
    BY <2>2, <2>4, <2>5, <2>6
  <2> QED
    BY <2>1, <2>7
<1>6. m - n \in T
  <2>1. m - n \in Nat
    BY <1>1
  <2> HIDE DEF T
  <2> QED
    BY <1>4, <1>5, <2>1, InductiveSet
<1>7. n + (m - n) = m
  BY <1>1
<1>8. Grows(m)
  BY <1>1, <1>6, <1>7
<1> QED
  BY <1>1, <1>2, <1>8

\* What has as many jobs as the whole listing is all of it that is walked.
LEMMA EnoughIsAll ==
    ASSUME NEW k \in DOMAIN Pages, NEW n \in 0..Len(Pages[k]), n <= MaxPages,
           n # MaxPages /\ n # Len(Pages[k]) => Len(Upto(k, n)) >= Len(FlattenSeq(Pages[k]))
    PROVE  Upto(k, n) = Upto(k, Min2(MaxPages, Len(Pages[k])))
<1> DEFINE N == Len(Pages[k])
           m == Min2(MaxPages, N)
<1>1. N \in Nat /\ MaxPages \in Nat
  BY KalibrrAssumption, LenProperties
<1>2. m \in n..N /\ N \in m..N /\ m \in 0..N
  BY <1>1 DEF Min2
<1>3. CASE n = m
  BY <1>3
<1>4. CASE n # m
  <2>1. n # MaxPages /\ n # N
    BY <1>1, <1>4 DEF Min2
  <2>2. Len(Upto(k, n)) >= Len(Upto(k, N))
    BY <2>1, UptoFacts
  <2>3. /\ Len(Upto(k, n)) \in Nat /\ Len(Upto(k, m)) \in Nat
        /\ Len(Upto(k, n)) <= Len(Upto(k, m))
        /\ Len(Upto(k, n)) = Len(Upto(k, m)) => Upto(k, n) = Upto(k, m)
    BY <1>2, UptoGrows
  <2>4. Len(Upto(k, N)) \in Nat /\ Len(Upto(k, m)) <= Len(Upto(k, N))
    BY <1>2, UptoGrows
  <2> HIDE DEF N, m
  <2>5. Upto(k, n) = Upto(k, m)
    BY <2>2, <2>3, <2>4
  <2> QED
    BY <2>5 DEF m, N
<1> QED
  BY <1>3, <1>4

----------------------------------------------------------------------------
(* What each step does to its goroutine *)

\* Only c moves.
Moves(c) ==
    /\ caller' \in [Callers -> CallerState]
    /\ \A d \in Callers \ {c} : caller'[d] = caller[d]

\* c stays where it is in its loops, with what it has.
Stays(c) ==
    /\ caller'[c].k = caller[c].k /\ caller'[c].page = caller[c].page
    /\ caller'[c].prev = caller[c].prev /\ caller'[c].got = caller[c].got
    /\ caller'[c].errs = caller[c].errs

\* c is through with its keyword, with or without an error.
Leaves(c, failed) ==
    /\ InKeyword(c)
    /\ caller'[c].pc = "keyword" /\ caller'[c].k = caller[c].k + 1
    /\ caller'[c].got = caller[c].got
    /\ caller'[c].errs = IF failed THEN caller[c].errs \cup {caller[c].k} ELSE caller[c].errs

\* A goroutine's state is replaced.
LEMMA CallerMoves ==
    ASSUME KInv, NEW c \in Callers, NEW s \in CallerState, caller' = [caller EXCEPT ![c] = s]
    PROVE  Moves(c) /\ caller'[c] = s
BY DEF KInv, Moves

\* What a goroutine's state holds.
LEMMA CallerFacts ==
    ASSUME KInv, NEW c \in Callers
    PROVE  /\ caller[c] \in CallerState /\ caller[c].pc \in Labels
           /\ caller[c].k \in 1..Len(Keywords) + 1 /\ caller[c].k \in Nat
           /\ caller[c].page \in 1..MaxPages + 1 /\ caller[c].page \in Nat \ {0}
           /\ caller[c].attempt \in 0..MaxRetries - 1
           /\ caller[c].prev \in Seq(Jobs)
           /\ caller[c].got \in [DOMAIN Keywords -> Seq(Jobs)]
           /\ caller[c].errs \subseteq 1..Len(Keywords)
           /\ InKeyword(c) => /\ caller[c].k \in DOMAIN Keywords
                              /\ Keyword(c) \in DOMAIN Pages
<1>1. caller[c] \in CallerState /\ Placed(c)
  BY DEF KInv
<1>2. /\ caller[c].pc \in Labels
      /\ caller[c].k \in 1..Len(Keywords) + 1
      /\ caller[c].page \in 1..MaxPages + 1
      /\ caller[c].attempt \in 0..MaxRetries - 1
      /\ caller[c].prev \in Seq(Jobs)
      /\ caller[c].got \in [DOMAIN Keywords -> Seq(Jobs)]
      /\ caller[c].errs \subseteq 1..Len(Keywords)
  BY <1>1 DEF CallerState
<1>3. caller[c].k \in Nat /\ caller[c].page \in Nat \ {0}
  BY <1>2, KeywordFacts, KalibrrAssumption
<1>4. InKeyword(c) => caller[c].k \in 1..Len(Keywords)
  BY <1>1, <1>2, KeywordFacts DEF Placed
<1>5. InKeyword(c) => caller[c].k \in DOMAIN Keywords /\ Keyword(c) \in DOMAIN Pages
  BY <1>4, KeywordFacts DEF Keyword
<1> QED
  BY <1>1, <1>2, <1>3, <1>5

\* scrapeKeyword returns.
LEMMA EndKeywordEffect ==
    ASSUME KInv, NEW c \in Callers, InKeyword(c), NEW failed \in BOOLEAN,
           EndKeyword(c, failed)
    PROVE  Moves(c) /\ Leaves(c, failed)
<1> DEFINE errs == IF failed THEN caller[c].errs \cup {caller[c].k} ELSE caller[c].errs
           k == caller[c].k + 1
           s == [caller[c] EXCEPT !.pc = "keyword", !.k = k, !.errs = errs]
<1>1. /\ caller[c] \in CallerState /\ caller[c].k \in 1..Len(Keywords)
      /\ caller[c].errs \subseteq 1..Len(Keywords) /\ Len(Keywords) \in Nat
  BY CallerFacts, KeywordFacts
<1>2. errs \in SUBSET (1..Len(Keywords)) /\ k \in 1..Len(Keywords) + 1
  BY <1>1
<1>3. caller' = [caller EXCEPT ![c] = s]
  BY DEF EndKeyword, KInv
<1> HIDE DEF errs, k
<1>4. s \in CallerState
  BY <1>1, <1>2 DEF CallerState, Labels
<1>5. s.pc = "keyword" /\ s.k = k /\ s.errs = errs /\ s.got = caller[c].got
  BY <1>1 DEF CallerState
<1> HIDE DEF s
<1>6. Moves(c) /\ caller'[c] = s
  BY <1>3, <1>4, CallerMoves
<1> QED
  BY <1>5, <1>6 DEF Leaves, errs, k

\* The label changes, and nothing else of the goroutine.
LEMMA GotoEffect ==
    ASSUME KInv, NEW c \in Callers, NEW label \in Labels, Goto(c, label)
    PROVE  /\ Moves(c) /\ Stays(c) /\ caller'[c].pc = label
           /\ caller'[c].attempt = caller[c].attempt
<1> DEFINE s == [caller[c] EXCEPT !.pc = label]
<1>1. caller[c] \in CallerState
  BY CallerFacts
<1>2. caller' = [caller EXCEPT ![c] = s]
  BY DEF Goto, KInv
<1>3. s \in CallerState
  BY <1>1 DEF CallerState
<1>4. /\ s.pc = label /\ s.k = caller[c].k /\ s.page = caller[c].page
      /\ s.prev = caller[c].prev /\ s.got = caller[c].got /\ s.errs = caller[c].errs
      /\ s.attempt = caller[c].attempt
  BY <1>1 DEF CallerState
<1> HIDE DEF s
<1>5. Moves(c) /\ caller'[c] = s
  BY <1>2, <1>3, CallerMoves
<1> QED
  BY <1>4, <1>5 DEF Stays

\* The loop over keywords ends, or a keyword's turn comes.
LEMMA NextKeywordEffect ==
    ASSUME KInv, NEW c \in Callers, NextKeyword(c)
    PROVE  /\ At(c, "keyword") /\ Moves(c)
           /\ caller'[c].k = caller[c].k /\ caller'[c].got = caller[c].got
           /\ \/ /\ caller'[c].pc = "done" /\ caller[c].k > Len(Keywords)
                 /\ caller'[c].errs = caller[c].errs
              \/ /\ caller'[c].pc = "done" /\ caller[c].k \in DOMAIN Keywords
                 /\ caller'[c].errs = caller[c].errs \cup {caller[c].k}
              \/ /\ caller'[c].pc = "page" /\ caller[c].k \in DOMAIN Keywords
                 /\ caller'[c].page = 1 /\ caller'[c].prev = << >>
                 /\ caller'[c].errs = caller[c].errs
<1>1. At(c, "keyword")
  BY DEF NextKeyword
<1>2. /\ caller[c] \in CallerState /\ caller[c].k \in 1..Len(Keywords) + 1
      /\ caller[c].errs \subseteq 1..Len(Keywords) /\ Len(Keywords) \in Nat
      /\ DOMAIN Keywords = 1..Len(Keywords) /\ MaxPages \in Nat \ {0}
  BY CallerFacts, KeywordFacts, KalibrrAssumption
<1>3. CASE caller[c].k > Len(Keywords)
  <2>1. Goto(c, "done") /\ "done" \in Labels
    BY <1>3 DEF NextKeyword, Labels
  <2> QED
    BY <1>1, <1>3, <2>1, GotoEffect DEF Stays
<1>4. CASE ~(caller[c].k > Len(Keywords)) /\ c \in canceled
  <2> DEFINE errs == caller[c].errs \cup {caller[c].k}
             s == [caller[c] EXCEPT !.pc = "done", !.errs = errs]
  <2>1. caller' = [caller EXCEPT ![c] = s]
    BY <1>4 DEF NextKeyword, KInv
  <2>2. errs \in SUBSET (1..Len(Keywords)) /\ caller[c].k \in DOMAIN Keywords
    BY <1>2, <1>4
  <2> HIDE DEF errs
  <2>3. s \in CallerState
    BY <1>2, <2>2 DEF CallerState, Labels
  <2>4. s.pc = "done" /\ s.k = caller[c].k /\ s.got = caller[c].got /\ s.errs = errs
    BY <1>2 DEF CallerState
  <2> HIDE DEF s
  <2>5. Moves(c) /\ caller'[c] = s
    BY <2>1, <2>3, CallerMoves
  <2> QED
    BY <1>1, <2>2, <2>4, <2>5 DEF errs
<1>5. CASE ~(caller[c].k > Len(Keywords)) /\ c \notin canceled
  <2> DEFINE s == [caller[c] EXCEPT !.pc = "page", !.page = 1, !.prev = << >>]
  <2>1. caller' = [caller EXCEPT ![c] = s]
    BY <1>5 DEF NextKeyword, KInv
  <2>2. caller[c].k \in DOMAIN Keywords
    BY <1>2, <1>5
  <2>3. << >> \in Seq(Jobs) /\ 1 \in 1..MaxPages + 1
    BY <1>2, EmptySeq
  <2>4. s \in CallerState
    BY <1>2, <2>3 DEF CallerState, Labels
  <2>5. /\ s.pc = "page" /\ s.k = caller[c].k /\ s.got = caller[c].got
        /\ s.errs = caller[c].errs /\ s.page = 1 /\ s.prev = << >>
    BY <1>2 DEF CallerState
  <2> HIDE DEF s
  <2>6. Moves(c) /\ caller'[c] = s
    BY <2>1, <2>4, CallerMoves
  <2> QED
    BY <1>1, <2>2, <2>5, <2>6
<1> QED
  BY <1>3, <1>4, <1>5

\* An attempt is about to be made, the first or the next.
LEMMA AttemptAgainEffect ==
    ASSUME KInv, NEW c \in Callers, NEW n \in 0..MaxRetries - 1,
           caller' = [caller EXCEPT ![c].pc = "attempt", ![c].attempt = n]
    PROVE  Moves(c) /\ Stays(c) /\ caller'[c].pc = "attempt"
<1> DEFINE s == [caller[c] EXCEPT !.pc = "attempt", !.attempt = n]
<1>1. caller[c] \in CallerState
  BY CallerFacts
<1>2. caller' = [caller EXCEPT ![c] = s]
  BY DEF KInv
<1>3. s \in CallerState
  BY <1>1 DEF CallerState, Labels
<1>4. /\ s.pc = "attempt" /\ s.k = caller[c].k /\ s.page = caller[c].page
      /\ s.prev = caller[c].prev /\ s.got = caller[c].got /\ s.errs = caller[c].errs
  BY <1>1 DEF CallerState
<1> HIDE DEF s
<1>5. Moves(c) /\ caller'[c] = s
  BY <1>2, <1>3, CallerMoves
<1> QED
  BY <1>4, <1>5 DEF Stays

\* The loop over pages ends, or a page's turn comes.
LEMMA NextPageEffect ==
    ASSUME KInv, NEW c \in Callers, NextPage(c)
    PROVE  /\ At(c, "page") /\ Moves(c)
           /\ \/ caller[c].page = MaxPages + 1 /\ Leaves(c, FALSE)
              \/ Leaves(c, TRUE)
              \/ /\ Stays(c) /\ caller'[c].pc = "attempt"
                 /\ caller[c].page <= MaxPages
<1>1. At(c, "page") /\ InKeyword(c)
  BY DEF NextPage, InKeyword
<1>2. /\ caller[c].page > MaxPages => caller[c].page = MaxPages + 1
      /\ ~(caller[c].page > MaxPages) => caller[c].page <= MaxPages
      /\ 0 \in 0..MaxRetries - 1
  <2>1. /\ caller[c].page \in 1..MaxPages + 1 /\ MaxPages \in Nat
        /\ MaxRetries \in Nat \ {0}
    BY CallerFacts, KalibrrAssumption
  <2> QED
    BY <2>1
<1>3. CASE caller[c].page > MaxPages
  <2>1. EndKeyword(c, FALSE)
    BY <1>3 DEF NextPage
  <2>2. Moves(c) /\ Leaves(c, FALSE)
    BY <1>1, <2>1, EndKeywordEffect
  <2> QED
    BY <1>1, <1>2, <1>3, <2>2
<1>4. CASE ~(caller[c].page > MaxPages) /\ c \in canceled
  <2>1. EndKeyword(c, TRUE)
    BY <1>4 DEF NextPage
  <2> QED
    BY <1>1, <2>1, EndKeywordEffect
<1>5. CASE ~(caller[c].page > MaxPages) /\ c \notin canceled
  <2>1. caller' = [caller EXCEPT ![c].pc = "attempt", ![c].attempt = 0]
    BY <1>5 DEF NextPage
  <2>2. Moves(c) /\ Stays(c) /\ caller'[c].pc = "attempt"
    BY <1>2, <2>1, AttemptAgainEffect
  <2> QED
    BY <1>1, <1>2, <1>5, <2>2
<1> QED
  BY <1>3, <1>4, <1>5

\* An attempt begins: result is cleared, or a done context ends the fetch.
LEMMA AttemptEffect ==
    ASSUME KInv, NEW c \in Callers, Attempt(c)
    PROVE  /\ At(c, "attempt") /\ Moves(c)
           /\ \/ Leaves(c, TRUE) /\ UNCHANGED result
              \/ Stays(c) /\ caller'[c].pc = "visit" /\ result' = NoResult
<1>1. At(c, "attempt") /\ InKeyword(c) /\ "visit" \in Labels
  BY DEF Attempt, InKeyword, Fetching, At, Labels
<1>2. CASE c \in canceled
  <2>1. EndKeyword(c, TRUE) /\ UNCHANGED result
    BY <1>2 DEF Attempt
  <2>2. Moves(c) /\ Leaves(c, TRUE)
    BY <1>1, <2>1, EndKeywordEffect
  <2> QED
    BY <1>1, <2>1, <2>2
<1>3. CASE c \notin canceled
  <2>1. Goto(c, "visit") /\ result' = NoResult
    BY <1>3 DEF Attempt
  <2>2. Moves(c) /\ Stays(c) /\ caller'[c].pc = "visit"
    BY <1>1, <2>1, GotoEffect
  <2> QED
    BY <1>1, <2>1, <2>2
<1> QED
  BY <1>2, <1>3

\* The outcomes of a request.
LEMMA OutcomeFacts ==
    /\ NoResult \in Results /\ ~NoResult.found
    /\ \A retryable \in BOOLEAN :
         Failed(retryable) \in Results /\ ~Failed(retryable).found
    /\ \A jobs \in Seq(Jobs) : \A n \in Nat :
         /\ Found(jobs, n) \in Results
         /\ Found(jobs, n).jobs = jobs /\ Found(jobs, n).count = n
<1>1. << >> \in Seq(Jobs)
  BY EmptySeq
<1> QED
  BY <1>1 DEF NoResult, Failed, Found, Results

\* The request is made: what it leaves in result is a page that was asked
\* for, or no page, or what was there.
LEMMA VisitEffect ==
    ASSUME KInv, NEW c \in Callers, Visit(c)
    PROVE  /\ At(c, "visit") /\ Moves(c) /\ Stays(c) /\ caller'[c].pc = "read"
           /\ result' \in Results
           /\ \/ UNCHANGED result
              \/ ~result'.found
              \/ /\ result'.jobs \in Served(Keyword(c), caller[c].page)
                 /\ result'.count = Count[Keyword(c)]
<1>1. At(c, "visit") /\ InKeyword(c)
  BY DEF Visit, InKeyword, Fetching, At
<1>2. PICK visitErr \in BOOLEAN :
        /\ \/ ~visitErr /\ \E jobs \in Served(Keyword(c), caller[c].page) :
                             result' = Found(jobs, Count[Keyword(c)])
           \/ ~visitErr /\ result' = Failed(FALSE)
           \/ visitErr /\ result' = Failed(TRUE)
           \/ visitErr /\ result' = Failed(FALSE)
           \/ UNCHANGED result
        /\ caller' = [caller EXCEPT ![c].pc = "read", ![c].visitErr = visitErr]
  BY DEF Visit
<1> DEFINE s == [caller[c] EXCEPT !.pc = "read", !.visitErr = visitErr]
<1>3. caller[c] \in CallerState
  BY CallerFacts
<1>4. caller' = [caller EXCEPT ![c] = s]
  BY <1>2 DEF KInv
<1>5. s \in CallerState
  BY <1>3 DEF CallerState, Labels
<1>6. /\ s.pc = "read" /\ s.k = caller[c].k /\ s.page = caller[c].page
      /\ s.prev = caller[c].prev /\ s.got = caller[c].got /\ s.errs = caller[c].errs
  BY <1>3 DEF CallerState
<1> HIDE DEF s
<1>7. Moves(c) /\ caller'[c] = s
  BY <1>4, <1>5, CallerMoves
<1>8. /\ result' \in Results
      /\ \/ UNCHANGED result
         \/ ~result'.found
         \/ /\ result'.jobs \in Served(Keyword(c), caller[c].page)
            /\ result'.count = Count[Keyword(c)]
  <2>1. CASE \E jobs \in Served(Keyword(c), caller[c].page) :
               result' = Found(jobs, Count[Keyword(c)])
    <3>1. PICK jobs \in Served(Keyword(c), caller[c].page) :
            result' = Found(jobs, Count[Keyword(c)])
      BY <2>1
    <3>2. Keyword(c) \in DOMAIN Pages /\ caller[c].page \in Nat \ {0}
      BY <1>1, CallerFacts
    <3>3. jobs \in Seq(Jobs) /\ Count[Keyword(c)] \in Nat
      BY <3>2, ServedIsPage, KalibrrAssumption
    <3> QED
      BY <3>1, <3>3, OutcomeFacts
  <2>2. CASE result' = Failed(FALSE) \/ result' = Failed(TRUE)
    BY <2>2, OutcomeFacts
  <2>3. CASE UNCHANGED result
    BY <2>3 DEF KInv
  <2> QED
    BY <1>2, <2>1, <2>2, <2>3
<1> QED
  BY <1>1, <1>6, <1>7, <1>8 DEF Stays

\* A page is taken: it ends the walk of its keyword, or is the next of it.
LEMMA HandlePageEffect ==
    ASSUME KInv, NEW c \in Callers, InKeyword(c), caller[c].page <= MaxPages,
           HandlePage(c, result.jobs, result.count)
    PROVE  LET k == caller[c].k
               got == caller[c].got[k] \o result.jobs
           IN  /\ Moves(c)
               /\ \/ /\ Leaves(c, FALSE)
                     /\ result.jobs = << >> \/ RepeatsPrevious(c, result.jobs)
                  \/ /\ result.jobs # << >> /\ ~RepeatsPrevious(c, result.jobs)
                     /\ caller'[c].got = [caller[c].got EXCEPT ![k] = got]
                     /\ caller'[c].errs = caller[c].errs
                     /\ \/ /\ caller'[c].pc = "keyword" /\ caller'[c].k = k + 1
                           /\ Len(got) >= result.count
                        \/ /\ caller'[c].pc = "page" /\ caller'[c].k = k
                           /\ caller'[c].page = caller[c].page + 1
                           /\ caller'[c].prev = result.jobs
<1> DEFINE k == caller[c].k
           got == caller[c].got[k] \o result.jobs
           all == [caller[c].got EXCEPT ![k] = got]
           page == caller[c].page + 1
           next == k + 1
<1>1. /\ caller[c] \in CallerState /\ k \in DOMAIN Keywords /\ k \in 1..Len(Keywords)
      /\ caller[c].got \in [DOMAIN Keywords -> Seq(Jobs)]
      /\ result.jobs \in Seq(Jobs) /\ next \in 1..Len(Keywords) + 1
      /\ page \in 1..MaxPages + 1
  <2>1. /\ caller[c] \in CallerState /\ k \in DOMAIN Keywords
        /\ caller[c].got \in [DOMAIN Keywords -> Seq(Jobs)]
        /\ DOMAIN Keywords = 1..Len(Keywords) /\ Len(Keywords) \in Nat
        /\ caller[c].page \in Nat \ {0} /\ MaxPages \in Nat
    BY CallerFacts, KeywordFacts, KalibrrAssumption
  <2>2. result.jobs \in Seq(Jobs)
    BY DEF KInv, Results
  <2> QED
    BY <2>1, <2>2, SMTT(30)
<1>2. all \in [DOMAIN Keywords -> Seq(Jobs)]
  <2>1. got \in Seq(Jobs)
    BY <1>1, ConcatProperties
  <2> HIDE DEF got
  <2> QED
    BY <1>1, <2>1
<1>3. CASE result.jobs = << >> \/ RepeatsPrevious(c, result.jobs)
  <2>1. EndKeyword(c, FALSE)
    BY <1>3 DEF HandlePage
  <2>2. Moves(c) /\ Leaves(c, FALSE)
    BY <2>1, EndKeywordEffect
  <2> QED
    BY <1>3, <2>2
<1>4. CASE /\ result.jobs # << >> /\ ~RepeatsPrevious(c, result.jobs)
           /\ ReachedTotal(got, result.count)
  <2> DEFINE s == [caller[c] EXCEPT !.got = all, !.pc = "keyword", !.k = next]
  <2>1. caller' = [caller EXCEPT ![c] = s]
    BY <1>4 DEF HandlePage, KInv
  <2> HIDE DEF all, next
  <2>2. s \in CallerState
    BY <1>1, <1>2 DEF CallerState, Labels
  <2>3. s.pc = "keyword" /\ s.k = next /\ s.got = all /\ s.errs = caller[c].errs
    BY <1>1 DEF CallerState
  <2> HIDE DEF s
  <2>4. Moves(c) /\ caller'[c] = s
    BY <2>1, <2>2, CallerMoves
  <2> QED
    BY <1>4, <2>3, <2>4 DEF all, next, ReachedTotal
<1>5. CASE /\ result.jobs # << >> /\ ~RepeatsPrevious(c, result.jobs)
           /\ ~ReachedTotal(got, result.count)
  <2> DEFINE s == [caller[c] EXCEPT !.got = all, !.prev = result.jobs,
                                    !.pc = "page", !.page = page]
  <2>1. caller' = [caller EXCEPT ![c] = s]
    BY <1>5 DEF HandlePage, KInv
  <2> HIDE DEF all, page
  <2>2. s \in CallerState
    BY <1>1, <1>2 DEF CallerState, Labels
  <2>3. /\ s.pc = "page" /\ s.k = k /\ s.got = all /\ s.errs = caller[c].errs
        /\ s.page = page /\ s.prev = result.jobs
    BY <1>1 DEF CallerState
  <2> HIDE DEF s
  <2>4. Moves(c) /\ caller'[c] = s
    BY <2>1, <2>2, CallerMoves
  <2> QED
    BY <1>5, <2>3, <2>4 DEF all, page
<1> QED
  BY <1>3, <1>4, <1>5

\* The outcome is read back and acted on.
LEMMA ReadEffect ==
    ASSUME KInv, NEW c \in Callers, Read(c)
    PROVE  /\ At(c, "read") /\ Moves(c) /\ UNCHANGED result
           /\ caller[c].page <= MaxPages
           /\ \/ /\ Stays(c) /\ caller'[c].pc = "backoff"
                 /\ caller'[c].attempt < MaxRetries - 1
              \/ Leaves(c, TRUE)
              \/ result.found /\ HandlePage(c, result.jobs, result.count)
<1>1. At(c, "read") /\ UNCHANGED result /\ InKeyword(c) /\ "backoff" \in Labels
  BY DEF Read, InKeyword, Fetching, At, Labels
<1>2. caller[c].page <= MaxPages
  BY <1>1 DEF KInv, Placed, Fetching, At
<1>3. CASE FetchFailed(c) /\ MayRetry(c) /\ Goto(c, "backoff")
  <2>1. /\ Moves(c) /\ Stays(c) /\ caller'[c].pc = "backoff"
        /\ caller'[c].attempt = caller[c].attempt
    BY <1>1, <1>3, GotoEffect
  <2>2. caller[c].attempt < MaxRetries - 1
    BY <1>3 DEF MayRetry
  <2> QED
    BY <1>1, <1>2, <2>1, <2>2
<1>4. CASE FetchFailed(c) /\ ~MayRetry(c) /\ EndKeyword(c, TRUE)
  <2>1. Moves(c) /\ Leaves(c, TRUE)
    BY <1>1, <1>4, EndKeywordEffect
  <2> QED
    BY <1>1, <1>2, <2>1
<1>5. CASE ~FetchFailed(c) /\ HandlePage(c, result.jobs, result.count)
  <2>1. Moves(c)
    BY <1>1, <1>2, <1>5, HandlePageEffect
  <2>2. result.found
    BY <1>5 DEF FetchFailed
  <2> QED
    BY <1>1, <1>2, <1>5, <2>1, <2>2
<1> QED
  BY <1>3, <1>4, <1>5 DEF Read

\* The sleep ends: the next attempt, unless the context is done.
LEMMA BackoffEffect ==
    ASSUME KInv, NEW c \in Callers, Backoff(c)
    PROVE  /\ At(c, "backoff") /\ Moves(c) /\ UNCHANGED result
           /\ Leaves(c, TRUE) \/ (Stays(c) /\ caller'[c].pc = "attempt")
<1>1. At(c, "backoff") /\ UNCHANGED result /\ InKeyword(c)
  BY DEF Backoff, InKeyword, Fetching, At
<1>2. CASE c \in canceled
  <2>1. EndKeyword(c, TRUE)
    BY <1>2 DEF Backoff
  <2>2. Moves(c) /\ Leaves(c, TRUE)
    BY <1>1, <2>1, EndKeywordEffect
  <2> QED
    BY <1>1, <2>2
<1>3. CASE c \notin canceled
  <2> DEFINE n == caller[c].attempt + 1
  <2>1. caller' = [caller EXCEPT ![c].pc = "attempt", ![c].attempt = n]
    BY <1>3 DEF Backoff, KInv
  <2>2. n \in 0..MaxRetries - 1
    <3>1. caller[c].attempt < MaxRetries - 1
      BY <1>1 DEF KInv, Placed
    <3>2. caller[c].attempt \in 0..MaxRetries - 1 /\ MaxRetries \in Nat \ {0}
      BY CallerFacts, KalibrrAssumption
    <3> QED
      BY <3>1, <3>2
  <2> HIDE DEF n
  <2>3. Moves(c) /\ Stays(c) /\ caller'[c].pc = "attempt"
    BY <2>1, <2>2, AttemptAgainEffect
  <2> QED
    BY <1>1, <2>3
<1> QED
  BY <1>2, <1>3

----------------------------------------------------------------------------
(* The types, for any number of goroutines *)

\* A step of c keeps the types if it keeps c's bounds.
LEMMA OwnStepKeepsKInv ==
    ASSUME KInv, NEW c \in Callers, Moves(c), result' \in Results, Placed(c)'
    PROVE  KInv'
<1>1. ASSUME NEW d \in Callers, d # c PROVE Placed(d)'
  <2>1. caller'[d] = caller[d] /\ Placed(d)
    BY <1>1 DEF Moves, KInv
  <2> QED
    BY <2>1 DEF Placed, InKeyword, Fetching, At
<1> QED
  BY <1>1 DEF KInv, Moves

\* Bounds of a goroutine that leaves its keyword, or goes on inside a page.
LEMMA PlacedAfter ==
    ASSUME KInv, NEW c \in Callers,
           \/ Leaves(c, TRUE) \/ Leaves(c, FALSE)
           \/ /\ InKeyword(c) /\ Stays(c) /\ caller[c].page <= MaxPages
              /\ caller'[c].pc \in Labels
              /\ caller'[c].pc = "backoff" => caller'[c].attempt < MaxRetries - 1
    PROVE  Placed(c)'
<1>1. CASE Leaves(c, TRUE) \/ Leaves(c, FALSE)
  BY <1>1 DEF Leaves, Placed, InKeyword, Fetching, At
<1>2. CASE /\ InKeyword(c) /\ Stays(c) /\ caller[c].page <= MaxPages
           /\ caller'[c].pc = "backoff" => caller'[c].attempt < MaxRetries - 1
  <2>1. caller[c].k <= Len(Keywords)
    BY <1>2 DEF KInv, Placed
  <2> QED
    BY <1>2, <2>1 DEF Stays, Placed, At
<1> QED
  BY <1>1, <1>2

\* Every step keeps every goroutine within the bounds of its loops.
LEMMA StepKeepsKInv ==
    ASSUME KInv, NEW c \in Callers, Step(c)
    PROVE  KInv'
<1>0. /\ result \in Results /\ NoResult \in Results
      /\ Fetching(c) => InKeyword(c) /\ caller[c].page <= MaxPages
      /\ At(c, "page") => InKeyword(c)
      /\ {"visit", "read", "attempt", "backoff"} \subseteq Labels
      /\ \A l \in {"attempt", "visit", "read", "backoff"} : At(c, l) => Fetching(c)
  BY OutcomeFacts DEF KInv, Placed, InKeyword, Fetching, At, Labels
<1>1. CASE NextKeyword(c)
  <2>1. /\ Moves(c) /\ UNCHANGED result
        /\ \/ caller'[c].pc = "done"
           \/ /\ caller'[c].pc = "page" /\ caller[c].k \in DOMAIN Keywords
              /\ caller'[c].k = caller[c].k
    BY <1>1, NextKeywordEffect DEF NextKeyword
  <2>2. caller[c].k \in DOMAIN Keywords => caller[c].k <= Len(Keywords)
    BY KeywordFacts
  <2>3. Placed(c)'
    BY <2>1, <2>2 DEF Placed, InKeyword, Fetching, At
  <2> QED
    BY <1>0, <2>1, <2>3, OwnStepKeepsKInv
<1>2. CASE NextPage(c)
  <2>1. /\ At(c, "page") /\ Moves(c)
        /\ \/ caller[c].page = MaxPages + 1 /\ Leaves(c, FALSE)
           \/ Leaves(c, TRUE)
           \/ /\ Stays(c) /\ caller'[c].pc = "attempt"
              /\ caller[c].page <= MaxPages
    BY <1>2, NextPageEffect
  <2>2. Placed(c)'
    BY <1>0, <2>1, PlacedAfter
  <2>3. UNCHANGED result
    BY <1>2 DEF NextPage
  <2> QED
    BY <1>0, <2>1, <2>2, <2>3, OwnStepKeepsKInv
<1>3. CASE Attempt(c)
  <2>1. /\ At(c, "attempt") /\ Moves(c)
        /\ \/ Leaves(c, TRUE) /\ UNCHANGED result
           \/ Stays(c) /\ caller'[c].pc = "visit" /\ result' = NoResult
    BY <1>3, AttemptEffect
  <2>2. Placed(c)'
    BY <1>0, <2>1, PlacedAfter
  <2> QED
    BY <1>0, <2>1, <2>2, OwnStepKeepsKInv
<1>4. CASE Visit(c)
  <2>1. /\ At(c, "visit") /\ Moves(c) /\ Stays(c) /\ caller'[c].pc = "read"
        /\ result' \in Results
    BY <1>4, VisitEffect
  <2>2. Placed(c)'
    BY <1>0, <2>1, PlacedAfter
  <2> QED
    BY <2>1, <2>2, OwnStepKeepsKInv
<1>5. CASE Read(c)
  <2>1. /\ At(c, "read") /\ Moves(c) /\ UNCHANGED result
        /\ caller[c].page <= MaxPages
        /\ \/ /\ Stays(c) /\ caller'[c].pc = "backoff"
              /\ caller'[c].attempt < MaxRetries - 1
           \/ Leaves(c, TRUE)
           \/ result.found /\ HandlePage(c, result.jobs, result.count)
    BY <1>5, ReadEffect
  <2>2. CASE HandlePage(c, result.jobs, result.count)
    <3>1. \/ Leaves(c, FALSE) \/ caller'[c].pc = "keyword"
          \/ caller'[c].pc = "page" /\ caller'[c].k = caller[c].k
      BY <1>0, <2>1, <2>2, HandlePageEffect
    <3>2. InKeyword(c) /\ caller[c].k <= Len(Keywords)
      BY <1>0, <2>1 DEF KInv, Placed
    <3>3. Placed(c)'
      BY <3>1, <3>2, PlacedAfter DEF Placed, InKeyword, Fetching, At
    <3> QED
      BY <1>0, <2>1, <3>3, OwnStepKeepsKInv
  <2>3. CASE Leaves(c, TRUE) \/ (Stays(c) /\ caller'[c].pc = "backoff"
                                    /\ caller'[c].attempt < MaxRetries - 1)
    <3>1. Placed(c)'
      BY <1>0, <2>1, <2>3, PlacedAfter
    <3> QED
      BY <1>0, <2>1, <3>1, OwnStepKeepsKInv
  <2> QED
    BY <2>1, <2>2, <2>3
<1>6. CASE Backoff(c)
  <2>1. /\ At(c, "backoff") /\ Moves(c) /\ UNCHANGED result
        /\ Leaves(c, TRUE) \/ (Stays(c) /\ caller'[c].pc = "attempt")
    BY <1>6, BackoffEffect
  <2>2. Placed(c)'
    BY <1>0, <2>1, PlacedAfter
  <2> QED
    BY <1>0, <2>1, <2>2, OwnStepKeepsKInv
<1> QED
  BY <1>1, <1>2, <1>3, <1>4, <1>5, <1>6 DEF Step

\* The goroutines start within their bounds.
LEMMA InitKInv == Init => KInv
<1> SUFFICES ASSUME Init PROVE KInv
  OBVIOUS
<1> DEFINE got == [k \in DOMAIN Keywords |-> << >>]
           s == [pc |-> "keyword", k |-> 1, page |-> 1, attempt |-> 0, visitErr |-> FALSE,
                 prev |-> << >>, got |-> got, errs |-> {}]
<1>1. /\ << >> \in Seq(Jobs) /\ 1 \in 1..Len(Keywords) + 1 /\ 1 \in 1..MaxPages + 1
      /\ 0 \in 0..MaxRetries - 1
  <2>1. Len(Keywords) \in Nat /\ MaxPages \in Nat /\ MaxRetries \in Nat \ {0}
    BY KeywordFacts, KalibrrAssumption
  <2> QED
    BY <2>1, EmptySeq
<1>2. got \in [DOMAIN Keywords -> Seq(Jobs)]
  BY <1>1
<1>3. caller = [c \in Callers |-> s] /\ result = NoResult
  BY DEF Init
<1> HIDE DEF got
<1>4. s \in CallerState /\ s.pc = "keyword"
  BY <1>1, <1>2 DEF CallerState, Labels
<1> HIDE DEF s
<1> QED
  BY <1>3, <1>4, OutcomeFacts DEF KInv, Placed, InKeyword, Fetching, At

\* The bounds hold in every state.
LEMMA KInvAlways == Spec => []KInv
<1>1. Init => KInv
  BY InitKInv
<1>2. KInv /\ [Next]_vars => KInv'
  <2> SUFFICES ASSUME KInv, [Next]_vars PROVE KInv'
    OBVIOUS
  <2>1. CASE UNCHANGED <<result, caller>>
    BY <2>1 DEF KInv, Placed, InKeyword, Fetching, At
  <2> QED
    BY <2>1, StepKeepsKInv DEF Next, Cancel, vars
<1> QED
  BY <1>1, <1>2, PTL DEF Spec

\* However many goroutines share the scraper, each keeps its keyword, page and
\* attempt within the bounds of its loops.
THEOREM ScraperTypeOK == Spec => []TypeOK
<1>1. KInv => TypeOK
  <2> SUFFICES ASSUME KInv PROVE TypeOK
    OBVIOUS
  <2> QED
    BY CallerFacts DEF TypeOK, Labels
<1> QED
  BY <1>1, KInvAlways, PTL

----------------------------------------------------------------------------
(* What is gathered, while one goroutine is inside Scrape *)

\* A keyword is left: what there is of it stays, and nothing is of the next.
LEMMA LeavingKeepsGathered ==
    ASSUME GInv, NEW c \in Callers, NEW failed \in BOOLEAN, Leaves(c, failed)
    PROVE  (\A i \in DOMAIN Keywords : Gathered(c, i))' /\ AtPage(c)' /\ OwnResult(c)'
<1>1. /\ caller[c].k \in Nat /\ DOMAIN Keywords = 1..Len(Keywords)
      /\ Len(Keywords) \in Nat
  BY CallerFacts, KeywordFacts DEF GInv
<1>2. ASSUME NEW i \in DOMAIN Keywords PROVE Gathered(c, i)'
  <2>1. Gathered(c, i)
    BY DEF GInv
  <2>2. i > caller[c].k + 1 \/ i = caller[c].k + 1 => i > caller[c].k
    BY <1>1
  <2> QED
    BY <2>1, <2>2 DEF Gathered, Leaves
<1>3. AtPage(c)' /\ OwnResult(c)'
  BY DEF AtPage, OwnResult, Leaves, InKeyword, Fetching, At
<1> QED
  BY <1>2, <1>3

\* Inside a page nothing is gathered.
LEMMA StayingKeepsGathered ==
    ASSUME GInv, NEW c \in Callers, InKeyword(c), Stays(c), caller'[c].pc # "keyword"
    PROVE  (\A i \in DOMAIN Keywords : Gathered(c, i))' /\ AtPage(c)'
<1>1. ASSUME NEW i \in DOMAIN Keywords PROVE Gathered(c, i)'
  <2>1. Gathered(c, i)
    BY DEF GInv
  <2> QED
    BY <2>1 DEF Gathered, Stays, At
<1>2. AtPage(c)'
  <2>1. AtPage(c)
    BY DEF GInv
  <2> QED
    BY <2>1 DEF AtPage, Stays, Keyword
<1> QED
  BY <1>1, <1>2

\* The empty sequence has nothing.
LEMMA RangeOfEmpty == Range(<< >>) = {}
BY DEF Range

\* A sequence that has nothing is empty.
LEMMA EmptyRange ==
    ASSUME NEW A, NEW s \in Seq(A), Range(s) \subseteq {}
    PROVE  s = << >>
<1>1. DOMAIN s = 1..Len(s) /\ Len(s) \in Nat
  BY LenProperties
<1>2. 1 \notin DOMAIN s
  BY DEF Range
<1> QED
  BY <1>1, <1>2, EmptySeq

\* The page that is taken is the one that was asked for.
LEMMA TakenIsNextPage ==
    ASSUME GInv, NEW c \in Callers, At(c, "read"), result.found
    PROVE  LET listing == Pages[Keyword(c)]
               page == caller[c].page
           IN  /\ result.jobs # << >> /\ ~RepeatsPrevious(c, result.jobs)
                    => page \in 1..Len(listing) /\ result.jobs = listing[page]
               /\ (result.jobs = << >> \/ RepeatsPrevious(c, result.jobs)) /\ PagesAdvance
                    => page = Len(listing) + 1
<1> DEFINE listing == Pages[Keyword(c)]
           page == caller[c].page
<1>1. /\ InKeyword(c) /\ Keyword(c) \in DOMAIN Pages /\ page \in Nat \ {0}
      /\ Len(listing) \in Nat /\ listing \in Seq(Seq(Jobs))
  <2>1. InKeyword(c)
    BY DEF InKeyword, Fetching, At
  <2>2. Keyword(c) \in DOMAIN Pages /\ page \in Nat \ {0}
    BY <2>1, CallerFacts DEF GInv
  <2> QED
    BY <2>1, <2>2, KalibrrAssumption, LenProperties
<1>2. /\ page <= Len(listing) + 1
      /\ caller[c].prev = IF page = 1 THEN << >> ELSE listing[page - 1]
  BY <1>1 DEF GInv, AtPage
<1>3. result.jobs \in Served(Keyword(c), page)
  BY DEF GInv, OwnResult
<1>4. \/ page \in 1..Len(listing) /\ result.jobs = listing[page]
      \/ page > Len(listing) /\ result.jobs = << >>
      \/ /\ page > Len(listing) /\ Len(listing) \in 1..Len(listing)
         /\ result.jobs = listing[Len(listing)]
  <2> HIDE DEF page
  <2> QED
    BY <1>1, <1>3, ServedIsPage
<1>5. CASE page \in 1..Len(listing) /\ result.jobs = listing[page]
  <2>1. ASSUME result.jobs = << >> \/ RepeatsPrevious(c, result.jobs), PagesAdvance
        PROVE  FALSE
    <3>1. /\ listing[page] # << >>
          /\ page > 1 => ~(Range(listing[page]) \subseteq Range(listing[page - 1]))
      BY <1>1, <1>5, <2>1 DEF PagesAdvance
    <3>2. page = 1
      <4>1. page # 1 => page > 1
        BY <1>1
      <4> QED
        BY <1>2, <1>5, <2>1, <3>1, <4>1 DEF RepeatsPrevious
    <3>3. Range(listing[page]) \subseteq {}
      <4>1. result.jobs = << >> \/ Range(result.jobs) \subseteq Range(<< >>)
        BY <1>2, <2>1, <3>2 DEF RepeatsPrevious
      <4> QED
        BY <1>5, <3>1, <4>1, RangeOfEmpty
    <3>4. listing[page] \in Seq(Jobs)
      BY <1>1, <1>5, ElementOfSeq
    <3> HIDE DEF listing, page
    <3> QED
      BY <3>1, <3>3, <3>4, EmptyRange
  <2> QED
    BY <1>5, <2>1
<1>6. CASE page > Len(listing)
  <2>1. page = Len(listing) + 1
    BY <1>1, <1>2, <1>6
  <2>2. ASSUME Len(listing) \in 1..Len(listing), result.jobs = listing[Len(listing)]
        PROVE  RepeatsPrevious(c, result.jobs)
    <3>1. page # 1 /\ page - 1 = Len(listing)
      BY <1>1, <2>1, <2>2
    <3> QED
      BY <1>2, <2>2, <3>1 DEF RepeatsPrevious
  <2> QED
    BY <1>1, <1>4, <1>6, <2>1, <2>2
<1> QED
  BY <1>4, <1>5, <1>6

\* A page that is taken is the next of those gathered of its keyword.
LEMMA TakingKeepsGathered ==
    ASSUME GInv, NEW c \in Callers, At(c, "read"), result.found,
           result.jobs # << >>, ~RepeatsPrevious(c, result.jobs),
           caller'[c].got = [caller[c].got EXCEPT
                               ![caller[c].k] = caller[c].got[caller[c].k] \o result.jobs],
           \/ caller'[c].pc = "keyword" /\ caller'[c].k = caller[c].k + 1
           \/ /\ caller'[c].pc = "page" /\ caller'[c].k = caller[c].k
              /\ caller'[c].page = caller[c].page + 1
              /\ caller'[c].prev = result.jobs
    PROVE  /\ (\A i \in DOMAIN Keywords : Gathered(c, i))' /\ AtPage(c)' /\ OwnResult(c)'
           /\ caller[c].page \in 1..Len(Pages[Keyword(c)])
           /\ caller'[c].got[caller[c].k] = Upto(Keyword(c), caller[c].page)
<1> DEFINE kw == Keyword(c)
           listing == Pages[kw]
           page == caller[c].page
           k == caller[c].k
<1>1. /\ InKeyword(c) /\ kw = Keywords[k] /\ kw \in DOMAIN Pages /\ k \in DOMAIN Keywords
      /\ k \in Nat /\ DOMAIN Keywords = 1..Len(Keywords) /\ Len(Keywords) \in Nat
      /\ caller[c].got \in [DOMAIN Keywords -> Seq(Jobs)]
  <2>1. InKeyword(c)
    BY DEF InKeyword, Fetching, At
  <2> QED
    BY <2>1, CallerFacts, KeywordFacts DEF GInv, Keyword
<1>2. page \in 1..Len(listing) /\ result.jobs = listing[page]
  BY TakenIsNextPage
<1>3. caller[c].got[k] = Upto(kw, page - 1)
  BY <1>1 DEF GInv, AtPage
<1>4. Upto(kw, page) = Upto(kw, page - 1) \o listing[page]
  BY <1>1, <1>2, UptoFacts
<1>5. caller'[c].got[k] = Upto(kw, page)
  <2> HIDE DEF k, page
  <2> QED
    BY <1>1, <1>2, <1>3, <1>4 DEF k
<1>6. \A i \in DOMAIN Keywords : i # k => caller'[c].got[i] = caller[c].got[i]
  BY <1>1
<1>7. Len(listing) \in Nat /\ page \in 0..Len(listing)
  <2>1. Len(listing) \in Nat
    BY <1>1, KalibrrAssumption, LenProperties
  <2> QED
    BY <1>2, <2>1
<1>8. ASSUME NEW i \in DOMAIN Keywords PROVE Gathered(c, i)'
  <2>1. Gathered(c, i)
    BY DEF GInv
  <2>2. CASE i = k
    <3>1. ~(i > caller'[c].k) /\ ~(i = caller'[c].k /\ caller'[c].pc = "keyword")
      BY <1>1, <2>2
    <3>2. \E n \in 0..Len(Pages[Keywords[i]]) : caller'[c].got[i] = Upto(Keywords[i], n)
      BY <1>1, <1>5, <1>7, <2>2, SMTT(30)
    <3> QED
      BY <3>1, <3>2 DEF Gathered, At
  <2>3. CASE i # k
    <3>1. /\ i > caller'[c].k => i > k
          /\ i = caller'[c].k /\ caller'[c].pc = "keyword" => i > k
      BY <1>1, <2>3
    <3>2. caller'[c].got[i] = caller[c].got[i]
      BY <1>6, <2>3
    <3> QED
      BY <2>1, <3>1, <3>2 DEF Gathered, At
  <2> QED
    BY <2>2, <2>3
<1>9. AtPage(c)'
  <2>1. CASE caller'[c].pc = "keyword"
    BY <2>1 DEF AtPage, InKeyword, Fetching, At
  <2>2. CASE /\ caller'[c].k = k /\ caller'[c].page = page + 1
             /\ caller'[c].prev = result.jobs
    <3> DEFINE next == page + 1
    <3>1. /\ next <= Len(listing) + 1 /\ next - 1 = page /\ next # 1
      BY <1>2, <1>7
    <3>2. caller'[c].page = next /\ Keyword(c)' = kw
      BY <1>1, <2>2 DEF Keyword
    <3> HIDE DEF next, page
    <3> QED
      BY <1>2, <1>5, <2>2, <3>1, <3>2 DEF AtPage
  <2> QED
    BY <2>1, <2>2
<1>10. OwnResult(c)'
  BY DEF OwnResult, At
<1> QED
  BY <1>2, <1>5, <1>8, <1>9, <1>10

\* The only goroutine keeps what it gathered whole.
LEMMA StepKeepsGathered ==
    ASSUME OneCaller, GInv, NEW c \in Callers, Step(c)
    PROVE  GInv'
<1>0. KInv /\ KInv'
  BY StepKeepsKInv DEF GInv
<1> SUFFICES (\A i \in DOMAIN Keywords : Gathered(c, i))' /\ AtPage(c)' /\ OwnResult(c)'
  BY <1>0 DEF GInv, OneCaller
<1>1. CASE NextKeyword(c)
  <2>1. /\ At(c, "keyword") /\ caller'[c].k = caller[c].k /\ caller'[c].got = caller[c].got
        /\ \/ caller'[c].pc = "done"
           \/ /\ caller'[c].pc = "page" /\ caller[c].k \in DOMAIN Keywords
              /\ caller'[c].page = 1 /\ caller'[c].prev = << >>
    BY <1>0, <1>1, NextKeywordEffect
  <2>2. ASSUME NEW i \in DOMAIN Keywords PROVE Gathered(c, i)'
    <3>1. Gathered(c, i)
      BY DEF GInv
    <3> QED
      BY <2>1, <3>1 DEF Gathered, At
  <2>3. AtPage(c)'
    <3>1. CASE caller'[c].pc = "done"
      BY <3>1 DEF AtPage, InKeyword, Fetching, At
    <3>2. CASE caller[c].k \in DOMAIN Keywords /\ caller'[c].page = 1
               /\ caller'[c].prev = << >>
      <4>1. Keyword(c)' = Keywords[caller[c].k]
        BY <2>1 DEF Keyword
      <4>2. /\ Keywords[caller[c].k] \in DOMAIN Pages
            /\ 1 <= Len(Pages[Keywords[caller[c].k]]) + 1
        BY <3>2, KeywordFacts
      <4>3. caller[c].got[caller[c].k] = << >>
        BY <2>1, <3>2 DEF GInv, Gathered
      <4>4. Upto(Keywords[caller[c].k], 1 - 1) = << >>
        <5>1. Keywords[caller[c].k] \in DOMAIN Pages
          BY <4>2
        <5>2. Upto(Keywords[caller[c].k], 0) = << >>
          BY <5>1, UptoFacts
        <5>3. 1 - 1 = 0
          OBVIOUS
        <5> QED
          BY <5>2, <5>3
      <4> QED
        BY <2>1, <3>2, <4>1, <4>2, <4>3, <4>4 DEF AtPage
    <3> QED
      BY <2>1, <3>1, <3>2
  <2>4. OwnResult(c)'
    BY <2>1 DEF OwnResult, At
  <2> QED
    BY <2>2, <2>3, <2>4
<1>2. CASE NextPage(c)
  <2>1. /\ At(c, "page")
        /\ \/ Leaves(c, FALSE) \/ Leaves(c, TRUE)
           \/ Stays(c) /\ caller'[c].pc = "attempt"
    BY <1>0, <1>2, NextPageEffect
  <2>2. CASE Stays(c) /\ caller'[c].pc = "attempt"
    <3>1. InKeyword(c) /\ OwnResult(c)'
      BY <2>1, <2>2 DEF InKeyword, OwnResult, At
    <3> QED
      BY <2>2, <3>1, StayingKeepsGathered
  <2> QED
    BY <2>1, <2>2, LeavingKeepsGathered
<1>3. CASE Attempt(c)
  <2>1. /\ At(c, "attempt")
        /\ \/ Leaves(c, TRUE)
           \/ Stays(c) /\ caller'[c].pc = "visit" /\ result' = NoResult
    BY <1>0, <1>3, AttemptEffect
  <2>2. CASE Stays(c) /\ caller'[c].pc = "visit" /\ result' = NoResult
    <3>1. InKeyword(c) /\ OwnResult(c)'
      BY <2>1, <2>2 DEF InKeyword, Fetching, OwnResult, At
    <3> QED
      BY <2>2, <3>1, StayingKeepsGathered
  <2> QED
    BY <2>1, <2>2, LeavingKeepsGathered
<1>4. CASE Visit(c)
  <2>1. /\ At(c, "visit") /\ Stays(c) /\ caller'[c].pc = "read"
        /\ \/ UNCHANGED result
           \/ ~result'.found
           \/ /\ result'.jobs \in Served(Keyword(c), caller[c].page)
              /\ result'.count = Count[Keyword(c)]
    BY <1>0, <1>4, VisitEffect
  <2>2. result = NoResult
    BY <2>1 DEF GInv, OwnResult
  <2>3. Keyword(c)' = Keyword(c) /\ caller'[c].page = caller[c].page
    BY <2>1 DEF Keyword, Stays
  <2>4. ~result'.found \/ /\ result'.jobs \in Served(Keyword(c), caller[c].page)
                          /\ result'.count = Count[Keyword(c)]
    BY <2>1, <2>2, OutcomeFacts
  <2>5. OwnResult(c)'
    BY <2>1, <2>3, <2>4 DEF OwnResult, At
  <2>6. InKeyword(c)
    BY <2>1 DEF InKeyword, Fetching, At
  <2> QED
    BY <2>1, <2>5, <2>6, StayingKeepsGathered
<1>5. CASE Read(c)
  <2>1. /\ At(c, "read") /\ InKeyword(c) /\ caller[c].page <= MaxPages
        /\ \/ Stays(c) /\ caller'[c].pc = "backoff"
           \/ Leaves(c, TRUE)
           \/ result.found /\ HandlePage(c, result.jobs, result.count)
    BY <1>0, <1>5, ReadEffect DEF InKeyword, Fetching, At
  <2>2. CASE Stays(c) /\ caller'[c].pc = "backoff"
    <3>1. OwnResult(c)'
      BY <2>2 DEF OwnResult, At
    <3> QED
      BY <2>1, <2>2, <3>1, StayingKeepsGathered
  <2>3. CASE result.found /\ HandlePage(c, result.jobs, result.count)
    BY <1>0, <2>1, <2>3, HandlePageEffect, LeavingKeepsGathered, TakingKeepsGathered
  <2> QED
    BY <2>1, <2>2, <2>3, LeavingKeepsGathered
<1>6. CASE Backoff(c)
  <2>1. /\ At(c, "backoff")
        /\ Leaves(c, TRUE) \/ (Stays(c) /\ caller'[c].pc = "attempt")
    BY <1>0, <1>6, BackoffEffect
  <2>2. CASE Stays(c) /\ caller'[c].pc = "attempt"
    <3>1. InKeyword(c) /\ OwnResult(c)'
      BY <2>1, <2>2 DEF InKeyword, Fetching, OwnResult, At
    <3> QED
      BY <2>2, <3>1, StayingKeepsGathered
  <2> QED
    BY <2>1, <2>2, LeavingKeepsGathered
<1> QED
  BY <1>1, <1>2, <1>3, <1>4, <1>5, <1>6 DEF Step

\* What goroutines hold of the listings, while there is one at a time.
LEMMA GInvAlways == ASSUME OneCaller PROVE Spec => []GInv
<1>1. Init => GInv
  <2> SUFFICES ASSUME Init, NEW c \in Callers
               PROVE  /\ \A i \in DOMAIN Keywords : Gathered(c, i)
                      /\ AtPage(c) /\ OwnResult(c)
    BY InitKInv DEF GInv
  <2>1. /\ caller[c].pc = "keyword"
        /\ \A i \in DOMAIN Keywords : caller[c].got[i] = << >>
    BY DEF Init
  <2>2. ASSUME NEW i \in DOMAIN Keywords PROVE Gathered(c, i)
    <3>1. Keywords[i] \in DOMAIN Pages /\ 0 \in 0..Len(Pages[Keywords[i]])
      BY KeywordFacts
    <3>2. Upto(Keywords[i], 0) = << >>
      BY <3>1, UptoFacts
    <3> QED
      BY <2>1, <3>1, <3>2 DEF Gathered
  <2> QED
    BY <2>1, <2>2 DEF AtPage, OwnResult, InKeyword, Fetching, At
<1>2. GInv /\ [Next]_vars => GInv'
  <2> SUFFICES ASSUME GInv, [Next]_vars PROVE GInv'
    OBVIOUS
  <2>1. CASE UNCHANGED <<result, caller>>
    BY <2>1 DEF GInv, KInv, Placed, Gathered, AtPage, OwnResult, InKeyword, Fetching,
                At, Keyword
  <2> QED
    BY <2>1, StepKeepsGathered DEF Next, Cancel, vars
<1> QED
  BY <1>1, <1>2, PTL DEF Spec

\* While one goroutine at a time is inside Scrape, what it has gathered for a
\* keyword is, at any moment, some number of the keyword's first pages: whatever
\* fails, is tried again, or is served past the end.
THEOREM ScraperGathersOwnPages == ASSUME OneCaller PROVE Spec => []GathersOwnPages
<1>1. GInv => GathersOwnPages
  BY DEF GInv, Gathered, GathersOwnPages
<1> QED
  BY <1>1, GInvAlways, PTL

----------------------------------------------------------------------------
(* Nothing is lost silently *)

\* scrapeKeyword returns without an error only with all that is walked.
LEMMA LeavingIsComplete ==
    ASSUME GInv, PagesAdvance, NEW c \in Callers, InKeyword(c), Leaves(c, FALSE),
           \/ caller[c].page = MaxPages + 1
           \/ /\ caller[c].page <= MaxPages /\ At(c, "read") /\ result.found
              /\ result.jobs = << >> \/ RepeatsPrevious(c, result.jobs)
    PROVE  caller'[c].got[caller[c].k] =
             Upto(Keyword(c), Min2(MaxPages, Len(Pages[Keyword(c)])))
<1> DEFINE kw == Keyword(c)
           n == caller[c].page - 1
<1>1. /\ kw \in DOMAIN Pages /\ caller[c].page \in Nat \ {0} /\ Len(Pages[kw]) \in Nat
      /\ MaxPages \in Nat
  BY CallerFacts, KalibrrAssumption, LenProperties DEF GInv
<1>2. caller[c].page <= Len(Pages[kw]) + 1 /\ caller[c].got[caller[c].k] = Upto(kw, n)
  BY DEF GInv, AtPage
<1>3. n = MaxPages \/ (n < MaxPages /\ n = Len(Pages[kw]))
  <2>1. CASE caller[c].page = MaxPages + 1
    BY <1>1, <2>1
  <2>2. CASE /\ caller[c].page <= MaxPages /\ At(c, "read") /\ result.found
             /\ result.jobs = << >> \/ RepeatsPrevious(c, result.jobs)
    <3>1. caller[c].page = Len(Pages[kw]) + 1
      BY <2>2, TakenIsNextPage
    <3> QED
      BY <1>1, <2>2, <3>1
  <2> QED
    BY <2>1, <2>2
<1>4. n \in 0..Len(Pages[kw]) /\ n <= MaxPages
  BY <1>1, <1>2, <1>3
<1> HIDE DEF n, kw
<1>5. Upto(kw, n) = Upto(kw, Min2(MaxPages, Len(Pages[kw])))
  BY <1>1, <1>3, <1>4, EnoughIsAll
<1> QED
  BY <1>2, <1>5 DEF kw, Leaves

\* The site's total, unless understated, is reached only with all of it.
LEMMA TotalIsComplete ==
    ASSUME KInv, NEW c \in Callers, InKeyword(c), caller[c].page <= MaxPages,
           caller[c].page \in 1..Len(Pages[Keyword(c)]),
           Count[Keyword(c)] >= Len(FlattenSeq(Pages[Keyword(c)])),
           Len(Upto(Keyword(c), caller[c].page)) >= Count[Keyword(c)]
    PROVE  Upto(Keyword(c), caller[c].page) =
             Upto(Keyword(c), Min2(MaxPages, Len(Pages[Keyword(c)])))
<1> DEFINE kw == Keyword(c)
           n == caller[c].page
<1>1. kw \in DOMAIN Pages /\ Len(Pages[kw]) \in Nat
  BY CallerFacts, KalibrrAssumption, LenProperties
<1>2. n \in 0..Len(Pages[kw]) /\ n <= MaxPages
  BY <1>1
<1>3. /\ Len(Upto(kw, n)) \in Nat /\ Count[kw] \in Nat
      /\ Len(FlattenSeq(Pages[kw])) \in Nat
  <2>1. Len(Pages[kw]) \in 0..Len(Pages[kw])
    BY <1>1
  <2> QED
    BY <1>1, <1>2, <2>1, UptoFacts, LenProperties, KalibrrAssumption
<1> HIDE DEF kw, n
<1>4. Len(Upto(kw, n)) >= Len(FlattenSeq(Pages[kw]))
  BY <1>3 DEF kw, n
<1> QED
  BY <1>1, <1>2, <1>4, EnoughIsAll DEF kw, n

\* Keywords that c is through with stay complete.
LEMMA KeepsComplete ==
    ASSUME LInv, KInv, NEW c \in Callers,
           \/ caller'[c].k = caller[c].k
           \/ /\ caller'[c].k = caller[c].k + 1
              /\ \A i \in DOMAIN Keywords : i = caller[c].k => Complete(c, i)',
           \A i \in DOMAIN Keywords : i # caller[c].k => caller'[c].got[i] = caller[c].got[i],
           caller[c].errs \subseteq caller'[c].errs
    PROVE  \A i \in DOMAIN Keywords : i < caller'[c].k => Complete(c, i)'
<1> SUFFICES ASSUME NEW i \in DOMAIN Keywords, i < caller'[c].k PROVE Complete(c, i)'
  OBVIOUS
<1>1. caller[c].k \in Nat /\ i \in Nat
  BY CallerFacts, KeywordFacts
<1>2. CASE i < caller[c].k
  <2>1. Complete(c, i) /\ caller'[c].got[i] = caller[c].got[i]
    BY <1>1, <1>2 DEF LInv
  <2> QED
    BY <2>1 DEF Complete
<1>3. CASE ~(i < caller[c].k)
  <2>1. i = caller[c].k /\ caller'[c].k # caller[c].k
    BY <1>1, <1>3
  <2>2. \A j \in DOMAIN Keywords : j = caller[c].k => Complete(c, j)'
    BY <2>1
  <2> QED
    BY <2>1, <2>2
<1> QED
  BY <1>2, <1>3

\* The only goroutine is through with a keyword, and reports no error for it,
\* only when nothing of it is missing.
LEMMA StepKeepsComplete ==
    ASSUME OneCaller, PagesAdvance, GInv, LInv, NEW c \in Callers, Step(c)
    PROVE  LInv'
<1>0. KInv /\ \A i \in DOMAIN Keywords : i # caller[c].k <=> ~(i = caller[c].k)
  BY DEF GInv
<1> SUFFICES /\ \A i \in DOMAIN Keywords : i < caller'[c].k => Complete(c, i)'
             /\ caller'[c].pc = "done" =>
                  caller'[c].k > Len(Keywords) \/ caller'[c].errs # {}
  BY DEF LInv, OneCaller, At
<1>1. ASSUME Leaves(c, TRUE)
      PROVE  /\ \A i \in DOMAIN Keywords : i < caller'[c].k => Complete(c, i)'
             /\ caller'[c].pc # "done"
  <2>1. \A i \in DOMAIN Keywords : i = caller[c].k => Complete(c, i)'
    BY <1>1 DEF Leaves, Complete
  <2>2. /\ caller'[c].k = caller[c].k + 1 /\ caller'[c].pc # "done"
        /\ caller[c].errs \subseteq caller'[c].errs
        /\ \A i \in DOMAIN Keywords : caller'[c].got[i] = caller[c].got[i]
    BY <1>1 DEF Leaves
  <2> QED
    BY <1>0, <2>1, <2>2, KeepsComplete
<1>2. ASSUME InKeyword(c), Leaves(c, FALSE),
             \/ caller[c].page = MaxPages + 1
             \/ /\ caller[c].page <= MaxPages /\ At(c, "read") /\ result.found
                /\ result.jobs = << >> \/ RepeatsPrevious(c, result.jobs)
      PROVE  /\ \A i \in DOMAIN Keywords : i < caller'[c].k => Complete(c, i)'
             /\ caller'[c].pc # "done"
  <2>1. caller'[c].got[caller[c].k] =
          Upto(Keyword(c), Min2(MaxPages, Len(Pages[Keyword(c)])))
    BY <1>2, LeavingIsComplete
  <2>2. \A i \in DOMAIN Keywords : i = caller[c].k => Complete(c, i)'
    BY <2>1 DEF Complete, Keyword
  <2>3. /\ caller'[c].k = caller[c].k + 1 /\ caller'[c].pc # "done"
        /\ caller[c].errs \subseteq caller'[c].errs
        /\ \A i \in DOMAIN Keywords : caller'[c].got[i] = caller[c].got[i]
    BY <1>2 DEF Leaves
  <2> QED
    BY <1>0, <2>2, <2>3, KeepsComplete
<1>3. ASSUME Stays(c)
      PROVE  \A i \in DOMAIN Keywords : i < caller'[c].k => Complete(c, i)'
  <2>1. /\ caller'[c].k = caller[c].k /\ caller[c].errs \subseteq caller'[c].errs
        /\ \A i \in DOMAIN Keywords : caller'[c].got[i] = caller[c].got[i]
    BY <1>3 DEF Stays
  <2> QED
    BY <1>0, <2>1, KeepsComplete
<1>4. CASE NextKeyword(c)
  <2>1. /\ caller'[c].k = caller[c].k /\ caller'[c].got = caller[c].got
        /\ caller[c].errs \subseteq caller'[c].errs
        /\ caller'[c].pc = "done" =>
             caller'[c].k > Len(Keywords) \/ caller'[c].errs # {}
    BY <1>0, <1>4, NextKeywordEffect
  <2> QED
    BY <1>0, <2>1, KeepsComplete
<1>5. CASE NextPage(c)
  <2>1. /\ At(c, "page")
        /\ \/ caller[c].page = MaxPages + 1 /\ Leaves(c, FALSE)
           \/ Leaves(c, TRUE)
           \/ Stays(c) /\ caller'[c].pc = "attempt"
    BY <1>0, <1>5, NextPageEffect
  <2>2. InKeyword(c)
    BY <2>1 DEF InKeyword
  <2> QED
    BY <1>1, <1>2, <1>3, <2>1, <2>2
<1>6. CASE Attempt(c)
  <2>1. Leaves(c, TRUE) \/ (Stays(c) /\ caller'[c].pc = "visit")
    BY <1>0, <1>6, AttemptEffect
  <2> QED
    BY <1>1, <1>3, <2>1
<1>7. CASE Visit(c)
  <2>1. Stays(c) /\ caller'[c].pc = "read"
    BY <1>0, <1>7, VisitEffect
  <2> QED
    BY <1>3, <2>1
<1>8. CASE Read(c)
  <2>1. /\ At(c, "read") /\ InKeyword(c) /\ caller[c].page <= MaxPages
        /\ \/ Stays(c) /\ caller'[c].pc = "backoff"
           \/ Leaves(c, TRUE)
           \/ result.found /\ HandlePage(c, result.jobs, result.count)
    BY <1>0, <1>8, ReadEffect DEF InKeyword, Fetching, At
  <2>2. CASE result.found /\ HandlePage(c, result.jobs, result.count)
    <3> DEFINE k == caller[c].k
               got == caller[c].got[k] \o result.jobs
               all == [caller[c].got EXCEPT ![k] = got]
    <3>1. \/ /\ Leaves(c, FALSE)
             /\ result.jobs = << >> \/ RepeatsPrevious(c, result.jobs)
          \/ /\ result.jobs # << >> /\ ~RepeatsPrevious(c, result.jobs)
             /\ caller'[c].got = all /\ caller'[c].errs = caller[c].errs
             /\ \/ /\ caller'[c].pc = "keyword" /\ caller'[c].k = k + 1
                   /\ Len(got) >= result.count
                \/ /\ caller'[c].pc = "page" /\ caller'[c].k = k
                   /\ caller'[c].page = caller[c].page + 1
                   /\ caller'[c].prev = result.jobs
      BY <1>0, <2>1, <2>2, HandlePageEffect
    <3>2. CASE /\ Leaves(c, FALSE)
               /\ result.jobs = << >> \/ RepeatsPrevious(c, result.jobs)
      BY <1>2, <2>1, <2>2, <3>2
    <3>3. CASE /\ result.jobs # << >> /\ ~RepeatsPrevious(c, result.jobs)
               /\ caller'[c].got = all /\ caller'[c].errs = caller[c].errs
               /\ \/ /\ caller'[c].pc = "keyword" /\ caller'[c].k = k + 1
                     /\ Len(got) >= result.count
                  \/ /\ caller'[c].pc = "page" /\ caller'[c].k = k
                     /\ caller'[c].page = caller[c].page + 1
                     /\ caller'[c].prev = result.jobs
      <4>1. /\ caller[c].page \in 1..Len(Pages[Keyword(c)])
            /\ caller'[c].got[k] = Upto(Keyword(c), caller[c].page)
        BY <2>1, <2>2, <3>3, TakingKeepsGathered
      <4>2. /\ \A i \in DOMAIN Keywords : i # k => caller'[c].got[i] = caller[c].got[i]
            /\ caller'[c].got[k] = got
        <5>1. /\ caller[c].got \in [DOMAIN Keywords -> Seq(Jobs)] /\ k \in DOMAIN Keywords
          BY <1>0, <2>1, CallerFacts
        <5> HIDE DEF k, got
        <5> QED
          BY <3>3, <5>1
      <4>3. CASE caller'[c].k = k
        BY <1>0, <3>3, <4>2, <4>3, KeepsComplete
      <4>4. CASE caller'[c].k = k + 1 /\ Len(got) >= result.count
        <5>1. result.count = Count[Keyword(c)]
          BY <2>1, <2>2 DEF GInv, OwnResult
        <5>2. Count[Keyword(c)] >= Len(FlattenSeq(Pages[Keyword(c)])) =>
                caller'[c].got[k] = Upto(Keyword(c), Min2(MaxPages, Len(Pages[Keyword(c)])))
          BY <1>0, <2>1, <4>1, <4>2, <4>4, <5>1, TotalIsComplete
        <5>3. \A i \in DOMAIN Keywords : i = k => Complete(c, i)'
          BY <5>2 DEF Complete, Keyword
        <5> QED
          BY <1>0, <3>3, <4>2, <4>4, <5>3, KeepsComplete
      <4> QED
        BY <3>3, <4>3, <4>4
    <3> QED
      BY <3>1, <3>2, <3>3
  <2> QED
    BY <1>1, <1>3, <2>1, <2>2
<1>9. CASE Backoff(c)
  <2>1. Leaves(c, TRUE) \/ (Stays(c) /\ caller'[c].pc = "attempt")
    BY <1>0, <1>9, BackoffEffect
  <2> QED
    BY <1>1, <1>3, <2>1
<1> QED
  BY <1>4, <1>5, <1>6, <1>7, <1>8, <1>9 DEF Step

\* While one goroutine at a time is inside Scrape, and every page of the site
\* brings a job the page before it has not, a keyword that Scrape reports no
\* error for was walked to the end of its listing or to maxPages, unless the
\* site understates its total.
THEOREM ScraperLosesNothing ==
    ASSUME OneCaller, PagesAdvance PROVE Spec => []NoSilentLoss
<1>1. Init => LInv
  <2> SUFFICES ASSUME Init, NEW c \in Callers
               PROVE  /\ \A i \in DOMAIN Keywords : ~(i < caller[c].k)
                      /\ ~At(c, "done")
    BY DEF LInv
  <2>1. caller[c].k = 1 /\ ~At(c, "done")
    BY DEF Init, At
  <2> QED
    BY <2>1, KeywordFacts
<1>2. GInv /\ LInv /\ [Next]_vars => LInv'
  <2> SUFFICES ASSUME GInv, LInv, [Next]_vars PROVE LInv'
    OBVIOUS
  <2>1. CASE UNCHANGED caller
    BY <2>1 DEF LInv, Complete, At
  <2> QED
    BY <2>1, StepKeepsComplete DEF Next, Cancel, vars
<1>3. GInv /\ LInv => NoSilentLoss
  <2> SUFFICES ASSUME GInv, LInv, NEW c \in Callers, NEW k \in DOMAIN Keywords,
                      k < caller[c].k \/ At(c, "done"),
                      caller[c].errs = {} \/ (k < caller[c].k /\ k \notin caller[c].errs),
                      Count[Keywords[k]] >= Len(FlattenSeq(Pages[Keywords[k]]))
               PROVE  caller[c].got[k] =
                        Upto(Keywords[k], Min2(MaxPages, Len(Pages[Keywords[k]])))
    BY DEF NoSilentLoss
  <2>1. k < caller[c].k
    <3>1. CASE At(c, "done") /\ caller[c].errs = {}
      <4>1. caller[c].k > Len(Keywords)
        BY <3>1 DEF LInv
      <4>2. caller[c].k \in Nat /\ k \in 1..Len(Keywords) /\ Len(Keywords) \in Nat
        BY CallerFacts, KeywordFacts DEF GInv
      <4> QED
        BY <4>1, <4>2
    <3> QED
      BY <3>1
  <2>2. k \notin caller[c].errs /\ Complete(c, k)
    BY <2>1 DEF LInv
  <2> QED
    BY <2>2 DEF Complete
<1>4. Spec => []GInv
  BY GInvAlways
<1> QED
  BY <1>1, <1>2, <1>3, <1>4, PTL DEF Spec
=============================================================================
