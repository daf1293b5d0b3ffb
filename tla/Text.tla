-------------------------------- MODULE Text --------------------------------
(***************************************************************************)
(* Text as the normalizer's regular expressions see it: a sequence of       *)
(* atoms, each a fragment of a word, a blank, a punctuation mark or a tag    *)
(* of the source's HTML.  Two fragments side by side are one word, so the    *)
(* word boundary \b is where a fragment has no fragment next to it.  The     *)
(* wording is immaterial: a fragment is only told from the other fragments,  *)
(* from its lower case and, when it is a figure, from other figures.         *)
(***************************************************************************)
EXTENDS Integers, SequencesExt, FiniteSetsExt

Blank == " "
LineBreak == "\n"
Comma == ","

\* Blank-like atoms: \s of the regular expressions.
Blanks == {Blank, LineBreak}

\* Atoms no letter or digit of a word belongs to.  A parenthesised tag is one.
Marks ==
    Blanks \cup {"-", ".", Comma, "/", ":", "+",
                 "(persero)", "(hybrid)", "(remote)", "(onsite)"}

IsFragment(a) == a \notin Marks

\* strings.ToLower, on the fragments a property tells apart from their lower case.
Lowercase ==
    [Go |-> "go", GO |-> "go", React |-> "react", Native |-> "native", JS |-> "js",
     Doc |-> "doc", Senior |-> "senior", Junior |-> "junior", Lead |-> "lead",
     Magang |-> "magang", PT |-> "pt", CV |-> "cv", Tbk |-> "tbk",
     Maju |-> "maju", Jaya |-> "jaya", Developer |-> "developer"]

Lower(a) == IF a \in DOMAIN Lowercase THEN Lowercase[a] ELSE a

ToLower(s) == [i \in DOMAIN s |-> Lower(s[i])]

\* \b on either side of the atoms i to j of s.
Bounded(s, i, j) ==
    /\ i > 1 => ~IsFragment(s[i - 1])
    /\ j < Len(s) => ~IsFragment(s[j + 1])

\* The places where s reads w, whatever the case.
Occurrences(s, w) ==
    {i \in 1 .. Len(s) - Len(w) + 1 :
        \A k \in DOMAIN w : Lower(s[i + k - 1]) = w[k]}

\* \bw\b occurs in s.
HasWord(s, w) == \E i \in Occurrences(s, w) : Bounded(s, i, i + Len(w) - 1)

\* The members of s that are not in the set.
Without(s, set) ==
    FlattenSeq([i \in DOMAIN s |-> IF s[i] \in set THEN <<>> ELSE <<s[i]>>])

\* The sequence without leading, trailing and repeated blanks.
Collapse(s, blank) ==
    LET kept == FlattenSeq([i \in DOMAIN s |->
                    IF s[i] = blank /\ (i = 1 \/ s[i - 1] = blank) THEN <<>> ELSE <<s[i]>>])
    IN  IF kept # <<>> /\ Last(kept) = blank THEN Front(kept) ELSE kept

\* Texts, one after the other, with the same gap between any two.
Spaced(texts, gap) ==
    FlattenSeq([i \in DOMAIN texts |-> IF i = 1 THEN texts[i] ELSE gap \o texts[i]])

\* Every atom of the set replaced by a blank.
BlankOut(s, atoms) == [i \in DOMAIN s |-> IF s[i] \in atoms THEN Blank ELSE s[i]]

\* The words of a text, with a blank between two of them.
WordsOf(s) ==
    Collapse([i \in DOMAIN s |-> IF IsFragment(s[i]) THEN s[i] ELSE Blank], Blank)
=============================================================================
