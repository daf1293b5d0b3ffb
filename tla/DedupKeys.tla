----------------------------- MODULE DedupKeys -----------------------------
(***************************************************************************)
(* The keys dedup compares postings by: the normalized title, the           *)
(* normalized company name and the fingerprint made of the two (title.go,    *)
(* company.go and fingerprint.go of internal/normalizer).                    *)
(***************************************************************************)
EXTENDS Text

\* The badges modeTagRe matches.
ModeTags == {"(hybrid)", "(remote)", "(onsite)"}

\* The vocabulary of titleSeniorityPrefixRe.
Seniority == {"senior", "junior", "lead", "intern", "magang"}

\* The title opens with a seniority word, and not with a longer word that
\* begins like one.
OpensWithSeniority(s) == s # <<>> /\ s[1] \in Seniority /\ Bounded(s, 1, 1)

\* Mutant of WithoutSeniority: no \b after the word.
WithoutSeniorityPrefix(s) ==
    IF s # <<>> /\ s[1] \in Seniority THEN Tail(s) ELSE s

\* Only the first word is looked at, and once: the blanks and marks after it
\* go with everything else that is not a letter or a digit.
WithoutSeniority(s) == IF OpensWithSeniority(s) THEN Tail(s) ELSE s

NormalizeTitle(title) ==
    Without(WithoutSeniority(BlankOut(ToLower(title), ModeTags)), Marks)

\* The word tbk.
BlankOutTbk(s) ==
    [i \in DOMAIN s |-> IF s[i] = "tbk" /\ Bounded(s, i, i) THEN Blank ELSE s[i]]

\* companyPrefixRe: the legal form, anchored at the first word.
WithoutLegalForm(s) ==
    LET i == SelectInSeq(s, LAMBDA a : a \notin Blanks)
    IN  IF i > 0 /\ s[i] \in {"pt", "cv"} /\ (i < Len(s) => ~IsFragment(s[i + 1]))
        THEN SubSeq(s, i + 1, Len(s)) ELSE s

\* The tags go before the marks around them, and the marks before the legal
\* form, which may be written with a full stop.
NormalizeCompany(name) ==
    LET untagged == BlankOutTbk(BlankOut(ToLower(name), {"(persero)"}))
        bare     == Without(untagged, {".", Comma})
    IN  Collapse(WithoutLegalForm(bare), Blank)

\* The digest of the two keys, one after the other: equal digests are taken
\* for equal texts.
Fingerprint(company, title) == company \o title
=============================================================================
