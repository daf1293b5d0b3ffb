------------------------------ MODULE MCDedup ------------------------------
(***************************************************************************)
(* Instances of Dedup for TLC.  Four urls, titles t1 ~ t2 ~ t3 with t1 and *)
(* t3 dissimilar, so that matching is not transitive and a middle row can   *)
(* join two groups at once.                                                 *)
(***************************************************************************)
EXTENDS Dedup, TLC

CONSTANTS u1, u2, u3, u4, t1, t2, t3, c1, c2, f1, f2, f3, f4

MCSimilar ==
    {<<a, a>> : a \in {t1, t2, t3}}
        \cup {<<t1, t2>>, <<t2, t1>>, <<t2, t3>>, <<t3, t2>>}

L(f, c, t, p) == [fingerprint |-> f, company |-> c, title |-> t, posted |-> p]

\* Each url keeps its posted_at; u1 may be retitled, u3 may move to another
\* company and meet u4 there, and u2 carries no date.  u1 and u4 tie on
\* posted_at.
MCServesFixedDate ==
    u1 :> {L(f1, c1, t1, 2), L(f3, c1, t3, 2)}
        @@ u2 :> {L(f2, c1, t2, NULL)}
        @@ u3 :> {L(f3, c1, t3, 1), L(f4, c2, t3, 1)}
        @@ u4 :> {L(f4, c2, t1, 2)}
=============================================================================
