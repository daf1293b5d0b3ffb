----------------------------- MODULE MCDedupTx -----------------------------
(***************************************************************************)
(* Instances of DedupTx for TLC: postings that all look alike, with dates   *)
(* 1 and 2 and one without a date, so that every order of arrival displaces *)
(* somebody.                                                                *)
(***************************************************************************)
EXTENDS DedupTx, TLC

CONSTANTS u1, u2, u3, t1, c1, c2, f1, f2

L(p) == [fingerprint |-> f1, company |-> c1, title |-> t1, posted |-> p]

MCSimilar == {<<t1, t1>>}

MCServes == u1 :> {L(1)} @@ u2 :> {L(2)} @@ u3 :> {L(NULL)}

\* u1 is reposted with a later date, or loses its date.
MCServesMoving == u1 :> {L(1), L(3), L(NULL)} @@ u2 :> {L(2)} @@ u3 :> {L(NULL)}

\* The runs differ in nothing but their names.
MCSymmetry == Permutations(Workers)

\* u1 is reposted with another date, u3 moves to another company.
MCServesChanging ==
    u1 :> {L(1), L(3)} @@ u2 :> {L(2)}
        @@ u3 :> {L(NULL),
                  [fingerprint |-> f2, company |-> c2, title |-> t1, posted |-> NULL]}
=============================================================================
