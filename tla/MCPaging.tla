------------------------------ MODULE MCPaging ------------------------------
(***************************************************************************)
(* Instances of Paging and Reads for TLC: u1 is reposted; u2, at first      *)
(* without a date like u3, turns out to be the same posting as u1, with a   *)
(* date and under a title that is not wanted.                               *)
(***************************************************************************)
EXTENDS Reads, TLC

CONSTANTS u1, u2, u3, t1, t2, c1, c2, c3, f1, f2, f3, s1, s2, s3, k1, k2

MCSimilar == {<<t1, t1>>, <<t2, t2>>}

MCId == u1 :> 2 @@ u2 :> 1 @@ u3 :> 3

L(f, c, t, p) == [fingerprint |-> f, company |-> c, title |-> t, posted |-> p]

MCServes ==
    u1 :> {L(f1, c1, t1, 0), L(f1, c1, t1, 1)}
        @@ u2 :> {L(f2, c2, t1, NULL), L(f1, c2, t2, 1)}
        @@ u3 :> {L(f3, c3, t1, NULL)}

\* s3 has no jobs; both titles name k1.
MCSourceOf == u1 :> s1 @@ u2 :> s2 @@ u3 :> s1

MCStackOf == t1 :> {k1, k2} @@ t2 :> {k1}
=============================================================================
