----------------------------- MODULE MCPipeline -----------------------------
(* Instances of Pipeline for TLC: two postings that dedup merges. *)
EXTENDS Pipeline, TLC

CONSTANTS r1, r2, u1, u2, t1, c1, c2, f1

L(c, p) == [fingerprint |-> f1, company |-> c, title |-> t1, posted |-> p]

MCSimilar == {<<t1, t1>>}

\* u1 was posted before u2, and by another company name.
MCServes == u1 :> {L(c1, 0)} @@ u2 :> {L(c2, 1)}

\* r1 may find the same posting twice.
MCMaxRaw == r1 :> 2 @@ r2 :> 1
MCMaxRawAlone == r1 :> 2
=============================================================================
