------------------------------- MODULE Groups -------------------------------
(***************************************************************************)
(* What dedup promises its readers, whatever the content of the postings and *)
(* the order of the scrapes: the postings seen so far form groups, each with *)
(* one of its members as its representative.  Seeing a posting may merge its *)
(* group with others; groups are never split and postings never forgotten,   *)
(* and no other group changes its representative.  Dedup implements this.    *)
(***************************************************************************)
CONSTANT Postings

VARIABLE rep    \* rep[p]: the representative of the group of p, for each p seen

Init == rep = [p \in {} |-> p]

\* The posting p is seen: if for the first time, as a group of its own.
Seen(p) ==
    [q \in DOMAIN rep \cup {p} |-> IF q \in DOMAIN rep THEN rep[q] ELSE p]

\* Some groups, that of p among them, become one; one of their
\* representatives becomes everybody's.
See(p) ==
    \E merged \in SUBSET {Seen(p)[q] : q \in DOMAIN Seen(p)} : \E w \in merged :
        /\ Seen(p)[p] \in merged
        /\ rep' = [q \in DOMAIN Seen(p) |->
                      IF Seen(p)[q] \in merged THEN w ELSE Seen(p)[q]]

Next == \E p \in Postings : See(p)

Spec == Init /\ [][Next]_rep
=============================================================================
