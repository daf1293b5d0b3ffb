------------------------------- MODULE Dedup -------------------------------
(***************************************************************************)
(* internal/store's dedup at the granularity its own comments promise:      *)
(* Store.UpsertJob is one atomic step (jobs.go: "Both steps run in one      *)
(* transaction").  Scrapes of any url, in any order, with content that may  *)
(* change from one scrape to the next, interleave with the stale sweep and  *)
(* the clock.  DedupTx shows what is left of this when the transactions     *)
(* of two runs really overlap.                                              *)
(*                                                                          *)
(* A call that fails rolls back and changes nothing, so a failed UpsertJob  *)
(* is a stuttering step here.  MarkAsDuplicate, which merges by hand, is    *)
(* left out: only the repository's tests call it.                           *)
(***************************************************************************)
EXTENDS JobsTable

CONSTANTS
    Serves,     \* Serves[u]: the listings a source may serve under url u
    MaxTime     \* bound on the clock

ASSUME ServesAssumption == Serves \in [Urls -> SUBSET Listing]
ASSUME MaxTimeAssumption == MaxTime \in Nat

VARIABLES
    jobs,       \* the jobs table
    now         \* NOW(), in ticks

vars == <<jobs, now>>

TypeOK ==
    /\ IsTable(jobs)
    /\ now \in Nat

Init ==
    /\ jobs = [u \in {} |-> NULL]
    /\ now = 0

----------------------------------------------------------------------------
(* Actions *)

\* Store.UpsertJob: refresh or insert the row; a row already known to be a
\* duplicate keeps its canonical_job_id, any other is resolved.
UpsertJob(u, l) ==
    LET t == UpsertRow(jobs, u, l, now)
    IN  /\ \/ t[u].canonical # NULL /\ jobs' = t
           \/ t[u].canonical = NULL /\ jobs' \in ResolveDuplicates(t, u)
        /\ UNCHANGED now

\* Store.DeactivateStaleJobs, run at the end of every scrape run.
DeactivateStaleJobs ==
    /\ jobs' = Deactivate(jobs, Stale(jobs, now))
    /\ UNCHANGED now

\* Time passes between two calls; MaxTime bounds the model, not the program.
Tick ==
    /\ now < MaxTime
    /\ now' = now + 1
    /\ UNCHANGED jobs

Next ==
    \/ \E u \in Urls : \E l \in Serves[u] : UpsertJob(u, l)
    \/ DeactivateStaleJobs
    \/ Tick

Spec == Init /\ [][Next]_vars

----------------------------------------------------------------------------
(* Properties *)

\* The row a reader is sent to for row u: itself, or the one it points at.
Canonical(t, u) == IF t[u].canonical = NULL THEN u ELSE t[u].canonical

\* Every canonical_job_id names an existing row that is itself canonical:
\* duplicates form stars, never chains or cycles, which is what lets
\* ListDuplicatesOf do without recursion (jobs.sql, ListDuplicatesOf).
Flat ==
    \A u \in DOMAIN jobs : jobs[u].canonical # NULL =>
        /\ jobs[u].canonical \in DOMAIN jobs
        /\ jobs[jobs[u].canonical].canonical = NULL

\* No two canonical rows look like the same posting, whatever order the
\* postings came in and however their content changed between scrapes: the
\* dedup status never lags behind the content (jobs.go, UpsertJob).
NoMissedDuplicate ==
    \A u, v \in DOMAIN jobs :
        (u # v /\ jobs[u].canonical = NULL /\ jobs[v].canonical = NULL)
            => ~Matches(jobs[u], jobs[v])

\* No duplicate would be preferred over the row it points at: the canonical
\* posting is the one with the earliest posted_at, tie-broken by the earliest
\* first_seen_at (package comment of internal/store).
CanonicalIsEarliest ==
    \A u \in DOMAIN jobs : jobs[u].canonical # NULL =>
        ~PostedBefore(jobs[u], jobs[jobs[u].canonical])

\* Two rows once in the same group of duplicates stay in the same group, and
\* a row known to be a duplicate never becomes canonical again ("a re-scrape
\* must never clobber a dedup decision", jobs.sql, UpsertJob).
MergesAreForever ==
    [][\A u, v \in DOMAIN jobs :
        Canonical(jobs, u) = Canonical(jobs, v) =>
            /\ Canonical(jobs', u) = Canonical(jobs', v)
            /\ jobs[u].canonical # NULL => jobs'[u].canonical # NULL]_vars

----------------------------------------------------------------------------
(* The abstract specification *)

\* The row a reader is sent to, for every row of the table.
Representatives == [u \in DOMAIN jobs |-> Canonical(jobs, u)]

G == INSTANCE Groups WITH Postings <- Urls, rep <- Representatives

\* To a reader who follows canonical_job_id, every scrape merges groups of
\* postings or leaves them alone, and every sweep leaves them alone: no scrape
\* moves a row between groups, and no group that is not merged changes the
\* row it is shown as.
KeepsGroups == G!Spec
=============================================================================
