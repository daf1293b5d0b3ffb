------------------------------ MODULE DedupTx ------------------------------
(***************************************************************************)
(* Store.UpsertJob and Store.DeactivateStaleJobs as Postgres runs them:     *)
(* statement by statement, under READ COMMITTED, for several scrape runs at *)
(* once (handleTriggerScrape starts a goroutine per request and nothing     *)
(* keeps two of them apart).  Each worker is the database side of one run:  *)
(* it upserts some postings, one transaction each, then sweeps.             *)
(*                                                                          *)
(* What is assumed of Postgres: a statement sees the rows committed when it *)
(* starts and its own transaction's writes; an UPDATE, or the conflict      *)
(* branch of an INSERT, waits for the transaction that last wrote the row,  *)
(* then re-evaluates its WHERE clause on the row's newest version; a        *)
(* SELECT takes no lock; NOW() is the time the transaction began; a cycle   *)
(* of waits is broken by aborting a transaction in it.  The KEY SHARE lock  *)
(* of the foreign key check conflicts with none of these updates.           *)
(***************************************************************************)
EXTENDS JobsTable

CONSTANTS
    Workers,    \* scrape runs
    Serves,     \* Serves[u]: the listings a source may serve under url u
    MaxItems    \* bound on the postings one run upserts

ASSUME ServesAssumption == Serves \in [Urls -> SUBSET Listing]
ASSUME MaxItemsAssumption == MaxItems \in Nat

VARIABLES
    db,         \* the committed jobs table
    clock,      \* NOW(), advanced by each transaction that begins
    tx,         \* tx[w]: where worker w is, and UpsertJob's local variables
    local,      \* local[w]: row versions w has written and not committed;
                \*   its domain is the set of rows w holds a lock on
    handled,    \* handled[w]: postings w is done with, committed or failed
    countedNew, \* countedNew[u]: times UpsertJob reported row u as new
    unsettled   \* history, read by no step: rows whose dedup decision may
                \*   rest on a posted_at that has been overwritten since

vars == <<db, clock, tx, local, handled, countedNew, unsettled>>

NoRows == [u \in {} |-> NULL]

IdleTx ==
    [pc |-> "idle", url |-> NULL, listing |-> NULL, start |-> 0,
     inserted |-> FALSE, winner |-> NULL, losers |-> NoRows,
     current |-> NULL, todo |-> {}]

PCs == {"idle", "upsert", "find", "mark", "scan", "reparent", "commit",
        "sweep", "done"}

TypeOK ==
    /\ IsTable(db)
    /\ clock \in Nat
    /\ \A w \in Workers :
        /\ tx[w].pc \in PCs
        /\ IsTable(local[w])
        /\ IsTable(tx[w].losers) /\ tx[w].todo \subseteq Urls
        /\ handled[w] \in 0..MaxItems
    /\ countedNew \in [Urls -> Nat]
    /\ unsettled \subseteq DOMAIN db

Init ==
    /\ db = NoRows
    /\ clock = 0
    /\ tx = [w \in Workers |-> IdleTx]
    /\ local = [w \in Workers |-> NoRows]
    /\ handled = [w \in Workers |-> 0]
    /\ countedNew = [u \in Urls |-> 0]
    /\ unsettled = {}

----------------------------------------------------------------------------
(* What a statement sees, and what it waits for *)

\* The rows visible to a statement of w that starts now.
View(w) ==
    [v \in DOMAIN local[w] \cup DOMAIN db |->
        IF v \in DOMAIN local[w] THEN local[w][v] ELSE db[v]]

\* The rows locked by transactions other than w's.
LockedByOthers(w) == UNION {DOMAIN local[x] : x \in Workers \ {w}}

\* The candidates' turn in the loop of resolveDuplicates: the new job first,
\* then in the order FindDuplicateCandidates returned them.
NextLosers(r) ==
    LET left == DOMAIN r.losers
    IN  IF r.url \in left THEN {r.url}
        ELSE {v \in left : \A x \in left : ~PostedBefore(r.losers[x], r.losers[v])}

\* The rows w's statement could lock next; it is stuck when others hold all.
Wants(w) ==
    CASE tx[w].pc = "upsert"               -> {tx[w].url}
      [] tx[w].pc = "mark"                 -> NextLosers(tx[w])
      [] tx[w].pc \in {"reparent", "sweep"} -> tx[w].todo
      [] OTHER                             -> {}

Blocked(w) == Wants(w) # {} /\ Wants(w) \subseteq LockedByOthers(w)

\* Workers that wait for nothing but each other.
Deadlocked(group) ==
    /\ group # {}
    /\ \A w \in group :
        /\ Blocked(w)
        /\ \A v \in Wants(w) : \E x \in group \ {w} : v \in DOMAIN local[x]

Goto(w, label) == tx' = [tx EXCEPT ![w].pc = label]

\* w writes a version of row v, and holds its lock from then on.
Write(w, v, row) ==
    local' = [local EXCEPT ![w] = [x \in DOMAIN @ \cup {v} |-> IF x = v THEN row ELSE @[x]]]

----------------------------------------------------------------------------
(* UpsertJob *)

\* pool.Begin, for some posting the run has scraped.
Begin(w) ==
    /\ tx[w].pc = "idle" /\ handled[w] < MaxItems
    /\ clock' = clock + 1
    /\ \E u \in Urls : \E l \in Serves[u] :
          tx' = [tx EXCEPT ![w] = [IdleTx EXCEPT !.pc = "upsert", !.url = u,
                                        !.listing = l, !.start = clock + 1]]
    /\ UNCHANGED <<db, local, handled, countedNew, unsettled>>

\* The version of a row an update starts from: the newest, not the one the
\* statement's snapshot showed.
Newest(w, v) == View(w)[v]

\* The effect of q.UpsertJob, from the version of the row visible now.
WriteListing(w) ==
    LET r == tx[w]
        u == r.url
        exists == u \in DOMAIN db
        row == IF exists THEN Refresh(Newest(w, u), r.listing, r.start)
                         ELSE RowFrom(r.listing, r.start, r.start, NULL)
    IN  /\ Write(w, u, row)
        /\ tx' = [tx EXCEPT ![w].pc = IF row.canonical = NULL THEN "find" ELSE "commit",
                            ![w].inserted = ~exists]
        /\ UNCHANGED <<db, clock, handled, countedNew, unsettled>>

\* Mutant of UpsertStatement: a SELECT and an UPDATE of what it returned, as
\* if nobody could be writing the row.
UpsertFromCopy(w) == tx[w].pc = "upsert" /\ WriteListing(w)

\* q.UpsertJob: waits for another writer of the row.
UpsertStatement(w) ==
    /\ tx[w].pc = "upsert" /\ tx[w].url \notin LockedByOthers(w)
    /\ WriteListing(w)

\* q.FindDuplicateCandidates and canonicalOf: the rows are read once, without
\* locking them, and the decision is made on these copies.
FindCandidates(w) ==
    LET u == tx[w].url
        group == {u} \cup Candidates(View(w), u)
    IN  /\ tx[w].pc = "find"
        /\ \E win \in CanonicalOf(View(w), group, u) :
             tx' = [tx EXCEPT ![w].pc = IF group = {win} THEN "commit" ELSE "mark",
                              ![w].winner = win,
                              ![w].losers = [v \in group \ {win} |-> View(w)[v]]]
        /\ UNCHANGED <<db, clock, local, handled, countedNew, unsettled>>

\* q.MarkAsDuplicate for the next loser.
MarkLoser(w) ==
    /\ tx[w].pc = "mark"
    /\ \E v \in NextLosers(tx[w]) \ LockedByOthers(w) :
         /\ Write(w, v, [Newest(w, v) EXCEPT !.canonical = tx[w].winner])
         /\ tx' = [tx EXCEPT ![w].pc = "scan", ![w].current = v,
                             ![w].losers = [x \in DOMAIN @ \ {v} |-> @[x]]]
    /\ UNCHANGED <<db, clock, handled, countedNew, unsettled>>

\* Where the loop is while the rows todo are to be reparented: on to the next
\* loser after the last of them, or over.
LoopAt(r, todo) ==
    IF todo # {} THEN "reparent" ELSE IF r.losers = NoRows THEN "commit" ELSE "mark"

\* Mutant of ReparentScan: the loop body ends with MarkAsDuplicate.
SkipReparent(w) ==
    /\ tx[w].pc = "scan"
    /\ Goto(w, LoopAt(tx[w], {}))
    /\ UNCHANGED <<db, clock, local, handled, countedNew, unsettled>>

\* q.ReparentDuplicates starts: the rows its snapshot shows.
ReparentScan(w) ==
    LET todo == PointingAt(View(w), tx[w].current)
    IN  /\ tx[w].pc = "scan"
        /\ tx' = [tx EXCEPT ![w].pc = LoopAt(tx[w], todo), ![w].todo = todo]
        /\ UNCHANGED <<db, clock, local, handled, countedNew, unsettled>>

\* One row of it: the condition is evaluated again on the newest version.
ReparentRow(w) ==
    /\ tx[w].pc = "reparent"
    /\ \E v \in tx[w].todo \ LockedByOthers(w) :
         /\ IF Newest(w, v).canonical = tx[w].current
            THEN Write(w, v, [Newest(w, v) EXCEPT !.canonical = tx[w].winner])
            ELSE UNCHANGED local
         /\ tx' = [tx EXCEPT ![w].pc = LoopAt(tx[w], tx[w].todo \ {v}),
                             ![w].todo = @ \ {v}]
    /\ UNCHANGED <<db, clock, handled, countedNew, unsettled>>

\* UpsertJob reports a duplicate: the row was known to be one (no candidates
\* were looked for), or it lost the resolution.
IsDuplicate(w) == tx[w].winner # tx[w].url

\* Mutant of CountsAsNew: WasInserted is not looked at.
CountsEveryCanonical(w) == ~IsDuplicate(w)

\* Pipeline.Run counts the job as new.
CountsAsNew(w) == tx[w].inserted /\ ~IsDuplicate(w)

\* The rows whose date the transaction overwrites with another one.
Redated(w) == {v \in DOMAIN db \cap DOMAIN local[w] : local[w][v].posted # db[v].posted}

\* The rows unsettled once w commits: those that have been given another date
\* since they first were committed, and those that have been moved away from
\* a row that was unsettled when they moved.
Unsettling(w) ==
    LET dated == unsettled \cup Redated(w)
    IN  dated \cup {v \in DOMAIN db : /\ db[v].canonical \in dated
                                   /\ View(w)[v].canonical # db[v].canonical}

\* The server commits: the written versions become visible all at once.
Publish(w) ==
    /\ tx[w].pc = "commit"
    /\ db' = View(w)
    /\ unsettled' = Unsettling(w)
    /\ local' = [local EXCEPT ![w] = NoRows]
    /\ tx' = [tx EXCEPT ![w] = IdleTx]
    /\ handled' = [handled EXCEPT ![w] = @ + 1]
    /\ UNCHANGED clock

\* tx.Commit, and the pipeline's tally of its result.
Commit(w) ==
    /\ Publish(w)
    /\ countedNew' = IF CountsAsNew(w) THEN [countedNew EXCEPT ![tx[w].url] = @ + 1]
                     ELSE countedNew

\* The commit takes effect but its acknowledgement is lost: UpsertJob returns
\* an error and the pipeline counts a failure.
CommitUnacknowledged(w) == Publish(w) /\ UNCHANGED countedNew

----------------------------------------------------------------------------
(* DeactivateStaleJobs *)

\* The sweep at the end of Pipeline.Run begins: the rows its snapshot shows.
SweepScan(w) ==
    /\ tx[w].pc = "idle" /\ handled[w] = MaxItems
    /\ clock' = clock + 1
    /\ tx' = [tx EXCEPT ![w] = [IdleTx EXCEPT !.pc = "sweep", !.start = clock + 1,
                                      !.todo = Stale(db, clock + 1)]]
    /\ UNCHANGED <<db, local, handled, countedNew, unsettled>>

\* Mutant of StillStale: the row was stale when the statement began.
StaleWhenScanned(w, v) == TRUE

\* The row is still stale when its turn comes.
StillStale(w, v) == v \in Stale(db, tx[w].start)

SweepRow(w) ==
    /\ tx[w].pc = "sweep"
    /\ \E v \in tx[w].todo \ LockedByOthers(w) :
         /\ IF StillStale(w, v)
            THEN Write(w, v, [Newest(w, v) EXCEPT !.active = FALSE])
            ELSE UNCHANGED local
         /\ tx' = [tx EXCEPT ![w].todo = @ \ {v}]
    /\ UNCHANGED <<db, clock, handled, countedNew, unsettled>>

SweepCommit(w) ==
    /\ tx[w].pc = "sweep" /\ tx[w].todo = {}
    /\ db' = View(w)
    /\ local' = [local EXCEPT ![w] = NoRows]
    /\ tx' = [tx EXCEPT ![w] = [IdleTx EXCEPT !.pc = "done"]]
    /\ UNCHANGED <<clock, handled, countedNew, unsettled>>

----------------------------------------------------------------------------
(* Failures *)

\* Where a worker goes after a rollback: to its next posting, or to its end.
GiveUp(w) ==
    IF tx[w].pc = "sweep"
    THEN /\ tx' = [tx EXCEPT ![w] = [IdleTx EXCEPT !.pc = "done"]]
         /\ UNCHANGED handled
    ELSE /\ tx' = [tx EXCEPT ![w] = IdleTx]
         /\ handled' = [handled EXCEPT ![w] = @ + 1]

\* Mutant of Rollback: the error path forgets the deferred tx.Rollback.
LeakTransaction(w) == GiveUp(w) /\ UNCHANGED <<db, local, clock, countedNew, unsettled>>

\* Mutant of Rollback: a failed sweep is counted like a failed posting.
CountFailedSweep(w) ==
    /\ local' = [local EXCEPT ![w] = NoRows]
    /\ tx' = [tx EXCEPT ![w] = [IdleTx EXCEPT !.pc = "done"]]
    /\ handled' = [handled EXCEPT ![w] = @ + 1]
    /\ UNCHANGED <<db, clock, countedNew, unsettled>>

\* The transaction is rolled back: processJob returns an error and the run
\* goes on with the next posting; a failed sweep ends the run all the same.
Rollback(w) ==
    /\ local' = [local EXCEPT ![w] = NoRows]
    /\ GiveUp(w)
    /\ UNCHANGED <<db, clock, countedNew, unsettled>>

\* A statement fails: the connection breaks, or the context is canceled.
Fail(w) == tx[w].pc \notin {"idle", "done"} /\ Rollback(w)

\* Postgres aborts one of several transactions that wait for each other.
DeadlockVictim(w) ==
    /\ \E group \in SUBSET Workers : w \in group /\ Deadlocked(group)
    /\ Rollback(w)

----------------------------------------------------------------------------

Step(w) ==
    \/ Begin(w) \/ UpsertStatement(w) \/ FindCandidates(w) \/ MarkLoser(w)
    \/ ReparentScan(w) \/ ReparentRow(w) \/ Commit(w)
    \/ SweepScan(w) \/ SweepRow(w) \/ SweepCommit(w)

AllDone == \A w \in Workers : tx[w].pc = "done"
Finished == AllDone /\ UNCHANGED vars

Next ==
    \/ \E w \in Workers :
          Step(w) \/ CommitUnacknowledged(w) \/ Fail(w) \/ DeadlockVictim(w)
    \/ Finished

Spec == Init /\ [][Next]_vars

----------------------------------------------------------------------------
(* Properties *)

\* No rows only point at each other, which would hide all of them from every
\* listing for good, unless one of them is unsettled: a ring cannot come from
\* the interleaving of two runs alone, nor from a new date of some other
\* posting.  It rests on racing resolutions ordering settled rows alike.
NoRing ==
    \A S \in SUBSET (DOMAIN db \ unsettled) :
        S # {} => \E u \in S : db[u].canonical \notin S

\* A duplicate is never preferred over the row it points at, even when that
\* row was displaced by another run in between, as long as neither of them
\* is unsettled.
CanonicalIsEarlier ==
    \A u \in DOMAIN db : db[u].canonical # NULL =>
        /\ db[u].canonical \in DOMAIN db
        /\ {u, db[u].canonical} \cap unsettled = {} =>
             ~PostedBefore(db[u], db[db[u].canonical])

\* A committed dedup decision is never lost to a concurrent re-scrape of the
\* same row (jobs.sql: a re-scrape "must never clobber a dedup decision").
DecisionsAreKept ==
    [][\A u \in DOMAIN db :
        db[u].canonical # NULL => db'[u].canonical # NULL]_vars

\* The sweep never turns off a row that another run refreshes while the
\* sweep is under way: an inactive row is one no scrape has come across for
\* longer than the threshold.
InactiveOnlyIfStale ==
    \A u \in DOMAIN db : ~db[u].active => db[u].lastSeen < clock - StaleAfter

\* However the runs interleave, fail and retry, a posting adds to at most one
\* run's JobsNew, and only once its row is committed (UpsertJobResult).
NewOnce ==
    \A u \in Urls : countedNew[u] <= 1 /\ (countedNew[u] = 1 => u \in DOMAIN db)

\* Until every run is over, some run can go on with no help from a failure: it
\* has a statement that waits for nothing, or the server picks it from a
\* deadlock.  A deadlock between two resolutions costs one of them its posting,
\* never the run (Run's doc comment), and no lock outlives its transaction.
NoStandstill == AllDone \/ \E w \in Workers : ENABLED (Step(w) \/ DeadlockVictim(w))

\* While no transaction is under way, no two canonical rows look like the same
\* posting ("a re-scrape must never observably exist without its dedup status
\* being consistent", jobs.go, UpsertJob).
NoMissedDuplicate ==
    \A u, v \in DOMAIN db :
        (u # v /\ db[u].canonical = NULL /\ db[v].canonical = NULL)
            => ~Matches(db[u], db[v])

\* Duplicates never form a chain ("always a flat one-level pointer, never a
\* chain", jobs.sql, ListDuplicatesOf).
Flat ==
    \A u \in DOMAIN db : db[u].canonical # NULL =>
        db[db[u].canonical].canonical = NULL

\* Every duplicate is listed under some canonical row: there is always one at
\* the end of its pointers ("every duplicate pointing directly at the true
\* canonical", jobs.sql, ReparentDuplicates).
GroupsKeepCanonical ==
    \A S \in SUBSET DOMAIN db :
        S # {} => \E u \in S : db[u].canonical \notin S

\* With one run at a time the statements add up to the atomic steps of Dedup:
\* each committed transaction is one UpsertJob or one sweep, and a failed one
\* leaves no trace.
Atomic == INSTANCE Dedup WITH jobs <- db, now <- clock, MaxTime <- MaxItems + 1
AtomicSpec == Atomic!Spec
=============================================================================
