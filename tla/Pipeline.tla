------------------------------ MODULE Pipeline ------------------------------
(***************************************************************************)
(* internal/pipeline's Run, started by handleTriggerScrape in a goroutine   *)
(* of its own, over the store.  Several runs may be under way at once; any  *)
(* store call may fail, a run's context may be canceled, and the process    *)
(* may exit under its runs and be restarted.                                *)
(*                                                                          *)
(* A store call is one step, so the store's own interleavings (DedupTx) are *)
(* not repeated here.  What the scraper returns is any short sequence of    *)
(* postings, the same one possibly several times, with or without an error. *)
(***************************************************************************)
EXTENDS JobsTable, FiniteSets, Sequences, Functions

CONSTANTS
    Runs,       \* trigger requests, each starting at most one run
    Serves,     \* Serves[u]: the listings a source may serve under url u
    Cancelable, \* the runs whose caller may cancel their context; the server
                \*   starts runs on context.Background(), other callers need not
    MaxRaw,     \* MaxRaw[r]: bound on the postings Scrape returns to run r
    MaxTime,    \* bound on the clock
    MaxFaults,  \* bound on the store calls that fail for reasons of their own
    MaxExits    \* bound on the times the process exits

ASSUME ServesAssumption == Serves \in [Urls -> SUBSET Listing]
ASSUME RunsAssumption ==
    IsFiniteSet(Runs) /\ Cancelable \subseteq Runs /\ MaxRaw \in [Runs -> Nat]
ASSUME MaxTimeAssumption == MaxTime \in Nat

VARIABLES
    jobs,       \* the jobs table
    companies,  \* the companies table
    scrapeRuns, \* scrapeRuns[r]: the scrape_runs row of run r, NULL before it is created
    lastRunAt,  \* the source's last_run_at
    now,        \* NOW(), in ticks
    run,        \* run[r]: the goroutine of run r and its RunResult
    canceled,   \* runs whose context has been canceled
    faults,     \* store calls that have failed so far, other than by a canceled context
    exits       \* times the process has exited so far

store == <<jobs, companies, scrapeRuns, lastRunAt>>
vars == <<store, now, run, canceled, faults, exits>>

Raws == UNION {{[url |-> u, listing |-> l] : l \in Serves[u]} : u \in Urls}

PCs == {"none", "start", "scrape", "loop", "company", "job", "tally",
        "finish", "stamp", "sweep", "done", "notStarted", "dead"}

\* What processJob returned of a posting, read where it is counted.
Outcomes == {"new", "duplicate", "failed"}

Idle ==
    [pc |-> "none", began |-> 0, raws |-> << >>, next |-> 1, scrapeErr |-> FALSE,
     outcome |-> "failed", new |-> 0, duplicate |-> 0, failed |-> {}]

Running == [status |-> "running", found |-> 0, new |-> 0, duplicate |-> 0, error |-> FALSE]

TypeOK ==
    /\ IsTable(jobs)
    /\ companies \subseteq Companies
    /\ \A r \in Runs :
        /\ run[r].pc \in PCs /\ run[r].outcome \in Outcomes
        /\ run[r].next \in 1..Len(run[r].raws) + 1
        /\ run[r].failed \subseteq 1..Len(run[r].raws)
        /\ scrapeRuns[r] # NULL =>
            /\ scrapeRuns[r].status \in {"running", "success", "failed"}
            /\ scrapeRuns[r].found \in 0..MaxRaw[r]
    /\ lastRunAt \in {NULL} \cup 0..MaxTime /\ now \in 0..MaxTime
    /\ canceled \subseteq Runs

Init ==
    /\ jobs = [u \in {} |-> NULL]
    /\ companies = {}
    /\ scrapeRuns = [r \in Runs |-> NULL]
    /\ lastRunAt = NULL
    /\ now = 0
    /\ run = [r \in Runs |-> Idle]
    /\ canceled = {}
    /\ faults = 0 /\ exits = 0

At(r, label) == run[r].pc = label

Goto(r, label) == run' = [run EXCEPT ![r].pc = label]

\* A run's context is done once its caller cancels it; cleanupCtx never is
\* (mutant of the latter: cleanup is done with the run's context).
CtxDone(r) == r \in canceled
CleanupCtxDone(r) == FALSE

\* A store call fails for a reason of its own (database down, deadlock victim),
\* or, always, because its context is done.  Either way its statement may have
\* taken effect by then, only the answer being lost.
Fault == faults < MaxFaults /\ faults' = faults + 1
CallFails(ctxDone) == IF ctxDone THEN UNCHANGED faults ELSE Fault
CallSucceeds(ctxDone) == ~ctxDone /\ UNCHANGED faults

----------------------------------------------------------------------------
(* Starting a run *)

\* handleTriggerScrape, for a request it accepts: the goroutine starts.  A
\* request without the token, without a known source or with pages out of
\* 1..20 changes nothing.
Trigger(r) ==
    /\ At(r, "none")
    /\ Goto(r, "start")
    /\ UNCHANGED <<store, now, canceled, faults, exits>>

\* GetSourceBySlug and CreateScrapeRun: the row exists, as running, before
\* anything is scraped.  If either fails Run returns at once, also when the row
\* was inserted after all: nobody has its id then.
CreateScrapeRun(r) ==
    /\ At(r, "start")
    /\ \/ /\ CallSucceeds(CtxDone(r))
          /\ scrapeRuns' = [scrapeRuns EXCEPT ![r] = Running]
          /\ run' = [run EXCEPT ![r].pc = "scrape", ![r].began = now]
       \/ /\ CallFails(CtxDone(r)) /\ Goto(r, "notStarted")
          /\ scrapeRuns' \in {scrapeRuns, [scrapeRuns EXCEPT ![r] = Running]}
    /\ UNCHANGED <<jobs, companies, lastRunAt, now, canceled, exits>>

\* Scraper.Scrape: whatever was gathered, and an error that does not take it
\* back.  A canceled context is always reported as an error.
Scrape(r) ==
    /\ At(r, "scrape")
    /\ \E n \in 0..MaxRaw[r] : \E raws \in [1..n -> Raws] : \E err \in BOOLEAN :
         /\ CtxDone(r) => err
         /\ run' = [run EXCEPT ![r].pc = IF n = 0 THEN "finish" ELSE "loop", ![r].raws = raws,
                               ![r].scrapeErr = err]
    /\ UNCHANGED <<store, now, canceled, faults, exits>>

----------------------------------------------------------------------------
(* The loop over the postings *)

Current(r) == run[r].raws[run[r].next]

\* Where the loop goes after the current posting.
NextInLoop(r) == IF run[r].next = Len(run[r].raws) THEN "finish" ELSE "loop"

\* Mutant of JobFailed: the first failure ends the loop.
JobFailedEndsLoop(r) ==
    run' = [run EXCEPT ![r].pc = "finish", ![r].failed = @ \cup {run[r].next}]

\* Mutant of JobFailed: the posting after it is recorded.
JobFailedOffByOne(r) ==
    run' = [run EXCEPT ![r].pc = NextInLoop(r), ![r].next = @ + 1,
                       ![r].failed = @ \cup {run[r].next + 1}]

\* A failed posting is recorded and the loop goes on with the next one.
JobFailed(r) ==
    run' = [run EXCEPT ![r].pc = NextInLoop(r), ![r].next = @ + 1,
                       ![r].failed = @ \cup {run[r].next}]

\* A posting processed is counted by what UpsertJob returned of it.
JobDone(r) ==
    LET isNew == run[r].outcome = "new"
    IN  run' = [run EXCEPT ![r].pc = NextInLoop(r), ![r].next = @ + 1,
                           ![r].new = @ + IF isNew THEN 1 ELSE 0,
                           ![r].duplicate = @ + IF isNew THEN 0 ELSE 1]

\* Mutant of LeaveLoop: the check continues where it should break.
SpinOnCancel(r) ==
    /\ At(r, "loop") /\ CtxDone(r)
    /\ UNCHANGED vars

\* The context check at the head of the loop.
LeaveLoop(r) ==
    /\ At(r, "loop") /\ CtxDone(r)
    /\ Goto(r, "finish")
    /\ UNCHANGED <<store, now, canceled, faults, exits>>

\* Or the context is not done yet, and processJob is called.
BeginJob(r) ==
    /\ At(r, "loop") /\ ~CtxDone(r)
    /\ Goto(r, "company")
    /\ UNCHANGED <<store, now, canceled, faults, exits>>

CompanyUpserted(r) == companies \cup {Current(r).listing.company}

\* Mutant of UpsertCompany: its error is dropped.
UpsertCompanyUnchecked(r) ==
    /\ At(r, "company")
    /\ \/ CallSucceeds(CtxDone(r)) /\ companies' = CompanyUpserted(r)
       \/ CallFails(CtxDone(r)) /\ companies' \in {companies, CompanyUpserted(r)}
    /\ Goto(r, "job")
    /\ UNCHANGED <<jobs, scrapeRuns, lastRunAt, now, canceled, exits>>

\* processJob, first half: UpsertCompany, in a statement of its own, so the
\* company stays even if the job then fails.
UpsertCompany(r) ==
    /\ At(r, "company")
    /\ \/ /\ CallSucceeds(CtxDone(r)) /\ Goto(r, "job")
          /\ companies' = CompanyUpserted(r)
       \/ /\ CallFails(CtxDone(r)) /\ JobFailed(r)
          /\ companies' \in {companies, CompanyUpserted(r)}
    /\ UNCHANGED <<jobs, scrapeRuns, lastRunAt, now, canceled, exits>>

\* Mutant of IsNew: WasInserted is not looked at.
IsCanonical(before, after, u) == after[u].canonical = NULL
IsNew(before, after, u) == u \notin DOMAIN before /\ after[u].canonical = NULL

\* The tables UpsertJob can leave behind (Dedup's UpsertJob).
Upserted(r) ==
    LET u == Current(r).url
        t == UpsertRow(jobs, u, Current(r).listing, now)
    IN  IF t[u].canonical = NULL THEN ResolveDuplicates(t, u) ELSE {t}

\* Back from processJob, nothing counted yet: the process may exit here.
Returns(r, outcome) ==
    run' = [run EXCEPT ![r].pc = "tally", ![r].outcome = outcome]

\* processJob, second half.  UpsertJob commits; or it returns an error, its
\* transaction rolled back or only its acknowledgement lost.
UpsertJob(r) ==
    /\ At(r, "job")
    /\ \/ /\ CallSucceeds(CtxDone(r))
          /\ jobs' \in Upserted(r)
          /\ Returns(r, IF IsNew(jobs, jobs', Current(r).url) THEN "new" ELSE "duplicate")
       \/ /\ CallFails(CtxDone(r))
          /\ jobs' \in {jobs} \cup Upserted(r)
          /\ Returns(r, "failed")
    /\ UNCHANGED <<companies, scrapeRuns, lastRunAt, now, canceled, exits>>

\* The counters of RunResult, in memory only until FinishScrapeRun.
Tally(r) ==
    /\ At(r, "tally")
    /\ IF run[r].outcome = "failed" THEN JobFailed(r) ELSE JobDone(r)
    /\ UNCHANGED <<store, now, canceled, faults, exits>>

----------------------------------------------------------------------------
(* Cleanup: each of the three calls is made whatever became of the others *)

\* A scrape that gathered something is a success even if it also failed.
Status(r) == IF run[r].scrapeErr /\ run[r].raws = << >> THEN "failed" ELSE "success"

\* Mutant of HasErrors: leaving the loop early is logged but not recorded.
HasErrorsIfAnyFailed(r) == run[r].scrapeErr \/ run[r].failed # {}

\* Something went wrong: the scrape, a posting, or the loop was left early.
HasErrors(r) ==
    run[r].scrapeErr \/ run[r].failed # {} \/ run[r].next <= Len(run[r].raws)

Finished(r) ==
    [scrapeRuns EXCEPT ![r] =
        [status |-> Status(r), found |-> Len(run[r].raws), new |-> run[r].new,
         duplicate |-> run[r].duplicate, error |-> HasErrors(r)]]

FinishScrapeRun(r) ==
    /\ At(r, "finish")
    /\ \/ CallSucceeds(CleanupCtxDone(r)) /\ scrapeRuns' = Finished(r)
       \/ CallFails(CleanupCtxDone(r)) /\ scrapeRuns' \in {scrapeRuns, Finished(r)}
    /\ Goto(r, "stamp")
    /\ UNCHANGED <<jobs, companies, lastRunAt, now, canceled, exits>>

UpdateSourceLastRunAt(r) ==
    /\ At(r, "stamp")
    /\ \/ CallSucceeds(CleanupCtxDone(r)) /\ lastRunAt' = now
       \/ CallFails(CleanupCtxDone(r)) /\ lastRunAt' \in {lastRunAt, now}
    /\ Goto(r, "sweep")
    /\ UNCHANGED <<jobs, companies, scrapeRuns, now, canceled, exits>>

\* The sweep covers every source's jobs, also after a failed or canceled run.
DeactivateStaleJobs(r) ==
    /\ At(r, "sweep")
    /\ LET swept == Deactivate(jobs, Stale(jobs, now))
       IN  \/ CallSucceeds(CleanupCtxDone(r)) /\ jobs' = swept
           \/ CallFails(CleanupCtxDone(r)) /\ jobs' \in {jobs, swept}
    /\ Goto(r, "done")
    /\ UNCHANGED <<companies, scrapeRuns, lastRunAt, now, canceled, exits>>

----------------------------------------------------------------------------
(* The environment *)

Ended(r) == run[r].pc \in {"none", "done", "notStarted", "dead"}

\* The caller of Run cancels its context.
Cancel(r) ==
    /\ ~Ended(r) /\ r \in Cancelable \ canceled
    /\ canceled' = canceled \cup {r}
    /\ UNCHANGED <<store, now, run, faults, exits>>

\* The process exits under some run and is started again.  It is killed, or
\* main returns once the HTTP server is shut down, waiting for no run; nothing
\* at startup looks at the runs left behind.
Exit ==
    /\ exits < MaxExits /\ exits' = exits + 1
    /\ \E r \in Runs : ~Ended(r)
    /\ run' = [r \in Runs |-> IF Ended(r) THEN run[r] ELSE [run[r] EXCEPT !.pc = "dead"]]
    /\ UNCHANGED <<store, now, canceled, faults>>

Tick ==
    /\ now < MaxTime /\ now' = now + 1
    /\ UNCHANGED <<store, run, canceled, faults, exits>>

----------------------------------------------------------------------------

\* What the goroutine of run r does next.
Step(r) ==
    \/ CreateScrapeRun(r) \/ Scrape(r)
    \/ LeaveLoop(r) \/ BeginJob(r) \/ UpsertCompany(r) \/ UpsertJob(r) \/ Tally(r)
    \/ FinishScrapeRun(r) \/ UpdateSourceLastRunAt(r) \/ DeactivateStaleJobs(r)

Next ==
    \/ \E r \in Runs : Trigger(r) \/ Step(r) \/ Cancel(r)
    \/ Exit \/ Tick

\* A started goroutine is scheduled until it ends: every call of it returns.
Fairness == \A r \in Runs : WF_vars(Step(r))

Spec == Init /\ [][Next]_vars /\ Fairness

----------------------------------------------------------------------------
(* Properties *)

PastLoop(r) == run[r].pc \in {"finish", "stamp", "sweep", "done"}

\* One bad posting never takes down the run: once the loop is over, every
\* posting found was tried, and each that did not fail is in the table, seen
\* no earlier than the run began (Run's doc comment).  Only a canceled
\* context cuts the loop short.
EveryPostingHandled ==
    \A r \in Runs : PastLoop(r) /\ r \notin canceled =>
        /\ run[r].new + run[r].duplicate + Cardinality(run[r].failed) = Len(run[r].raws)
        /\ \A i \in DOMAIN run[r].raws \ run[r].failed :
             LET u == run[r].raws[i].url
             IN  u \in DOMAIN jobs /\ jobs[u].lastSeen >= run[r].began

\* A sum over runs.
Total(f) == SumFunction(f)

\* Nothing is counted new twice, and a posting goes uncounted only where a
\* failure was or where a run was cut off: over all runs, overlapping or not,
\* JobsNew is at most the number of rows, and falls short of the canonical rows
\* by no more than JobsFailed and one posting for each run that died, or is
\* between storing a posting and counting it (the comment on counting in Run's
\* loop).
NewCountsDistinctPostings ==
    LET new == Total([r \in Runs |-> run[r].new])
        failed == Total([r \in Runs |-> Cardinality(run[r].failed)])
        cutOff == {r \in Runs : run[r].pc \in {"tally", "dead"}}
        canonical == {u \in DOMAIN jobs : jobs[u].canonical = NULL}
    IN  /\ new <= Cardinality(DOMAIN jobs)
        /\ new + failed + Cardinality(cutOff) >= Cardinality(canonical)

\* A job's company is in the companies table before the job is (the foreign
\* key never fails), whichever half of processJob failed before.
CompanyComesFirst == \A u \in DOMAIN jobs : jobs[u].company \in companies

\* No sweep, of whichever run, turns off a posting seen within the threshold.
InactiveOnlyIfStale ==
    \A u \in DOMAIN jobs : ~jobs[u].active => jobs[u].lastSeen < now - StaleAfter

InTerminalState(r) == scrapeRuns[r] # NULL /\ scrapeRuns[r].status # "running"

\* A run whose row is finished without an error message is complete: whatever
\* calls failed, whenever it was canceled, every posting it found was counted
\* new or duplicate and is in the table, seen no earlier than the run began
\* (RunResult.Errors "collects every problem encountered").
CleanRunsAreComplete ==
    \A r \in Runs : InTerminalState(r) /\ ~scrapeRuns[r].error =>
        /\ scrapeRuns[r].found = Len(run[r].raws)
        /\ scrapeRuns[r].found = scrapeRuns[r].new + scrapeRuns[r].duplicate
        /\ \A i \in DOMAIN run[r].raws :
             LET u == run[r].raws[i].url
             IN  u \in DOMAIN jobs /\ jobs[u].lastSeen >= run[r].began

\* If the process stays up and no store call fails of itself, every run whose
\* CreateScrapeRun returned reaches a terminal state in scrape_runs, also one
\* whose context is canceled midway: the cleanup context outlives the
\* cancellation.
CanceledRunsFinish ==
    [](exits = 0 /\ faults = 0) => \A r \in Runs : At(r, "scrape") ~> InTerminalState(r)

\* Every started goroutine comes to its end, or the process does.
RunsEnd == \A r \in Runs : (run[r].pc = "start") ~> Ended(r)

\* A run that got cut off mid-loop reaches a clean terminal state and is not
\* stuck at "running" forever (the comment before cleanupCtx in Run).
NoRunStaysRunning ==
    \A r \in Runs : At(r, "loop") ~> InTerminalState(r)
=============================================================================
