--------------------------- MODULE PipelineProofs ---------------------------
(***************************************************************************)
(* Theorems about Pipeline, for every set of runs, every bound and          *)
(* everything the scraper may return: whatever calls fail, whichever runs   *)
(* overlap, are canceled or are cut off by an exit of the process.          *)
(*                                                                          *)
(* The inductive invariant says what holds at each point of a run (RunInv)  *)
(* and of the tables (TablesInv); a step of one run disturbs the first only *)
(* for that run, since for the others the tables just grow.                 *)
(***************************************************************************)
EXTENDS Pipeline, JobsTableProofs, Sums

\* What a goroutine's variables hold.
RunState ==
    [pc : PCs, began : Nat, raws : Seq(Raws), next : Nat, scrapeErr : BOOLEAN,
     outcome : Outcomes, new : Nat, duplicate : Nat, failed : SUBSET Nat]

\* Nothing is scraped, tried or counted before Scrape returns.
Fresh(r) ==
    run[r].pc \in {"none", "start", "scrape"} =>
        /\ run[r].raws = << >> /\ run[r].next = 1
        /\ run[r].new = 0 /\ run[r].duplicate = 0 /\ run[r].failed = {}

\* The loop is at one of the postings found.
Within(r) ==
    run[r].pc \in {"loop", "company", "job", "tally"} => run[r].next <= Len(run[r].raws)

\* Every posting before the current one was counted, once.
Counted(r) ==
    /\ run[r].next \in 1..Len(run[r].raws) + 1
    /\ Len(run[r].raws) <= MaxRaw[r]
    /\ run[r].failed \subseteq 1..run[r].next - 1
    /\ run[r].new + run[r].duplicate + Cardinality(run[r].failed) = run[r].next - 1

\* Only a canceled run leaves the loop before its end.
Through(r) == PastLoop(r) /\ r \notin canceled => run[r].next = Len(run[r].raws) + 1

\* Every posting before the current one that did not fail is in the table,
\* seen since the run began.
Handled(r) ==
    /\ run[r].began <= now
    /\ \A i \in 1..run[r].next - 1 : i \notin run[r].failed =>
         LET u == run[r].raws[i].url
         IN  u \in DOMAIN jobs /\ jobs[u].lastSeen >= run[r].began

\* A posting processed and not yet counted is in the table too.
Stored(r) ==
    run[r].pc = "tally" /\ run[r].outcome # "failed" =>
        LET u == Current(r).url
        IN  u \in DOMAIN jobs /\ jobs[u].lastSeen >= run[r].began

\* The company of a posting about to be upserted is in its table.
CompanyReady(r) == run[r].pc = "job" => Current(r).listing.company \in companies

RunInv(r) ==
    /\ Fresh(r) /\ Within(r) /\ Counted(r)
    /\ Through(r) /\ Handled(r) /\ Stored(r) /\ CompanyReady(r)

\* No row was seen in the future.
SeenInPast == \A u \in DOMAIN jobs : jobs[u].lastSeen <= now

\* The rest of the state.
TablesInv ==
    /\ IsTable(jobs) /\ companies \subseteq Companies
    /\ DOMAIN scrapeRuns = Runs
    /\ lastRunAt \in {NULL} \cup 0..MaxTime /\ now \in 0..MaxTime
    /\ canceled \subseteq Runs
    /\ SeenInPast /\ CompanyComesFirst /\ InactiveOnlyIfStale

RowInv(r) ==
    scrapeRuns[r] # NULL =>
        /\ scrapeRuns[r].status \in {"running", "success", "failed"}
        /\ scrapeRuns[r].found \in 0..MaxRaw[r]

PInv ==
    /\ TablesInv
    /\ run \in [Runs -> RunState]
    /\ \A r \in Runs : RunInv(r) /\ RowInv(r)

----------------------------------------------------------------------------
(* What one step of a run does to the runs *)

\* The tables, the clock and the set of canceled runs only grow.
Grows ==
    /\ IsTable(jobs')
    /\ DOMAIN jobs \subseteq DOMAIN jobs'
    /\ \A u \in DOMAIN jobs : jobs'[u].lastSeen >= jobs[u].lastSeen
    /\ companies \subseteq companies' /\ canceled \subseteq canceled'
    /\ now <= now' /\ now' \in Nat

\* A posting found names a url and a listing of it.
LEMMA CurrentIsListing ==
    ASSUME PInv, NEW r \in Runs, NEW i \in 1..Len(run[r].raws)
    PROVE  /\ run[r].raws[i].url \in Urls
           /\ run[r].raws[i].listing \in Serves[run[r].raws[i].url]
           /\ run[r].raws[i].listing \in Listing
<1>1. run[r].raws \in Seq(Raws)
  BY DEF PInv, RunState
<1>2. run[r].raws[i] \in Raws
  BY <1>1
<1> QED
  BY <1>2, ServesAssumption DEF Raws

\* The failures recorded are finitely many, and the current posting is not
\* one of them.
LEMMA FailedIsFinite ==
    ASSUME PInv, NEW r \in Runs
    PROVE  /\ IsFiniteSet(run[r].failed) /\ Cardinality(run[r].failed) \in Nat
           /\ run[r].next \notin run[r].failed
           /\ Cardinality(run[r].failed \cup {run[r].next}) = Cardinality(run[r].failed) + 1
<1>1. /\ run[r].next \in Nat /\ run[r].failed \subseteq 1..run[r].next - 1
  BY DEF PInv, RunState, RunInv, Counted
<1>2. IsFiniteSet(1..run[r].next - 1)
  BY <1>1, FS_Interval
<1>3. IsFiniteSet(run[r].failed) /\ Cardinality(run[r].failed) \in Nat
  BY <1>1, <1>2, FS_Subset, FS_CardinalityType
<1>4. run[r].next \notin run[r].failed
  BY <1>1
<1> QED
  BY <1>3, <1>4, FS_AddElement

\* What a run has handled stays handled: the tables only grow.
LEMMA HandledStays ==
    ASSUME PInv, Grows, NEW q \in Runs
    PROVE  /\ run[q].began \in Nat /\ run[q].began <= now'
           /\ \A i \in 1..run[q].next - 1 : i \notin run[q].failed =>
                /\ run[q].raws[i].url \in DOMAIN jobs'
                /\ jobs'[run[q].raws[i].url].lastSeen >= run[q].began
<1>1. RunInv(q) /\ run[q] \in RunState /\ now \in Nat
  BY MaxTimeAssumption DEF PInv, TablesInv
<1>2. run[q].began \in Nat /\ run[q].began <= now'
  BY <1>1 DEF Grows, RunInv, Handled, RunState
<1>3. ASSUME NEW i \in 1..run[q].next - 1, i \notin run[q].failed
      PROVE  /\ run[q].raws[i].url \in DOMAIN jobs'
             /\ jobs'[run[q].raws[i].url].lastSeen >= run[q].began
  <2> DEFINE u == run[q].raws[i].url
  <2>1. u \in DOMAIN jobs /\ jobs[u].lastSeen >= run[q].began
    BY <1>1, <1>3 DEF RunInv, Handled
  <2>2. jobs[u].lastSeen \in Nat /\ jobs'[u].lastSeen >= jobs[u].lastSeen
    BY <2>1 DEF PInv, TablesInv, IsTable, Row, Grows
  <2>3. u \in DOMAIN jobs' /\ jobs'[u].lastSeen \in Nat
    BY <2>1 DEF Grows, IsTable, Row
  <2> QED
    BY <1>2, <2>1, <2>2, <2>3
<1> QED
  BY <1>2, <1>3

\* And so does the posting it has yet to count.
LEMMA StoredStays ==
    ASSUME PInv, Grows, NEW q \in Runs, run[q].pc = "tally", run[q].outcome # "failed"
    PROVE  /\ Current(q).url \in DOMAIN jobs'
           /\ jobs'[Current(q).url].lastSeen >= run[q].began
<1> DEFINE u == Current(q).url
<1>1. u \in DOMAIN jobs /\ jobs[u].lastSeen >= run[q].began /\ run[q].began \in Nat
  BY DEF PInv, RunInv, Stored, RunState
<1>2. jobs[u].lastSeen \in Nat /\ jobs'[u].lastSeen >= jobs[u].lastSeen
  BY <1>1 DEF PInv, TablesInv, IsTable, Row, Grows
<1>3. u \in DOMAIN jobs' /\ jobs'[u].lastSeen \in Nat
  BY <1>1 DEF Grows, IsTable, Row
<1> QED
  BY <1>1, <1>2, <1>3

\* A run that does not move keeps what was said of it.
LEMMA OthersKeepRunInv ==
    ASSUME PInv, Grows, NEW q \in Runs, run'[q] = run[q]
    PROVE  RunInv(q)'
<1>1. RunInv(q)
  BY DEF PInv
<1>2. Fresh(q)' /\ Within(q)' /\ Counted(q)' /\ Through(q)' /\ CompanyReady(q)'
  BY <1>1
     DEF Grows, RunInv, Fresh, Within, Counted, Through, PastLoop, CompanyReady, Current
<1>3. Handled(q)'
  BY HandledStays DEF Handled
<1>4. Stored(q)'
  BY StoredStays DEF Stored, Current
<1> QED
  BY <1>2, <1>3, <1>4 DEF RunInv

\* A run that moves to another point of the code, its variables unchanged,
\* keeps what was said of it if what is said at that point is so.
LEMMA MoveKeepsRunInv ==
    ASSUME PInv, Grows, NEW r \in Runs, NEW label \in PCs,
           run' = [run EXCEPT ![r].pc = label],
           label \in {"none", "start", "scrape"} =>
               run[r].pc \in {"none", "start", "scrape"},
           label # "tally",
           label \in {"loop", "company", "job"} => run[r].next <= Len(run[r].raws),
           label \in {"finish", "stamp", "sweep", "done"} /\ r \notin canceled' =>
               run[r].next = Len(run[r].raws) + 1,
           label = "job" => Current(r).listing.company \in companies'
    PROVE  run' \in [Runs -> RunState] /\ \A q \in Runs : RunInv(q)'
<1>1. run \in [Runs -> RunState]
  BY DEF PInv
<1>2. run'[r] = [run[r] EXCEPT !.pc = label] /\ \A q \in Runs : q # r => run'[q] = run[q]
  BY <1>1
<1>3. [run[r] EXCEPT !.pc = label] \in RunState
  BY <1>1 DEF RunState
<1>4. run' \in [Runs -> RunState]
  BY <1>1, <1>3
<1>5. \E s \in RunState :
        /\ s = run'[r]
        /\ s.pc = label
        /\ s.began = run[r].began
        /\ s.raws = run[r].raws
        /\ s.next = run[r].next
        /\ s.new = run[r].new
        /\ s.duplicate = run[r].duplicate
        /\ s.failed = run[r].failed
  BY <1>1, <1>2, <1>3 DEF RunState
<1>6. RunInv(r)'
  <2> DEFINE s == run'[r]
  <2>1. /\ s.pc = label
        /\ s.began = run[r].began
        /\ s.raws = run[r].raws
        /\ s.next = run[r].next
        /\ s.new = run[r].new
        /\ s.duplicate = run[r].duplicate
        /\ s.failed = run[r].failed
    BY <1>5
  <2>2. RunInv(r) /\ now \in Nat
    BY MaxTimeAssumption DEF PInv, TablesInv
  <2>3. Fresh(r)' /\ Within(r)' /\ Counted(r)' /\ CompanyReady(r)'
    BY <2>1, <2>2 DEF RunInv, Fresh, Within, Counted, CompanyReady, Current
  <2>4. Through(r)'
    BY <2>1 DEF Through, PastLoop
  <2>5. Handled(r)' /\ Stored(r)'
    BY <2>1, HandledStays DEF Handled, Stored
  <2> QED
    BY <2>3, <2>4, <2>5 DEF RunInv
<1> QED
  BY <1>2, <1>4, <1>6, OthersKeepRunInv

\* How a posting leaves the loop body: it failed, and is recorded so, or it is
\* counted and its row is there, seen since the run began.
PostingFailed(r) ==
    /\ run'[r].failed = run[r].failed \cup {run[r].next}
    /\ run'[r].new = run[r].new /\ run'[r].duplicate = run[r].duplicate

PostingDone(r) ==
    LET u == Current(r).url
    IN  /\ run'[r].failed = run[r].failed
        /\ run'[r].new + run'[r].duplicate = run[r].new + run[r].duplicate + 1
        /\ u \in DOMAIN jobs' /\ jobs'[u].lastSeen >= run[r].began

\* The loop goes on with the next posting.
GoesOn(r) ==
    /\ run' \in [Runs -> RunState]
    /\ \A q \in Runs : q # r => run'[q] = run[q]
    /\ run'[r].pc = NextInLoop(r)
    /\ run'[r].began = run[r].began /\ run'[r].raws = run[r].raws
    /\ run'[r].next = run[r].next + 1

\* A run that is through with a posting keeps what was said of it.
LEMMA AdvanceKeepsRunInv ==
    ASSUME PInv, Grows, NEW r \in Runs, run[r].pc \in {"company", "tally"},
           GoesOn(r), PostingFailed(r) \/ PostingDone(r)
    PROVE  \A q \in Runs : RunInv(q)'
<1>1. /\ RunInv(r) /\ run[r] \in RunState /\ run'[r] \in RunState
      /\ run[r].next \in Nat /\ run[r].new \in Nat /\ run[r].duplicate \in Nat
      /\ run'[r].new \in Nat /\ run'[r].duplicate \in Nat
      /\ run[r].next <= Len(run[r].raws) /\ Len(run[r].raws) \in Nat
      /\ run[r].next >= 1
  BY DEF PInv, GoesOn, RunInv, Within, Counted, RunState
<1>2. /\ run'[r].pc = IF run[r].next = Len(run[r].raws) THEN "finish" ELSE "loop"
      /\ run'[r].began = run[r].began /\ run'[r].raws = run[r].raws
      /\ run'[r].next = run[r].next + 1
  BY DEF GoesOn, NextInLoop
<1>3. Fresh(r)' /\ Within(r)' /\ Through(r)' /\ Stored(r)' /\ CompanyReady(r)'
  BY <1>1, <1>2 DEF Fresh, Within, Through, PastLoop, Stored, CompanyReady
<1>4. Counted(r)'
  <2>1. /\ run[r].failed \subseteq 1..run[r].next - 1
        /\ run[r].new + run[r].duplicate + Cardinality(run[r].failed) = run[r].next - 1
        /\ Len(run[r].raws) <= MaxRaw[r]
    BY <1>1 DEF RunInv, Counted
  <2>2. /\ Cardinality(run[r].failed) \in Nat
        /\ Cardinality(run[r].failed \cup {run[r].next}) = Cardinality(run[r].failed) + 1
    BY FailedIsFinite
  <2>3. /\ run'[r].next \in 1..Len(run'[r].raws) + 1
        /\ Len(run'[r].raws) <= MaxRaw[r]
        /\ run'[r].next - 1 = run[r].next
    BY <1>1, <1>2, <2>1, SMTT(30)
  <2>4. run'[r].failed \subseteq 1..run[r].next
    BY <1>1, <2>1 DEF PostingFailed, PostingDone
  <2>5. run'[r].new + run'[r].duplicate + Cardinality(run'[r].failed) = run[r].next
    <3>0. /\ run[r].next \in Nat /\ run[r].new \in Nat /\ run[r].duplicate \in Nat
          /\ Cardinality(run[r].failed) \in Nat
          /\ run[r].new + run[r].duplicate + Cardinality(run[r].failed) = run[r].next - 1
          /\ run'[r].new \in Nat /\ run'[r].duplicate \in Nat
      BY <1>1, <2>1, <2>2
    <3>1. CASE PostingFailed(r)
      <4>1. Cardinality(run'[r].failed) = Cardinality(run[r].failed) + 1
        BY <2>2, <3>1 DEF PostingFailed
      <4> QED
        BY <3>0, <3>1, <4>1 DEF PostingFailed
    <3>2. CASE PostingDone(r)
      <4>1. Cardinality(run'[r].failed) = Cardinality(run[r].failed)
        BY <3>2 DEF PostingDone
      <4> QED
        BY <3>0, <3>2, <4>1 DEF PostingDone
    <3> QED
      BY <3>1, <3>2
  <2> QED
    BY <2>3, <2>4, <2>5 DEF Counted
<1>5. Handled(r)'
  <2>1. /\ run[r].began \in Nat /\ run[r].began <= now'
        /\ \A i \in 1..run[r].next - 1 : i \notin run[r].failed =>
             /\ run[r].raws[i].url \in DOMAIN jobs'
             /\ jobs'[run[r].raws[i].url].lastSeen >= run[r].began
    BY HandledStays
  <2>2. ASSUME NEW i \in 1..run[r].next, i \notin run'[r].failed
        PROVE  /\ run[r].raws[i].url \in DOMAIN jobs'
               /\ jobs'[run[r].raws[i].url].lastSeen >= run[r].began
    <3>1. i \notin run[r].failed
      BY <2>2 DEF PostingFailed, PostingDone
    <3>2. CASE i # run[r].next
      BY <1>1, <2>1, <3>1, <3>2
    <3>3. CASE i = run[r].next
      BY <2>2, <3>3 DEF PostingFailed, PostingDone, Current
    <3> QED
      BY <3>2, <3>3
  <2>3. 1..run'[r].next - 1 = 1..run[r].next
    BY <1>1, <1>2
  <2> QED
    BY <1>2, <2>1, <2>2, <2>3 DEF Handled
<1>6. RunInv(r)'
  BY <1>3, <1>4, <1>5 DEF RunInv
<1> QED
  BY <1>6, OthersKeepRunInv DEF GoesOn

\* JobFailed and JobDone make the loop go on.
LEMMA JobFailedGoesOn ==
    ASSUME PInv, NEW r \in Runs, JobFailed(r)
    PROVE  GoesOn(r) /\ PostingFailed(r)
<1>1. run \in [Runs -> RunState] /\ NextInLoop(r) \in PCs
  BY DEF PInv, NextInLoop, PCs
<1>2. \E s \in RunState :
        /\ run' = [run EXCEPT ![r] = s]
        /\ s.pc = NextInLoop(r) /\ s.next = run[r].next + 1
        /\ s.began = run[r].began /\ s.raws = run[r].raws
        /\ s.failed = run[r].failed \cup {run[r].next}
        /\ s.new = run[r].new /\ s.duplicate = run[r].duplicate
  <2> DEFINE next == run[r].next + 1
             failed == run[r].failed \cup {run[r].next}
             s == [run[r] EXCEPT !.pc = NextInLoop(r), !.next = next, !.failed = failed]
  <2>0. next \in Nat /\ failed \in SUBSET Nat
    BY <1>1 DEF RunState
  <2>2. run' = [run EXCEPT ![r] = s]
    BY <1>1 DEF JobFailed
  <2> HIDE DEF next, failed
  <2>1. s \in RunState
    BY <1>1, <2>0 DEF RunState
  <2>3. /\ s.pc = NextInLoop(r) /\ s.next = next
        /\ s.began = run[r].began /\ s.raws = run[r].raws
        /\ s.failed = failed
        /\ s.new = run[r].new /\ s.duplicate = run[r].duplicate
    BY <1>1 DEF RunState
  <2> USE DEF next, failed
  <2> QED
    BY <2>1, <2>2, <2>3
<1> QED
  BY <1>1, <1>2 DEF GoesOn, PostingFailed

\* The same for a posting that was processed.
LEMMA JobDoneGoesOn ==
    ASSUME PInv, NEW r \in Runs, JobDone(r)
    PROVE  /\ GoesOn(r)
           /\ run'[r].failed = run[r].failed
           /\ run'[r].new = run[r].new + IF run[r].outcome = "new" THEN 1 ELSE 0
           /\ run'[r].duplicate = run[r].duplicate + IF run[r].outcome = "new" THEN 0 ELSE 1
<1>1. run \in [Runs -> RunState] /\ NextInLoop(r) \in PCs
  BY DEF PInv, NextInLoop, PCs
<1> DEFINE one == IF run[r].outcome = "new" THEN 1 ELSE 0
           other == IF run[r].outcome = "new" THEN 0 ELSE 1
<1>2. one \in Nat /\ other \in Nat
  OBVIOUS
<1>3. run' = [run EXCEPT ![r].pc = NextInLoop(r), ![r].next = @ + 1,
                         ![r].new = @ + one, ![r].duplicate = @ + other]
  BY DEF JobDone
<1> HIDE DEF one, other
<1>4. \E s \in RunState :
        /\ run' = [run EXCEPT ![r] = s]
        /\ s.pc = NextInLoop(r) /\ s.next = run[r].next + 1
        /\ s.began = run[r].began /\ s.raws = run[r].raws
        /\ s.failed = run[r].failed
        /\ s.new = run[r].new + one /\ s.duplicate = run[r].duplicate + other
  <2> DEFINE next == run[r].next + 1
             new == run[r].new + one
             duplicate == run[r].duplicate + other
             s == [run[r] EXCEPT !.pc = NextInLoop(r), !.next = next,
                                 !.new = new, !.duplicate = duplicate]
  <2>0. next \in Nat /\ new \in Nat /\ duplicate \in Nat
    BY <1>1, <1>2 DEF RunState
  <2>2. run' = [run EXCEPT ![r] = s]
    BY <1>1, <1>3
  <2> HIDE DEF next, new, duplicate
  <2>1. s \in RunState
    BY <1>1, <2>0 DEF RunState
  <2>3. /\ s.pc = NextInLoop(r) /\ s.next = next
        /\ s.began = run[r].began /\ s.raws = run[r].raws
        /\ s.failed = run[r].failed
        /\ s.new = new /\ s.duplicate = duplicate
    BY <1>1 DEF RunState
  <2> USE DEF next, new, duplicate
  <2> QED
    BY <2>1, <2>2, <2>3
<1> QED
  BY <1>1, <1>4 DEF GoesOn, one, other

\* What the return from processJob leaves of a run.
LEMMA ReturnsMoves ==
    ASSUME PInv, NEW r \in Runs, NEW o \in Outcomes, Returns(r, o)
    PROVE  /\ run' \in [Runs -> RunState]
           /\ \A q \in Runs : q # r => run'[q] = run[q]
           /\ run'[r].pc = "tally" /\ run'[r].outcome = o
           /\ run'[r].began = run[r].began /\ run'[r].raws = run[r].raws
           /\ run'[r].next = run[r].next
           /\ run'[r].new = run[r].new /\ run'[r].duplicate = run[r].duplicate
           /\ run'[r].failed = run[r].failed
<1> DEFINE s == [run[r] EXCEPT !.pc = "tally", !.outcome = o]
<1>1. run \in [Runs -> RunState] /\ run[r] \in RunState
  BY DEF PInv
<1>2. run' = [run EXCEPT ![r] = s]
  BY <1>1 DEF Returns
<1>3. s \in RunState
  BY <1>1 DEF RunState, PCs
<1>4. /\ s.pc = "tally" /\ s.outcome = o /\ s.began = run[r].began /\ s.raws = run[r].raws
      /\ s.next = run[r].next /\ s.new = run[r].new /\ s.duplicate = run[r].duplicate
      /\ s.failed = run[r].failed
  BY <1>1 DEF RunState
<1> HIDE DEF s
<1> QED
  BY <1>1, <1>2, <1>3, <1>4

\* A run back from processJob keeps what was said of it, provided that a
\* posting that did not fail has its row.
LEMMA ReturnsKeepsRunInv ==
    ASSUME PInv, Grows, NEW r \in Runs, NEW o \in Outcomes, run[r].pc = "job", Returns(r, o),
           o # "failed" =>
               /\ Current(r).url \in DOMAIN jobs'
               /\ jobs'[Current(r).url].lastSeen >= run[r].began
    PROVE  run' \in [Runs -> RunState] /\ \A q \in Runs : RunInv(q)'
<1>1. RunInv(r)
  BY DEF PInv
<1>2. Fresh(r)' /\ Within(r)' /\ Counted(r)' /\ Through(r)' /\ CompanyReady(r)' /\ Stored(r)'
  BY <1>1, ReturnsMoves
     DEF RunInv, Fresh, Within, Counted, Through, PastLoop, CompanyReady, Stored, Current
<1>3. Handled(r)'
  BY ReturnsMoves, HandledStays DEF Handled
<1>4. RunInv(r)'
  BY <1>2, <1>3 DEF RunInv
<1> QED
  BY <1>4, ReturnsMoves, OthersKeepRunInv

----------------------------------------------------------------------------
(* What the statements do to the tables *)

\* Nothing changes but, possibly, the companies, the canceled runs or the
\* clock, which grow.
LEMMA TablesStay ==
    ASSUME PInv, UNCHANGED jobs, companies \subseteq companies', companies' \subseteq Companies,
           canceled \subseteq canceled', canceled' \subseteq Runs,
           now' \in 0..MaxTime, now <= now'
    PROVE  Grows /\ SeenInPast' /\ CompanyComesFirst' /\ InactiveOnlyIfStale'
<1>1. /\ IsTable(jobs) /\ SeenInPast /\ CompanyComesFirst /\ InactiveOnlyIfStale
      /\ now \in Nat /\ now' \in Nat /\ StaleAfter \in Nat
  BY MaxTimeAssumption, StaleAssumption DEF PInv, TablesInv
<1>2. \A u \in DOMAIN jobs : jobs[u].lastSeen \in Nat
  BY <1>1 DEF IsTable, Row
<1> QED
  BY <1>1, <1>2 DEF Grows, SeenInPast, CompanyComesFirst, InactiveOnlyIfStale

\* The statement UpsertJob adds a row seen now, active, of a known company.
LEMMA UpsertedKeeps ==
    ASSUME PInv, NEW r \in Runs, run[r].pc = "job", jobs' \in Upserted(r),
           UNCHANGED <<companies, now, canceled>>
    PROVE  /\ Grows /\ SeenInPast' /\ CompanyComesFirst' /\ InactiveOnlyIfStale'
           /\ DOMAIN jobs' = DOMAIN jobs \cup {Current(r).url}
           /\ jobs'[Current(r).url].lastSeen = now
           /\ \A v \in DOMAIN jobs :
                jobs[v].canonical # NULL => jobs'[v].canonical # NULL
<1> DEFINE u == Current(r).url
           l == Current(r).listing
<1>1. /\ IsTable(jobs) /\ SeenInPast /\ CompanyComesFirst /\ InactiveOnlyIfStale
      /\ now \in Nat /\ StaleAfter \in Nat
  BY MaxTimeAssumption, StaleAssumption DEF PInv, TablesInv
<1>2. run[r].next \in 1..Len(run[r].raws) /\ l.company \in companies
  BY DEF PInv, RunInv, Within, Counted, CompanyReady
<1>3. u \in Urls /\ l \in Listing
  BY <1>2, CurrentIsListing DEF Current
<1>4. jobs' \in UpsertJobTables(jobs, u, l, now)
  BY DEF Upserted, UpsertJobTables
<1> HIDE DEF u, l
<1>5. /\ IsTable(jobs')
      /\ DOMAIN jobs' = DOMAIN jobs \cup {u}
      /\ jobs'[u].lastSeen = now /\ jobs'[u].company = l.company
      /\ jobs'[u].active
      /\ \A v \in DOMAIN jobs : v # u =>
           /\ jobs'[v].lastSeen = jobs[v].lastSeen
           /\ jobs'[v].company = jobs[v].company
           /\ jobs'[v].active = jobs[v].active
      /\ \A v \in DOMAIN jobs : jobs[v].canonical # NULL => jobs'[v].canonical # NULL
  <2>1. UpsertEffect(jobs, u, l, now, jobs')
    BY <1>1, <1>3, <1>4, UpsertJobEffect
  <2> QED
    BY <2>1 DEF UpsertEffect
<1>6. \A v \in DOMAIN jobs : jobs[v].lastSeen \in Nat
  BY <1>1 DEF IsTable, Row
<1>7. Grows
  BY <1>1, <1>5, <1>6 DEF Grows, SeenInPast
<1>8. SeenInPast' /\ CompanyComesFirst'
  BY <1>1, <1>2, <1>5 DEF SeenInPast, CompanyComesFirst
<1>9. InactiveOnlyIfStale'
  BY <1>1, <1>5 DEF InactiveOnlyIfStale
<1> QED
  BY <1>5, <1>7, <1>8, <1>9 DEF u

\* The sweep turns off stale rows only.
LEMMA SweepKeeps ==
    ASSUME PInv, jobs' = Deactivate(jobs, Stale(jobs, now)),
           UNCHANGED <<companies, now, canceled>>
    PROVE  /\ Grows /\ SeenInPast' /\ CompanyComesFirst' /\ InactiveOnlyIfStale'
           /\ DOMAIN jobs' = DOMAIN jobs
           /\ \A v \in DOMAIN jobs : jobs'[v].canonical = jobs[v].canonical
<1>1. /\ IsTable(jobs) /\ SeenInPast /\ CompanyComesFirst /\ InactiveOnlyIfStale
      /\ now \in Nat /\ StaleAfter \in Nat
  BY MaxTimeAssumption, StaleAssumption DEF PInv, TablesInv
<1>2. /\ IsTable(jobs')
      /\ DOMAIN jobs' = DOMAIN jobs
      /\ \A v \in DOMAIN jobs :
           /\ jobs'[v].canonical = jobs[v].canonical
           /\ jobs'[v].company = jobs[v].company
           /\ jobs'[v].lastSeen = jobs[v].lastSeen
           /\ jobs'[v].active = (jobs[v].active /\ v \notin Stale(jobs, now))
  BY <1>1, DeactivateKeeps
<1>3. \A v \in DOMAIN jobs : jobs[v].lastSeen \in Nat
  BY <1>1 DEF IsTable, Row
<1>4. Grows
  BY <1>1, <1>2, <1>3 DEF Grows
<1>5. SeenInPast' /\ CompanyComesFirst'
  BY <1>1, <1>2 DEF SeenInPast, CompanyComesFirst
<1>6. InactiveOnlyIfStale'
  BY <1>1, <1>2 DEF InactiveOnlyIfStale, Stale
<1> QED
  BY <1>2, <1>4, <1>5, <1>6

----------------------------------------------------------------------------
(* Every action keeps the invariant *)

\* The parts of the invariant put together, for a step that leaves
\* scrape_runs alone.
LEMMA PInvAfter ==
    ASSUME PInv, Grows, SeenInPast', CompanyComesFirst', InactiveOnlyIfStale',
           companies' \subseteq Companies, UNCHANGED scrapeRuns,
           lastRunAt' \in {NULL} \cup 0..MaxTime, now' \in 0..MaxTime,
           canceled' \subseteq Runs,
           run' \in [Runs -> RunState], \A q \in Runs : RunInv(q)'
    PROVE  PInv'
<1>1. TablesInv'
  BY DEF PInv, TablesInv, Grows
<1>2. \A q \in Runs : RowInv(q)'
  BY DEF PInv, RowInv
<1> QED
  BY <1>1, <1>2 DEF PInv

\* A step that leaves the tables, the clock and the canceled runs alone.
LEMMA StillTables ==
    ASSUME PInv, UNCHANGED <<jobs, companies, canceled, now>>
    PROVE  /\ Grows /\ SeenInPast' /\ CompanyComesFirst' /\ InactiveOnlyIfStale'
           /\ companies' \subseteq Companies /\ canceled' \subseteq Runs
           /\ now' \in 0..MaxTime
<1>1. /\ companies \subseteq Companies /\ canceled \subseteq Runs
      /\ now \in 0..MaxTime /\ now <= now
  BY MaxTimeAssumption DEF PInv, TablesInv
<1> QED
  BY <1>1, TablesStay

\* A request that is accepted.
LEMMA TriggerStep ==
    ASSUME PInv, NEW r \in Runs, Trigger(r)
    PROVE  PInv'
<1>1. run[r].pc = "none" /\ run' = [run EXCEPT ![r].pc = "start"]
      /\ UNCHANGED <<jobs, companies, scrapeRuns, lastRunAt, canceled, now>>
  BY DEF Trigger, At, Goto, store
<1>2. run' \in [Runs -> RunState] /\ \A q \in Runs : RunInv(q)'
  BY <1>1, StillTables, MoveKeepsRunInv DEF PCs
<1> QED
  BY <1>1, <1>2, StillTables, PInvAfter DEF PInv, TablesInv

\* What the creation of a run's row does to the scrape_runs table.
LEMMA RowCreated ==
    ASSUME PInv, NEW r \in Runs, scrapeRuns' = [scrapeRuns EXCEPT ![r] = Running]
    PROVE  DOMAIN scrapeRuns' = Runs /\ \A q \in Runs : RowInv(q)'
<1>1. DOMAIN scrapeRuns = Runs /\ \A q \in Runs : RowInv(q)
  BY DEF PInv, TablesInv
<1>2. ASSUME NEW q \in Runs PROVE RowInv(q)'
  <2>1. CASE q = r
    BY <1>1, <2>1, RunsAssumption DEF RowInv, Running
  <2>2. CASE q # r
    BY <1>1, <2>2 DEF RowInv
  <2> QED
    BY <2>1, <2>2
<1> QED
  BY <1>1, <1>2

\* CreateScrapeRun returned, or failed with or without a row.
LEMMA CreateScrapeRunEffect ==
    ASSUME NEW r \in Runs, CreateScrapeRun(r)
    PROVE  \/ /\ scrapeRuns' = [scrapeRuns EXCEPT ![r] = Running]
              /\ run' = [run EXCEPT ![r].pc = "scrape", ![r].began = now]
           \/ /\ Goto(r, "notStarted")
              /\ \/ UNCHANGED scrapeRuns
                 \/ scrapeRuns' = [scrapeRuns EXCEPT ![r] = Running]
BY DEF CreateScrapeRun

\* The run's row is created, and the time of its beginning is taken.
LEMMA CreateScrapeRunStep ==
    ASSUME PInv, NEW r \in Runs, CreateScrapeRun(r)
    PROVE  PInv'
<1>1. run[r].pc = "start" /\ UNCHANGED <<jobs, companies, lastRunAt, canceled, now>>
  BY DEF CreateScrapeRun, At
<1>2. CASE Goto(r, "notStarted")
  <2>1. run' \in [Runs -> RunState] /\ \A q \in Runs : RunInv(q)'
    BY <1>1, <1>2, StillTables, MoveKeepsRunInv DEF PCs, Goto
  <2>2. CASE UNCHANGED scrapeRuns
    BY <1>1, <2>1, <2>2, StillTables, PInvAfter DEF PInv, TablesInv
  <2>3. CASE scrapeRuns' = [scrapeRuns EXCEPT ![r] = Running]
    BY <1>1, <2>1, <2>3, RowCreated, StillTables DEF PInv, TablesInv, Grows
  <2> QED
    BY <1>2, <2>2, <2>3, CreateScrapeRunEffect
<1>3. CASE /\ scrapeRuns' = [scrapeRuns EXCEPT ![r] = Running]
           /\ run' = [run EXCEPT ![r].pc = "scrape", ![r].began = now]
  <2>1. /\ run \in [Runs -> RunState] /\ run[r] \in RunState /\ RunInv(r)
        /\ now \in Nat /\ DOMAIN scrapeRuns = Runs /\ MaxRaw[r] \in Nat
    BY MaxTimeAssumption, RunsAssumption DEF PInv, TablesInv
  <2>2. \E s \in RunState :
          /\ run' = [run EXCEPT ![r] = s]
          /\ s.pc = "scrape" /\ s.began = now /\ s.raws = run[r].raws
          /\ s.next = run[r].next /\ s.new = run[r].new
          /\ s.duplicate = run[r].duplicate /\ s.failed = run[r].failed
    <3> DEFINE s == [run[r] EXCEPT !.pc = "scrape", !.began = now]
    <3>1. s \in RunState
      BY <2>1 DEF RunState, PCs
    <3>2. run' = [run EXCEPT ![r] = s]
      BY <1>3, <2>1
    <3> QED
      BY <2>1, <3>1, <3>2 DEF RunState
  <2>3. PICK s \in RunState :
          /\ run' = [run EXCEPT ![r] = s]
          /\ s.pc = "scrape" /\ s.began = now /\ s.raws = run[r].raws
          /\ s.next = run[r].next /\ s.new = run[r].new
          /\ s.duplicate = run[r].duplicate /\ s.failed = run[r].failed
    BY <2>2
  <2>4. /\ run' \in [Runs -> RunState] /\ run'[r] = s
        /\ \A q \in Runs : q # r => run'[q] = run[q]
    BY <2>1, <2>3
  <2>5. Fresh(r)' /\ Within(r)' /\ Counted(r)' /\ Through(r)' /\ CompanyReady(r)'
    BY <1>1, <2>1, <2>3, <2>4
       DEF RunInv, Fresh, Within, Counted, Through, PastLoop, CompanyReady
  <2>6. Handled(r)' /\ Stored(r)'
    BY <1>1, <2>1, <2>3, <2>4 DEF RunInv, Fresh, Handled, Stored
  <2>7. \A q \in Runs : RunInv(q)'
    BY <1>1, <2>4, <2>5, <2>6, StillTables, OthersKeepRunInv DEF RunInv
  <2>8. TablesInv'
    BY <1>1, <1>3, <2>1, StillTables, RowCreated DEF PInv, TablesInv, Grows
  <2> QED
    BY <1>3, <2>4, <2>7, <2>8, RowCreated DEF PInv
<1> QED
  BY <1>2, <1>3, CreateScrapeRunEffect

\* Scrape returns: the loop begins at the first of the postings, or is over.
LEMMA ScrapeStep ==
    ASSUME PInv, NEW r \in Runs, Scrape(r)
    PROVE  PInv'
<1>1. /\ run[r].pc = "scrape"
      /\ UNCHANGED <<jobs, companies, scrapeRuns, lastRunAt, canceled, now>>
  BY DEF Scrape, At, store
<1>2. /\ run \in [Runs -> RunState] /\ run[r] \in RunState /\ RunInv(r)
      /\ MaxRaw[r] \in Nat
  BY RunsAssumption DEF PInv
<1>3. PICK n \in 0..MaxRaw[r] : \E raws \in [1..n -> Raws] : \E err \in BOOLEAN :
        run' = [run EXCEPT ![r].pc = IF n = 0 THEN "finish" ELSE "loop",
                           ![r].raws = raws, ![r].scrapeErr = err]
  BY DEF Scrape
<1>4. PICK raws \in [1..n -> Raws] : \E err \in BOOLEAN :
        run' = [run EXCEPT ![r].pc = IF n = 0 THEN "finish" ELSE "loop",
                           ![r].raws = raws, ![r].scrapeErr = err]
  BY <1>3
<1>5. PICK err \in BOOLEAN :
        run' = [run EXCEPT ![r].pc = IF n = 0 THEN "finish" ELSE "loop",
                           ![r].raws = raws, ![r].scrapeErr = err]
  BY <1>4
<1> DEFINE label == IF n = 0 THEN "finish" ELSE "loop"
<1>6. /\ raws \in Seq(Raws) /\ Len(raws) = n /\ n \in Nat /\ n <= MaxRaw[r]
      /\ label \in PCs
  BY <1>2 DEF PCs
<1>7. \E s \in RunState :
        /\ run' = [run EXCEPT ![r] = s]
        /\ s.pc = label /\ s.began = run[r].began /\ s.raws = raws
        /\ s.next = run[r].next /\ s.new = run[r].new
        /\ s.duplicate = run[r].duplicate /\ s.failed = run[r].failed
  <2> DEFINE s == [run[r] EXCEPT !.pc = label, !.raws = raws, !.scrapeErr = err]
  <2>2. run' = [run EXCEPT ![r] = s]
    BY <1>2, <1>5
  <2> HIDE DEF label
  <2>1. s \in RunState
    BY <1>2, <1>6 DEF RunState
  <2>3. /\ s.pc = label /\ s.began = run[r].began /\ s.raws = raws
        /\ s.next = run[r].next /\ s.new = run[r].new
        /\ s.duplicate = run[r].duplicate /\ s.failed = run[r].failed
    BY <1>2 DEF RunState
  <2> HIDE DEF s
  <2> QED
    BY <2>1, <2>2, <2>3
<1>8. PICK s \in RunState :
        /\ run' = [run EXCEPT ![r] = s]
        /\ s.pc = label /\ s.began = run[r].began /\ s.raws = raws
        /\ s.next = run[r].next /\ s.new = run[r].new
        /\ s.duplicate = run[r].duplicate /\ s.failed = run[r].failed
  BY <1>7
<1>9. /\ run' \in [Runs -> RunState] /\ run'[r] = s
      /\ \A q \in Runs : q # r => run'[q] = run[q]
  BY <1>2, <1>8
<1>10. /\ s.next = 1 /\ s.new = 0 /\ s.duplicate = 0 /\ s.failed = {}
      /\ s.began <= now
  BY <1>1, <1>2, <1>8 DEF RunInv, Fresh, Handled
<1>11. /\ Fresh(r)' /\ Within(r)' /\ Through(r)' /\ CompanyReady(r)' /\ Handled(r)'
       /\ Stored(r)'
  BY <1>1, <1>6, <1>8, <1>9, <1>10
     DEF Fresh, Within, Through, PastLoop, CompanyReady, Handled, Stored
<1>12. Counted(r)'
  <2>1. Cardinality(s.failed) = 0
    BY <1>10, FS_EmptySet
  <2>2. 1 \in 1..n + 1 /\ {} \subseteq 1..1 - 1 /\ 0 + 0 + 0 = 1 - 1
    BY <1>6
  <2> HIDE DEF label
  <2> QED
    BY <1>6, <1>8, <1>9, <1>10, <2>1, <2>2 DEF Counted
<1>13. \A q \in Runs : RunInv(q)'
  BY <1>1, <1>9, <1>11, <1>12, StillTables, OthersKeepRunInv DEF RunInv
<1> QED
  BY <1>1, <1>9, <1>13, StillTables, PInvAfter DEF PInv, TablesInv

\* The loop is left because the run is canceled.
LEMMA LeaveLoopStep ==
    ASSUME PInv, NEW r \in Runs, LeaveLoop(r)
    PROVE  PInv'
<1>1. /\ run[r].pc = "loop" /\ run' = [run EXCEPT ![r].pc = "finish"] /\ r \in canceled
      /\ UNCHANGED <<jobs, companies, scrapeRuns, lastRunAt, canceled, now>>
  BY DEF LeaveLoop, At, Goto, store, CtxDone
<1>2. run' \in [Runs -> RunState] /\ \A q \in Runs : RunInv(q)'
  BY <1>1, StillTables, MoveKeepsRunInv DEF PCs
<1> QED
  BY <1>1, <1>2, StillTables, PInvAfter DEF PInv, TablesInv

\* Or the next posting is taken.
LEMMA BeginJobStep ==
    ASSUME PInv, NEW r \in Runs, BeginJob(r)
    PROVE  PInv'
<1>1. /\ run[r].pc = "loop" /\ run' = [run EXCEPT ![r].pc = "company"]
      /\ UNCHANGED <<jobs, companies, scrapeRuns, lastRunAt, canceled, now>>
  BY DEF BeginJob, At, Goto, store
<1>2. run[r].next <= Len(run[r].raws)
  BY <1>1 DEF PInv, RunInv, Within
<1>3. run' \in [Runs -> RunState] /\ \A q \in Runs : RunInv(q)'
  BY <1>1, <1>2, StillTables, MoveKeepsRunInv DEF PCs
<1> QED
  BY <1>1, <1>3, StillTables, PInvAfter DEF PInv, TablesInv

\* The company of a posting is in its table before the job is.
LEMMA UpsertCompanyStep ==
    ASSUME PInv, NEW r \in Runs, UpsertCompany(r)
    PROVE  PInv'
<1>1. /\ run[r].pc = "company"
      /\ UNCHANGED <<jobs, scrapeRuns, lastRunAt, canceled, now>>
  BY DEF UpsertCompany, At
<1>2. /\ run[r].next \in 1..Len(run[r].raws)
      /\ companies \subseteq Companies /\ canceled \subseteq Runs
      /\ lastRunAt \in {NULL} \cup 0..MaxTime
      /\ now \in 0..MaxTime /\ now <= now
  BY <1>1, MaxTimeAssumption DEF PInv, TablesInv, RunInv, Within, Counted
<1>3. Current(r).listing.company \in Companies
  BY <1>2, CurrentIsListing DEF Current, Listing
<1>4. /\ companies' = companies \/ companies' = CompanyUpserted(r)
      /\ JobFailed(r) \/ (Goto(r, "job") /\ companies' = CompanyUpserted(r))
  BY DEF UpsertCompany
<1>5. companies \subseteq companies' /\ companies' \subseteq Companies
  BY <1>2, <1>3, <1>4 DEF CompanyUpserted
<1>6. Grows /\ SeenInPast' /\ CompanyComesFirst' /\ InactiveOnlyIfStale'
  BY <1>1, <1>2, <1>5, TablesStay
<1>7. run' \in [Runs -> RunState] /\ \A q \in Runs : RunInv(q)'
  <2>1. CASE JobFailed(r)
    BY <1>1, <1>6, <2>1, JobFailedGoesOn, AdvanceKeepsRunInv DEF GoesOn
  <2>2. CASE Goto(r, "job") /\ companies' = CompanyUpserted(r)
    <3>1. /\ "job" \in PCs /\ Current(r).listing.company \in companies'
          /\ run[r].next <= Len(run[r].raws) /\ run' = [run EXCEPT ![r].pc = "job"]
      BY <1>2, <2>2 DEF PCs, Goto, CompanyUpserted
    <3> QED
      BY <1>6, <3>1, MoveKeepsRunInv
  <2> QED
    BY <1>4, <2>1, <2>2
<1> QED
  BY <1>1, <1>2, <1>5, <1>6, <1>7, PInvAfter

\* How UpsertJob returns: its outcome, and the table it left.
LEMMA UpsertJobReturns ==
    ASSUME NEW r \in Runs, UpsertJob(r)
    PROVE  \E o \in Outcomes :
             /\ Returns(r, o)
             /\ \/ o = "failed" /\ UNCHANGED jobs
                \/ o = "failed" /\ jobs' \in Upserted(r)
                \/ /\ jobs' \in Upserted(r)
                   /\ o = IF IsNew(jobs, jobs', Current(r).url) THEN "new" ELSE "duplicate"
BY DEF UpsertJob, Outcomes

\* The posting is stored, or reported as failed whatever its transaction left
\* behind.
LEMMA UpsertJobStep ==
    ASSUME PInv, NEW r \in Runs, UpsertJob(r)
    PROVE  PInv'
<1>1. /\ run[r].pc = "job"
      /\ UNCHANGED <<companies, scrapeRuns, lastRunAt, now, canceled>>
  BY DEF UpsertJob, At
<1>2. /\ companies' \subseteq Companies /\ canceled' \subseteq Runs
      /\ lastRunAt' \in {NULL} \cup 0..MaxTime /\ now' \in 0..MaxTime
  BY <1>1 DEF PInv, TablesInv
<1>3. PICK o \in Outcomes :
        /\ Returns(r, o)
        /\ \/ o = "failed" /\ UNCHANGED jobs
           \/ o = "failed" /\ jobs' \in Upserted(r)
           \/ /\ jobs' \in Upserted(r)
              /\ o = IF IsNew(jobs, jobs', Current(r).url) THEN "new" ELSE "duplicate"
  BY UpsertJobReturns
<1>4. /\ Grows /\ SeenInPast' /\ CompanyComesFirst' /\ InactiveOnlyIfStale'
      /\ o # "failed" => /\ Current(r).url \in DOMAIN jobs'
                         /\ jobs'[Current(r).url].lastSeen >= run[r].began
  <2>1. CASE UNCHANGED jobs /\ o = "failed"
    BY <1>1, <2>1, StillTables
  <2>2. CASE jobs' \in Upserted(r)
    <3>1. run[r].began <= now
      BY DEF PInv, RunInv, Handled
    <3> QED
      BY <1>1, <2>2, <3>1, UpsertedKeeps
  <2> QED
    BY <1>3, <2>1, <2>2
<1> QED
  BY <1>1, <1>2, <1>3, <1>4, ReturnsKeepsRunInv, PInvAfter

\* The posting is counted, or recorded as failed.
LEMMA TallyStep ==
    ASSUME PInv, NEW r \in Runs, Tally(r)
    PROVE  PInv'
<1>1. /\ run[r].pc = "tally"
      /\ UNCHANGED <<jobs, companies, scrapeRuns, lastRunAt, canceled, now>>
      /\ IF run[r].outcome = "failed" THEN JobFailed(r) ELSE JobDone(r)
  BY DEF Tally, At, store
<1>2. /\ run[r].new \in Nat /\ run[r].duplicate \in Nat /\ RunInv(r)
  BY DEF PInv, RunState
<1>3. GoesOn(r) /\ (PostingFailed(r) \/ PostingDone(r))
  <2>1. CASE run[r].outcome = "failed"
    BY <1>1, <2>1, JobFailedGoesOn
  <2>2. CASE run[r].outcome # "failed"
    <3>1. /\ GoesOn(r) /\ run'[r].failed = run[r].failed
          /\ run'[r].new = run[r].new + IF run[r].outcome = "new" THEN 1 ELSE 0
          /\ run'[r].duplicate = run[r].duplicate + IF run[r].outcome = "new" THEN 0 ELSE 1
      BY <1>1, <2>2, JobDoneGoesOn
    <3>2. run'[r].new + run'[r].duplicate = run[r].new + run[r].duplicate + 1
      BY <1>2, <3>1
    <3>3. Stored(r)
      BY <1>2 DEF RunInv
    <3> QED
      BY <1>1, <2>2, <3>1, <3>2, <3>3 DEF PostingDone, Stored
  <2> QED
    BY <2>1, <2>2
<1>4. \A q \in Runs : RunInv(q)'
  BY <1>1, <1>3, StillTables, AdvanceKeepsRunInv
<1> QED
  BY <1>1, <1>3, <1>4, StillTables, PInvAfter DEF PInv, TablesInv, GoesOn

\* The three calls of the cleanup, each done or failed, move the run on.
LEMMA CleanupKeepsRunInv ==
    ASSUME PInv, Grows, UNCHANGED canceled, NEW r \in Runs, NEW label \in PCs,
           PastLoop(r), run' = [run EXCEPT ![r].pc = label],
           label \in {"stamp", "sweep", "done"}
    PROVE  run' \in [Runs -> RunState] /\ \A q \in Runs : RunInv(q)'
<1>1. r \notin canceled' => run[r].next = Len(run[r].raws) + 1
  BY DEF PInv, RunInv, Through
<1> QED
  BY <1>1, MoveKeepsRunInv

\* The outcome of the run is written to its row.
LEMMA FinishScrapeRunStep ==
    ASSUME PInv, NEW r \in Runs, FinishScrapeRun(r)
    PROVE  PInv'
<1>1. /\ run[r].pc = "finish" /\ run' = [run EXCEPT ![r].pc = "stamp"]
      /\ UNCHANGED <<jobs, companies, lastRunAt, canceled, now>>
  BY DEF FinishScrapeRun, At, Goto
<1>2. run' \in [Runs -> RunState] /\ \A q \in Runs : RunInv(q)'
  BY <1>1, StillTables, CleanupKeepsRunInv DEF PCs, PastLoop
<1>3. CASE UNCHANGED scrapeRuns
  BY <1>1, <1>2, <1>3, StillTables, PInvAfter DEF PInv, TablesInv
<1>4. ASSUME NEW e,
             scrapeRuns' = [scrapeRuns EXCEPT ![r] =
                [status |-> Status(r), found |-> Len(run[r].raws), new |-> run[r].new,
                 duplicate |-> run[r].duplicate, error |-> e]]
      PROVE  PInv'
  <2>1. /\ DOMAIN scrapeRuns = Runs /\ \A q \in Runs : RowInv(q)
        /\ Len(run[r].raws) \in Nat /\ Len(run[r].raws) <= MaxRaw[r] /\ MaxRaw[r] \in Nat
    BY RunsAssumption DEF PInv, TablesInv, RunInv, Counted, RunState
  <2>2. Len(run[r].raws) \in 0..MaxRaw[r] /\ Status(r) \in {"failed", "success"}
    BY <2>1 DEF Status
  <2>3. \A q \in Runs : RowInv(q)'
    <3>1. ASSUME NEW q \in Runs PROVE RowInv(q)'
      <4>1. CASE q = r
        BY <1>4, <2>1, <2>2, <4>1 DEF RowInv
      <4>2. CASE q # r
        BY <1>4, <2>1, <4>2 DEF RowInv
      <4> QED
        BY <4>1, <4>2
    <3> QED
      BY <3>1
  <2>4. TablesInv'
    BY <1>1, <1>4, <2>1, StillTables DEF PInv, TablesInv, Grows
  <2> QED
    BY <1>2, <2>3, <2>4 DEF PInv
<1> QED
  BY <1>3, <1>4 DEF FinishScrapeRun, Finished

\* The source is stamped.
LEMMA UpdateSourceLastRunAtStep ==
    ASSUME PInv, NEW r \in Runs, UpdateSourceLastRunAt(r)
    PROVE  PInv'
<1>1. /\ run[r].pc = "stamp" /\ run' = [run EXCEPT ![r].pc = "sweep"]
      /\ UNCHANGED <<jobs, companies, scrapeRuns, canceled, now>>
      /\ lastRunAt' = now \/ lastRunAt' = lastRunAt
  BY DEF UpdateSourceLastRunAt, At, Goto
<1>2. run' \in [Runs -> RunState] /\ \A q \in Runs : RunInv(q)'
  BY <1>1, StillTables, CleanupKeepsRunInv DEF PCs, PastLoop
<1> QED
  BY <1>1, <1>2, StillTables, PInvAfter DEF PInv, TablesInv

\* The sweep.
LEMMA DeactivateStaleJobsStep ==
    ASSUME PInv, NEW r \in Runs, DeactivateStaleJobs(r)
    PROVE  PInv'
<1>1. /\ run[r].pc = "sweep" /\ run' = [run EXCEPT ![r].pc = "done"]
      /\ UNCHANGED <<companies, scrapeRuns, lastRunAt, canceled, now>>
      /\ jobs' = Deactivate(jobs, Stale(jobs, now)) \/ UNCHANGED jobs
  BY DEF DeactivateStaleJobs, At, Goto
<1>2. /\ Grows /\ SeenInPast' /\ CompanyComesFirst' /\ InactiveOnlyIfStale'
  BY <1>1, StillTables, SweepKeeps
<1>3. run' \in [Runs -> RunState] /\ \A q \in Runs : RunInv(q)'
  BY <1>1, <1>2, CleanupKeepsRunInv DEF PCs, PastLoop
<1> QED
  BY <1>1, <1>2, <1>3, PInvAfter DEF PInv, TablesInv

\* A caller cancels its run.
LEMMA CancelStep ==
    ASSUME PInv, NEW r \in Runs, Cancel(r)
    PROVE  PInv'
<1>1. /\ canceled' = canceled \cup {r}
      /\ UNCHANGED <<jobs, companies, scrapeRuns, lastRunAt, run, now>>
  BY DEF Cancel, store
<1>2. /\ canceled \subseteq canceled' /\ canceled' \subseteq Runs
      /\ companies \subseteq Companies /\ now \in 0..MaxTime /\ now <= now
      /\ lastRunAt \in {NULL} \cup 0..MaxTime
  BY <1>1, MaxTimeAssumption DEF PInv, TablesInv
<1>3. Grows /\ SeenInPast' /\ CompanyComesFirst' /\ InactiveOnlyIfStale'
  BY <1>1, <1>2, TablesStay
<1>4. run' \in [Runs -> RunState] /\ \A q \in Runs : RunInv(q)'
  BY <1>1, <1>3, OthersKeepRunInv DEF PInv
<1> QED
  BY <1>1, <1>2, <1>3, <1>4, PInvAfter

\* The clock ticks.
LEMMA TickStep ==
    ASSUME PInv, Tick
    PROVE  PInv'
<1>1. UNCHANGED <<jobs, companies, scrapeRuns, lastRunAt, run, canceled>>
  BY DEF Tick, store
<1>2. /\ companies \subseteq Companies /\ canceled \subseteq Runs
      /\ now' \in 0..MaxTime /\ now <= now'
      /\ lastRunAt \in {NULL} \cup 0..MaxTime
  BY MaxTimeAssumption DEF PInv, TablesInv, Tick
<1>3. Grows /\ SeenInPast' /\ CompanyComesFirst' /\ InactiveOnlyIfStale'
  BY <1>1, <1>2, TablesStay
<1>4. run' \in [Runs -> RunState] /\ \A q \in Runs : RunInv(q)'
  BY <1>1, <1>3, OthersKeepRunInv DEF PInv
<1> QED
  BY <1>1, <1>2, <1>3, <1>4, PInvAfter

\* The process exits: its runs stop where they are.
LEMMA ExitStep ==
    ASSUME PInv, Exit
    PROVE  PInv'
<1>1. /\ run' = [r \in Runs |-> IF Ended(r) THEN run[r] ELSE [run[r] EXCEPT !.pc = "dead"]]
      /\ UNCHANGED <<jobs, companies, scrapeRuns, lastRunAt, canceled, now>>
  BY DEF Exit, store
<1>2. Grows
  BY <1>1, StillTables
<1>3. ASSUME NEW q \in Runs
      PROVE  run'[q] \in RunState /\ RunInv(q)'
  <2>1. run[q] \in RunState /\ RunInv(q)
    BY DEF PInv
  <2>2. CASE Ended(q)
    BY <1>1, <1>2, <2>1, <2>2, OthersKeepRunInv
  <2>3. CASE ~Ended(q)
    <3>1. run'[q] = [run[q] EXCEPT !.pc = "dead"]
      BY <1>1, <2>3
    <3>2. run'[q] \in RunState
      BY <2>1, <3>1 DEF RunState, PCs
    <3>3. /\ run'[q].pc = "dead" /\ run'[q].began = run[q].began
          /\ run'[q].raws = run[q].raws /\ run'[q].next = run[q].next
          /\ run'[q].new = run[q].new /\ run'[q].duplicate = run[q].duplicate
          /\ run'[q].failed = run[q].failed
      BY <2>1, <3>1 DEF RunState
    <3>4. Fresh(q)' /\ Within(q)' /\ Counted(q)' /\ Through(q)' /\ CompanyReady(q)'
      BY <2>1, <3>3 DEF RunInv, Fresh, Within, Counted, Through, PastLoop, CompanyReady
    <3>5. Handled(q)' /\ Stored(q)'
      BY <1>2, <3>3, HandledStays DEF Handled, Stored
    <3> QED
      BY <3>2, <3>4, <3>5 DEF RunInv
  <2> QED
    BY <2>2, <2>3
<1>4. run' \in [Runs -> RunState]
  BY <1>1, <1>3
<1> QED
  BY <1>1, <1>3, <1>4, StillTables, PInvAfter DEF PInv, TablesInv

----------------------------------------------------------------------------
(* The theorems *)

\* Nothing is stored and nothing runs at the start.
LEMMA InitPInv == Init => PInv
<1> SUFFICES ASSUME Init PROVE PInv
  OBVIOUS
<1>1. Idle \in RunState
  BY DEF Idle, RunState, PCs, Outcomes
<1>2. run \in [Runs -> RunState] /\ \A r \in Runs : run[r] = Idle
  BY <1>1 DEF Init
<1>3. IsTable(jobs) /\ DOMAIN jobs = {}
  BY DEF Init, IsTable
<1>4. TablesInv
  BY <1>3, MaxTimeAssumption
     DEF Init, TablesInv, SeenInPast, CompanyComesFirst, InactiveOnlyIfStale
<1>5. \A r \in Runs : RowInv(r)
  BY DEF Init, RowInv
<1>6. ASSUME NEW r \in Runs PROVE RunInv(r)
  <2>1. /\ run[r].pc = "none" /\ run[r].began = 0 /\ run[r].raws = << >>
        /\ run[r].next = 1 /\ run[r].new = 0 /\ run[r].duplicate = 0
        /\ run[r].failed = {}
    BY <1>2 DEF Idle
  <2>2. Fresh(r) /\ Within(r) /\ Through(r) /\ CompanyReady(r)
    BY <2>1 DEF Fresh, Within, Through, PastLoop, CompanyReady
  <2>3. Counted(r)
    BY <2>1, FS_EmptySet, RunsAssumption DEF Counted
  <2>4. Handled(r) /\ Stored(r)
    BY <2>1 DEF Init, Handled, Stored
  <2> QED
    BY <2>2, <2>3, <2>4 DEF RunInv
<1> QED
  BY <1>2, <1>4, <1>5, <1>6 DEF PInv

\* Every step keeps the invariant.
LEMMA NextKeepsPInv == PInv /\ [Next]_vars => PInv'
<1> SUFFICES ASSUME PInv, [Next]_vars PROVE PInv'
  OBVIOUS
<1>1. ASSUME NEW r \in Runs, Trigger(r) \/ Step(r) \/ Cancel(r)
      PROVE  PInv'
  BY <1>1, TriggerStep, CreateScrapeRunStep, ScrapeStep, LeaveLoopStep,
     BeginJobStep, UpsertCompanyStep, UpsertJobStep, TallyStep, FinishScrapeRunStep,
     UpdateSourceLastRunAtStep, DeactivateStaleJobsStep, CancelStep DEF Step
<1>2. CASE UNCHANGED vars
  <2>1. UNCHANGED <<jobs, companies, scrapeRuns, lastRunAt, run, canceled, now>>
    BY <1>2 DEF vars, store
  <2>2. run' \in [Runs -> RunState] /\ \A q \in Runs : RunInv(q)'
    BY <2>1, StillTables, OthersKeepRunInv DEF PInv
  <2> QED
    BY <2>1, <2>2, StillTables, PInvAfter DEF PInv, TablesInv
<1> QED
  BY <1>1, <1>2, ExitStep, TickStep DEF Next

\* The invariant holds in every state.
LEMMA PInvAlways == Spec => []PInv
BY InitPInv, NextKeepsPInv, PTL DEF Spec

\* Every variable holds what the code can put there, whichever runs overlap,
\* fail, are canceled or are cut off.
THEOREM RunsTypeOK == Spec => []TypeOK
<1>1. PInv => TypeOK
  BY DEF PInv, TablesInv, RunInv, Counted, RowInv, RunState, TypeOK
<1> QED
  BY <1>1, PInvAlways, PTL

\* A job never comes before its company: each run upserts the company of the
\* posting it is at before the job, and no company is ever removed.
THEOREM RunsCompanyFirst == Spec => []CompanyComesFirst
<1>1. PInv => CompanyComesFirst
  BY DEF PInv, TablesInv
<1> QED
  BY <1>1, PInvAlways, PTL

\* No posting seen within the threshold is inactive, however many runs sweep,
\* and whichever of them failed or was canceled.
THEOREM RunsSweepStaleOnly == Spec => []InactiveOnlyIfStale
<1>1. PInv => InactiveOnlyIfStale
  BY DEF PInv, TablesInv
<1> QED
  BY <1>1, PInvAlways, PTL

\* A run past its loop and not canceled tried every posting found: each is
\* counted new or duplicate, or recorded as failed, and each that did not fail
\* has its row, seen since the run began.
THEOREM RunsHandleEveryPosting == Spec => []EveryPostingHandled
<1>1. PInv => EveryPostingHandled
  <2> SUFFICES ASSUME PInv, NEW r \in Runs, PastLoop(r), r \notin canceled
               PROVE  /\ run[r].new + run[r].duplicate + Cardinality(run[r].failed)
                             = Len(run[r].raws)
                      /\ \A i \in DOMAIN run[r].raws \ run[r].failed :
                           LET u == run[r].raws[i].url
                           IN  u \in DOMAIN jobs /\ jobs[u].lastSeen >= run[r].began
    BY DEF EveryPostingHandled
  <2>1. RunInv(r) /\ run[r] \in RunState
    BY DEF PInv
  <2>2. /\ run[r].next = Len(run[r].raws) + 1 /\ Len(run[r].raws) \in Nat
        /\ run[r].next - 1 = Len(run[r].raws)
        /\ DOMAIN run[r].raws = 1..Len(run[r].raws)
    BY <2>1 DEF RunInv, Through, RunState
  <2> QED
    BY <2>1, <2>2 DEF RunInv, Counted, Handled
<1> QED
  BY <1>1, PInvAlways, PTL

----------------------------------------------------------------------------
(* What is counted new, over all the runs *)

News == [r \in Runs |-> run[r].new]
Failures == [r \in Runs |-> Cardinality(run[r].failed)]
Canonicals == {u \in DOMAIN jobs : jobs[u].canonical = NULL}

\* The runs whose posting, stored, is yet to be counted, or never will be.
PendingNew == {r \in Runs : run[r].pc = "tally" /\ run[r].outcome = "new"}
Pending == {r \in Runs : run[r].pc \in {"tally", "dead"} /\ run[r].outcome # "duplicate"}

\* NewCountsDistinctPostings, with what is yet to be counted, and what its
\* cardinalities need.
CountInv ==
    /\ IsFiniteSet(DOMAIN jobs)
    /\ Total(News) + Cardinality(PendingNew) <= Cardinality(DOMAIN jobs)
    /\ Total(News) + Total(Failures) + Cardinality(Pending) >= Cardinality(Canonicals)

LEMMA PendingIsFinite ==
    /\ IsFiniteSet(PendingNew) /\ Cardinality(PendingNew) \in Nat
    /\ IsFiniteSet(Pending) /\ Cardinality(Pending) \in Nat
<1>1. PendingNew \subseteq Runs /\ Pending \subseteq Runs
  BY DEF PendingNew, Pending
<1> QED
  BY <1>1, RunsAssumption, FS_Subset, FS_CardinalityType

\* The counts are numbers.
LEMMA TotalsAreInt ==
    ASSUME PInv
    PROVE  Total(News) \in Int /\ Total(Failures) \in Int
<1>1. \A q \in Runs : run[q].new \in Int /\ Cardinality(run[q].failed) \in Int
  <2>1. \A q \in Runs : run[q].new \in Nat
    BY DEF PInv, RunState
  <2>2. \A q \in Runs : Cardinality(run[q].failed) \in Nat
    BY FailedIsFinite
  <2> QED
    BY <2>1, <2>2
<1>2. /\ DOMAIN News = Runs /\ DOMAIN Failures = Runs
      /\ \A q \in Runs : News[q] \in Int /\ Failures[q] \in Int
  BY <1>1 DEF News, Failures
<1>3. SumFunctionOnSet(News, Runs) \in Int /\ SumFunctionOnSet(Failures, Runs) \in Int
  BY <1>2, RunsAssumption, SumType
<1> QED
  BY <1>2, <1>3 DEF Total, SumFunction

\* Only those of the run that moves change.
LEMMA TotalsChange ==
    ASSUME PInv, PInv', NEW r \in Runs,
           \A q \in Runs : q # r => run'[q].new = run[q].new /\ run'[q].failed = run[q].failed
    PROVE  /\ Total(News) \in Int /\ Total(Failures) \in Int
           /\ Total(News') = Total(News) + (run'[r].new - run[r].new)
           /\ Total(Failures') =
                Total(Failures) + (Cardinality(run'[r].failed) - Cardinality(run[r].failed))
<1>1. \A q \in Runs : /\ run[q].new \in Int /\ run'[q].new \in Int
                      /\ Cardinality(run[q].failed) \in Int
                      /\ Cardinality(run'[q].failed) \in Int
  <2>1. \A q \in Runs : Cardinality(run[q].failed) \in Nat
    BY FailedIsFinite
  <2>2. ASSUME NEW q \in Runs PROVE Cardinality(run'[q].failed) \in Nat
    <3>1. run'[q].next \in Nat /\ run'[q].failed \subseteq 1..run'[q].next - 1
      BY DEF PInv, RunState, RunInv, Counted
    <3>2. IsFiniteSet(1..run'[q].next - 1)
      BY <3>1, FS_Interval
    <3> QED
      BY <3>1, <3>2, FS_Subset, FS_CardinalityType
  <2> QED
    <3>1. \A q \in Runs : run[q].new \in Nat /\ run'[q].new \in Nat
      BY DEF PInv, RunState
    <3> QED
      BY <2>1, <2>2, <3>1
<1>2. IsFiniteSet(Runs)
  BY RunsAssumption
<1> DEFINE news == News
           newsAfter == News'
           failures == Failures
           failuresAfter == Failures'
<1>3. /\ DOMAIN news = Runs /\ DOMAIN newsAfter = Runs
      /\ DOMAIN failures = Runs /\ DOMAIN failuresAfter = Runs
      /\ \A q \in Runs : /\ news[q] = run[q].new /\ newsAfter[q] = run'[q].new
                         /\ failures[q] = Cardinality(run[q].failed)
                         /\ failuresAfter[q] = Cardinality(run'[q].failed)
  BY DEF News, Failures
<1> HIDE DEF news, newsAfter, failures, failuresAfter
<1>4. /\ SumFunctionOnSet(news, Runs) \in Int /\ SumFunctionOnSet(failures, Runs) \in Int
  BY <1>1, <1>2, <1>3, SumType
<1>5. SumFunctionOnSet(newsAfter, Runs)
        = SumFunctionOnSet(news, Runs) + (newsAfter[r] - news[r])
  BY <1>1, <1>2, <1>3, SumChangesAtOne
<1>6. SumFunctionOnSet(failuresAfter, Runs)
        = SumFunctionOnSet(failures, Runs) + (failuresAfter[r] - failures[r])
  BY <1>1, <1>2, <1>3, SumChangesAtOne
<1>7. /\ Total(news) = SumFunctionOnSet(news, Runs)
      /\ Total(newsAfter) = SumFunctionOnSet(newsAfter, Runs)
      /\ Total(failures) = SumFunctionOnSet(failures, Runs)
      /\ Total(failuresAfter) = SumFunctionOnSet(failuresAfter, Runs)
  BY <1>3 DEF Total, SumFunction
<1> QED
  BY <1>3, <1>4, <1>5, <1>6, <1>7 DEF news, newsAfter, failures, failuresAfter

\* Every other step leaves the counts alone, and the rows' keys and their
\* dedup decisions.
Uncounted ==
    /\ \A q \in Runs : run'[q].new = run[q].new /\ run'[q].failed = run[q].failed
    /\ \A q \in Runs : \/ run'[q] = run[q]
                       \/ /\ run[q].pc \notin {"tally", "dead"}
                          /\ run'[q].pc \notin {"tally", "dead"}
    /\ DOMAIN jobs' = DOMAIN jobs
    /\ \A v \in DOMAIN jobs : jobs'[v].canonical = jobs[v].canonical

\* No sum changes in a step that counts nothing.
LEMMA UncountedKeepsCounts ==
    ASSUME CountInv, Uncounted
    PROVE  CountInv'
<1>1. News' = News /\ Failures' = Failures /\ Canonicals' = Canonicals
  BY DEF Uncounted, News, Failures, Canonicals
<1>2. Total(News') = Total(News) /\ Total(Failures') = Total(Failures)
  BY <1>1
<1>3. PendingNew' = PendingNew /\ Pending' = Pending
  BY DEF Uncounted, PendingNew, Pending
<1> QED
  BY <1>1, <1>2, <1>3 DEF CountInv, Uncounted, Total

\* A step of run r that touches none of its counts.
LEMMA MovesUncounted ==
    ASSUME PInv, NEW r \in Runs, NEW label, run' = [run EXCEPT ![r].pc = label],
           run[r].pc \notin {"tally", "dead"}, label \notin {"tally", "dead"}
    PROVE  /\ \A q \in Runs : run'[q].new = run[q].new /\ run'[q].failed = run[q].failed
           /\ \A q \in Runs : \/ run'[q] = run[q]
                              \/ /\ run[q].pc \notin {"tally", "dead"}
                                 /\ run'[q].pc \notin {"tally", "dead"}
<1>1. run \in [Runs -> RunState]
  BY DEF PInv
<1> QED
  BY <1>1 DEF RunState

\* The steps that handle no posting.
LEMMA UncountedSteps ==
    ASSUME PInv, NEW r \in Runs,
           \/ Trigger(r) \/ CreateScrapeRun(r) \/ Scrape(r) \/ LeaveLoop(r) \/ BeginJob(r)
           \/ FinishScrapeRun(r) \/ UpdateSourceLastRunAt(r) \/ DeactivateStaleJobs(r)
           \/ Cancel(r)
    PROVE  Uncounted
<1>1. run \in [Runs -> RunState]
  BY DEF PInv
<1>2. CASE Trigger(r) \/ LeaveLoop(r) \/ BeginJob(r)
  <2>1. /\ UNCHANGED jobs /\ run[r].pc \notin {"tally", "dead"}
        /\ \E label \in {"start", "finish", "company"} : run' = [run EXCEPT ![r].pc = label]
    BY <1>2 DEF Trigger, LeaveLoop, BeginJob, At, Goto, store
  <2> QED
    BY <2>1, MovesUncounted DEF Uncounted
<1>3. CASE FinishScrapeRun(r) \/ UpdateSourceLastRunAt(r)
  <2>1. /\ UNCHANGED jobs /\ run[r].pc \notin {"tally", "dead"}
        /\ \E label \in {"stamp", "sweep"} : run' = [run EXCEPT ![r].pc = label]
    BY <1>3 DEF FinishScrapeRun, UpdateSourceLastRunAt, At, Goto
  <2> QED
    BY <2>1, MovesUncounted DEF Uncounted
<1>4. CASE CreateScrapeRun(r)
  <2>1. /\ UNCHANGED jobs /\ run[r].pc = "start"
        /\ \/ run' = [run EXCEPT ![r].pc = "scrape", ![r].began = now]
           \/ run' = [run EXCEPT ![r].pc = "notStarted"]
    BY <1>4 DEF CreateScrapeRun, At, Goto
  <2>2. CASE run' = [run EXCEPT ![r].pc = "scrape", ![r].began = now]
    <3>1. /\ \A q \in Runs : q # r => run'[q] = run[q]
          /\ run'[r].pc = "scrape"
          /\ run'[r].new = run[r].new /\ run'[r].failed = run[r].failed
      BY <1>1, <2>2 DEF RunState
    <3> QED
      BY <2>1, <3>1 DEF Uncounted
  <2>3. CASE run' = [run EXCEPT ![r].pc = "notStarted"]
    BY <2>1, <2>3, MovesUncounted DEF Uncounted
  <2> QED
    BY <2>1, <2>2, <2>3
<1>5. CASE Scrape(r)
  <2>1. /\ UNCHANGED jobs /\ run[r].pc = "scrape"
        /\ \E label \in {"finish", "loop"} : \E raws, err :
             run' = [run EXCEPT ![r].pc = label, ![r].raws = raws, ![r].scrapeErr = err]
    BY <1>5 DEF Scrape, At, store
  <2>2. /\ \A q \in Runs : q # r => run'[q] = run[q]
        /\ run'[r].pc \notin {"tally", "dead"}
        /\ run'[r].new = run[r].new /\ run'[r].failed = run[r].failed
    BY <1>1, <2>1 DEF RunState
  <2> QED
    BY <2>1, <2>2 DEF Uncounted
<1>6. CASE DeactivateStaleJobs(r)
  <2>1. /\ run' = [run EXCEPT ![r].pc = "done"] /\ run[r].pc = "sweep"
        /\ UNCHANGED <<companies, canceled, now>>
        /\ jobs' = Deactivate(jobs, Stale(jobs, now)) \/ UNCHANGED jobs
    BY <1>6 DEF DeactivateStaleJobs, At, Goto
  <2>2. DOMAIN jobs' = DOMAIN jobs /\ \A v \in DOMAIN jobs : jobs'[v].canonical = jobs[v].canonical
    BY <2>1, SweepKeeps
  <2> QED
    BY <2>1, <2>2, MovesUncounted DEF Uncounted
<1>7. CASE Cancel(r)
  BY <1>7 DEF Cancel, Uncounted, store
<1> QED
  BY <1>2, <1>3, <1>4, <1>5, <1>6, <1>7

\* An UpsertJob adds at most one row and at most one canonical row, and none of
\* either unless it is new or its outcome unknown.
LEMMA UpsertedCounts ==
    ASSUME PInv, CountInv, NEW r \in Runs, run[r].pc = "job", jobs' \in Upserted(r),
           UNCHANGED <<companies, now, canceled>>
    PROVE  LET isNew == IsNew(jobs, jobs', Current(r).url)
           IN  /\ IsFiniteSet(DOMAIN jobs') /\ Cardinality(DOMAIN jobs') \in Nat
               /\ Cardinality(DOMAIN jobs) \in Nat /\ Cardinality(Canonicals) \in Nat
               /\ Cardinality(Canonicals') \in Nat
               /\ Cardinality(DOMAIN jobs') >=
                    Cardinality(DOMAIN jobs) + IF isNew THEN 1 ELSE 0
               /\ Cardinality(Canonicals') <= Cardinality(Canonicals) + 1
               /\ ~isNew => Cardinality(Canonicals') <= Cardinality(Canonicals)
<1> DEFINE u == Current(r).url
           isNew == u \notin DOMAIN jobs /\ jobs'[u].canonical = NULL
<1>1. /\ DOMAIN jobs' = DOMAIN jobs \cup {u}
      /\ \A v \in DOMAIN jobs : jobs[v].canonical # NULL => jobs'[v].canonical # NULL
  BY UpsertedKeeps
<1>2. isNew = IsNew(jobs, jobs', Current(r).url)
  BY DEF IsNew
<1> HIDE DEF u
<1>3. /\ IsFiniteSet(DOMAIN jobs) /\ Cardinality(DOMAIN jobs) \in Nat
      /\ IsFiniteSet(Canonicals) /\ Cardinality(Canonicals) \in Nat
  BY FS_Subset, FS_CardinalityType DEF CountInv, Canonicals
<1>4. /\ IsFiniteSet(DOMAIN jobs') /\ Cardinality(DOMAIN jobs') \in Nat
      /\ Cardinality(DOMAIN jobs') =
           Cardinality(DOMAIN jobs) + IF u \in DOMAIN jobs THEN 0 ELSE 1
  BY <1>1, <1>3, FS_AddElement, FS_CardinalityType
<1>5. Canonicals' \subseteq Canonicals \cup {u}
  BY <1>1 DEF Canonicals
<1>6. ~isNew => Canonicals' \subseteq Canonicals
  BY <1>1 DEF Canonicals
<1>7. /\ Cardinality(Canonicals') \in Nat
      /\ Cardinality(Canonicals') <= Cardinality(Canonicals) + 1
      /\ Canonicals' \subseteq Canonicals => Cardinality(Canonicals') <= Cardinality(Canonicals)
  <2>1. /\ IsFiniteSet(Canonicals \cup {u})
        /\ Cardinality(Canonicals \cup {u}) \in Nat
        /\ Cardinality(Canonicals \cup {u}) <= Cardinality(Canonicals) + 1
    <3>1. IsFiniteSet(Canonicals \cup {u})
      BY <1>3, FS_AddElement
    <3>2. Cardinality(Canonicals \cup {u}) =
            IF u \in Canonicals THEN Cardinality(Canonicals) ELSE Cardinality(Canonicals) + 1
      BY <1>3, FS_AddElement
    <3> QED
      BY <1>3, <3>1, <3>2
  <2>2. /\ IsFiniteSet(Canonicals') /\ Cardinality(Canonicals') \in Nat
        /\ Cardinality(Canonicals') <= Cardinality(Canonicals \cup {u})
    BY <1>5, <2>1, FS_Subset, FS_CardinalityType
  <2>3. Canonicals' \subseteq Canonicals => Cardinality(Canonicals') <= Cardinality(Canonicals)
    BY <1>3, FS_Subset
  <2> QED
    BY <1>3, <2>1, <2>2, <2>3
<1>8. Cardinality(DOMAIN jobs') >= Cardinality(DOMAIN jobs) + IF isNew THEN 1 ELSE 0
  <2>1. isNew => u \notin DOMAIN jobs
    OBVIOUS
  <2> HIDE DEF isNew
  <2> QED
    BY <1>3, <1>4, <2>1
<1> QED
  BY <1>2, <1>3, <1>4, <1>6, <1>7, <1>8

\* A posting stored and not yet counted is pending.
LEMMA UpsertJobCounts ==
    ASSUME PInv, PInv', CountInv, NEW r \in Runs, UpsertJob(r)
    PROVE  CountInv'
<1> DEFINE isNew == IsNew(jobs, jobs', Current(r).url)
<1>1. run[r].pc = "job" /\ UNCHANGED <<companies, now, canceled>>
  BY DEF UpsertJob, At
<1>2. PICK o \in Outcomes :
        /\ Returns(r, o)
        /\ \/ o = "failed" /\ UNCHANGED jobs
           \/ o = "failed" /\ jobs' \in Upserted(r)
           \/ jobs' \in Upserted(r) /\ o = IF isNew THEN "new" ELSE "duplicate"
  BY UpsertJobReturns
<1>3. /\ \A q \in Runs : q # r => run'[q] = run[q]
      /\ run'[r].pc = "tally" /\ run'[r].outcome = o
      /\ run'[r].new = run[r].new /\ run'[r].failed = run[r].failed
  BY <1>2, ReturnsMoves
<1>4. Total(News') = Total(News) /\ Total(Failures') = Total(Failures)
  <2>1. News' = News /\ Failures' = Failures
    BY <1>3 DEF News, Failures
  <2> QED
    BY <2>1
<1>5. Total(News) \in Int /\ Total(Failures) \in Int
  BY <1>3, TotalsChange
<1>6. /\ r \notin PendingNew /\ r \notin Pending
      /\ PendingNew' = IF o = "new" THEN PendingNew \cup {r} ELSE PendingNew
      /\ Pending' = IF o # "duplicate" THEN Pending \cup {r} ELSE Pending
  BY <1>1, <1>3 DEF PendingNew, Pending
<1>7. /\ Cardinality(PendingNew') = Cardinality(PendingNew) + IF o = "new" THEN 1 ELSE 0
      /\ Cardinality(Pending') = Cardinality(Pending) + IF o # "duplicate" THEN 1 ELSE 0
  <2>1. /\ Cardinality(PendingNew \cup {r}) = Cardinality(PendingNew) + 1
        /\ Cardinality(Pending \cup {r}) = Cardinality(Pending) + 1
    BY <1>6, PendingIsFinite, FS_AddElement
  <2> QED
    BY <1>6, <2>1, PendingIsFinite
<1>8. /\ Cardinality(PendingNew) \in Nat /\ Cardinality(Pending) \in Nat
  BY PendingIsFinite
<1>9. Total(News)' = Total(News') /\ Total(Failures)' = Total(Failures')
  BY DEF Total
<1>10. CASE UNCHANGED jobs /\ o = "failed"
  <2>1. Canonicals' = Canonicals /\ DOMAIN jobs' = DOMAIN jobs
    BY <1>10 DEF Canonicals
  <2>2. /\ Total(News) + Cardinality(PendingNew) <= Cardinality(DOMAIN jobs)
        /\ Total(News) + Total(Failures) + Cardinality(Pending) >= Cardinality(Canonicals)
        /\ IsFiniteSet(DOMAIN jobs)
    BY DEF CountInv
  <2>3. Cardinality(Canonicals) \in Nat
    BY <2>2, FS_Subset, FS_CardinalityType DEF Canonicals
  <2>4. /\ Total(News) + Cardinality(PendingNew)' <= Cardinality(DOMAIN jobs)
        /\ Total(News) + Total(Failures) + Cardinality(Pending)' >= Cardinality(Canonicals)
    BY <1>5, <1>7, <1>8, <1>10, <2>2, <2>3
  <2> QED
    BY <1>4, <1>9, <2>1, <2>2, <2>4 DEF CountInv
<1>11. CASE jobs' \in Upserted(r)
  <2> DEFINE rows == Cardinality(DOMAIN jobs)
             rowsAfter == Cardinality(DOMAIN jobs')
             canonical == Cardinality(Canonicals)
             canonicalAfter == Cardinality(Canonicals')
             added == IF isNew THEN 1 ELSE 0
             known == IF o = "new" THEN 1 ELSE 0
             unknown == IF o # "duplicate" THEN 1 ELSE 0
  <2>1. /\ IsFiniteSet(DOMAIN jobs') /\ rowsAfter \in Nat
        /\ rows \in Nat /\ canonical \in Nat /\ canonicalAfter \in Nat
        /\ rowsAfter >= rows + added
        /\ canonicalAfter <= canonical + 1
        /\ ~isNew => canonicalAfter <= canonical
    BY <1>1, <1>11, UpsertedCounts
  <2>2. o = "failed" \/ o = IF isNew THEN "new" ELSE "duplicate"
    BY <1>2
  <2>3. /\ added \in {0, 1} /\ known \in {0, 1} /\ unknown \in {0, 1}
        /\ known <= added
        /\ unknown = 0 => ~isNew
    BY <2>2
  <2>4. /\ Total(News) + Cardinality(PendingNew) <= rows
        /\ Total(News) + Total(Failures) + Cardinality(Pending) >= canonical
    BY DEF CountInv
  <2> HIDE DEF rows, rowsAfter, canonical, canonicalAfter, added, isNew
  <2>5. /\ Cardinality(PendingNew') = Cardinality(PendingNew) + known
        /\ Cardinality(Pending') = Cardinality(Pending) + unknown
    BY <1>7
  <2> HIDE DEF known, unknown
  <2>6. Total(News) + Cardinality(PendingNew') <= rowsAfter
    BY <1>5, <1>8, <2>1, <2>3, <2>4, <2>5
  <2>7. Total(News) + Total(Failures) + Cardinality(Pending') >= canonicalAfter
    BY <1>5, <1>8, <2>1, <2>3, <2>4, <2>5
  <2> QED
    BY <1>4, <1>9, <2>1, <2>6, <2>7 DEF CountInv, rowsAfter, canonicalAfter
<1> QED
  BY <1>2, <1>10, <1>11

\* A failure of the first half of processJob only adds to the right side.
LEMMA FailureCounts ==
    ASSUME PInv, PInv', CountInv, NEW r \in Runs, UNCHANGED jobs, JobFailed(r),
           run[r].pc = "company"
    PROVE  CountInv'
<1>1. /\ \A q \in Runs : q # r => run'[q] = run[q]
      /\ run'[r].new = run[r].new /\ run'[r].failed = run[r].failed \cup {run[r].next}
      /\ run'[r].pc \in {"finish", "loop"}
  BY JobFailedGoesOn DEF GoesOn, PostingFailed, NextInLoop
<1>2. /\ Total(News) \in Int /\ Total(Failures) \in Int
      /\ Total(News') = Total(News) + (run'[r].new - run[r].new)
      /\ Total(Failures') =
           Total(Failures) + (Cardinality(run'[r].failed) - Cardinality(run[r].failed))
  BY <1>1, TotalsChange
<1>3. /\ run[r].new \in Nat /\ Cardinality(run[r].failed) \in Nat
      /\ Cardinality(run[r].failed \cup {run[r].next}) = Cardinality(run[r].failed) + 1
  BY FailedIsFinite DEF PInv, RunState
<1>4. Total(News') = Total(News) /\ Total(Failures') = Total(Failures) + 1
  BY <1>1, <1>2, <1>3
<1>5. Total(News)' = Total(News') /\ Total(Failures)' = Total(Failures')
  BY DEF Total
<1>6. Canonicals' = Canonicals /\ PendingNew' = PendingNew /\ Pending' = Pending
  BY <1>1 DEF Canonicals, PendingNew, Pending
<1>7. IsFiniteSet(Canonicals) /\ Cardinality(Canonicals) \in Nat
  BY FS_Subset, FS_CardinalityType DEF CountInv, Canonicals
<1>8. Total(News') + Total(Failures') + Cardinality(Pending) >= Cardinality(Canonicals)
  BY <1>2, <1>4, <1>7, PendingIsFinite DEF CountInv
<1> QED
  BY <1>4, <1>5, <1>6, <1>8 DEF CountInv

\* What was pending is counted.
LEMMA TallyCounts ==
    ASSUME PInv, PInv', CountInv, NEW r \in Runs, Tally(r)
    PROVE  CountInv'
<1>1. /\ run[r].pc = "tally" /\ UNCHANGED jobs
      /\ IF run[r].outcome = "failed" THEN JobFailed(r) ELSE JobDone(r)
  BY DEF Tally, At, store
<1>2. /\ run[r].new \in Nat /\ Cardinality(run[r].failed) \in Nat
      /\ Cardinality(run[r].failed \cup {run[r].next}) = Cardinality(run[r].failed) + 1
      /\ run[r].outcome \in Outcomes
  BY FailedIsFinite DEF PInv, RunState
<1> DEFINE new == IF run[r].outcome = "new" THEN 1 ELSE 0
           failure == IF run[r].outcome = "failed" THEN 1 ELSE 0
<1>3. /\ GoesOn(r)
      /\ run'[r].new = run[r].new + new
      /\ Cardinality(run'[r].failed) = Cardinality(run[r].failed) + failure
  <2>1. CASE run[r].outcome = "failed"
    <3>1. GoesOn(r) /\ PostingFailed(r)
      BY <1>1, <2>1, JobFailedGoesOn
    <3>2. new = 0 /\ failure = 1
      BY <2>1
    <3> HIDE DEF new, failure
    <3> QED
      BY <1>2, <3>1, <3>2 DEF PostingFailed
  <2>2. CASE run[r].outcome # "failed"
    <3>1. failure = 0
      BY <2>2
    <3>2. /\ GoesOn(r) /\ run'[r].failed = run[r].failed
          /\ run'[r].new = run[r].new + new
      BY <1>1, <2>2, JobDoneGoesOn
    <3> HIDE DEF new, failure
    <3> QED
      BY <1>2, <3>1, <3>2
  <2> QED
    BY <2>1, <2>2
<1>4. /\ \A q \in Runs : q # r => run'[q] = run[q]
      /\ run'[r].pc \in {"finish", "loop"}
  BY <1>3 DEF GoesOn, NextInLoop
<1>5. /\ Total(News) \in Int /\ Total(Failures) \in Int
      /\ Total(News') = Total(News) + (run'[r].new - run[r].new)
      /\ Total(Failures') =
           Total(Failures) + (Cardinality(run'[r].failed) - Cardinality(run[r].failed))
  BY <1>4, TotalsChange
<1>6. /\ PendingNew = IF run[r].outcome = "new" THEN PendingNew' \cup {r} ELSE PendingNew'
      /\ Pending = IF run[r].outcome # "duplicate" THEN Pending' \cup {r} ELSE Pending'
      /\ r \notin PendingNew' /\ r \notin Pending'
  BY <1>1, <1>4 DEF PendingNew, Pending
<1>7. PendingNew' \subseteq Runs /\ Pending' \subseteq Runs
  BY DEF PendingNew, Pending
<1>8. /\ IsFiniteSet(PendingNew') /\ Cardinality(PendingNew') \in Nat
      /\ IsFiniteSet(Pending') /\ Cardinality(Pending') \in Nat
  BY <1>7, RunsAssumption, FS_Subset, FS_CardinalityType
<1>9. /\ Cardinality(PendingNew) = Cardinality(PendingNew') + new
      /\ Cardinality(Pending) = Cardinality(Pending') + new + failure
  <2>1. /\ Cardinality(PendingNew' \cup {r}) = Cardinality(PendingNew') + 1
        /\ Cardinality(Pending' \cup {r}) = Cardinality(Pending') + 1
    BY <1>6, <1>8, FS_AddElement
  <2> QED
    BY <1>2, <1>6, <1>8, <2>1 DEF Outcomes
<1>10. new \in Nat /\ failure \in Nat
  OBVIOUS
<1> HIDE DEF new, failure
<1>11. Total(News') = Total(News) + new /\ Total(Failures') = Total(Failures) + failure
  BY <1>2, <1>3, <1>5, <1>10
<1>12. Total(News)' = Total(News') /\ Total(Failures)' = Total(Failures')
  BY DEF Total
<1>13. Canonicals' = Canonicals /\ DOMAIN jobs' = DOMAIN jobs
  BY <1>1 DEF Canonicals
<1>14. /\ IsFiniteSet(DOMAIN jobs) /\ Cardinality(DOMAIN jobs) \in Nat
       /\ Cardinality(Canonicals) \in Nat
       /\ Total(News) + Cardinality(PendingNew) <= Cardinality(DOMAIN jobs)
       /\ Total(News) + Total(Failures) + Cardinality(Pending) >= Cardinality(Canonicals)
  BY FS_Subset, FS_CardinalityType DEF CountInv, Canonicals
<1>15. /\ Total(News') + Cardinality(PendingNew') <= Cardinality(DOMAIN jobs)
       /\ Total(News') + Total(Failures') + Cardinality(Pending') >= Cardinality(Canonicals)
  BY <1>5, <1>8, <1>9, <1>10, <1>11, <1>14
<1> QED
  BY <1>12, <1>13, <1>14, <1>15 DEF CountInv

\* A run that dies counts nothing any more.
LEMMA ExitCounts ==
    ASSUME PInv, PInv', CountInv, Exit
    PROVE  CountInv'
<1>1. /\ UNCHANGED jobs
      /\ run' = [r \in Runs |-> IF Ended(r) THEN run[r] ELSE [run[r] EXCEPT !.pc = "dead"]]
  BY DEF Exit, store
<1>2. run \in [Runs -> RunState]
  BY DEF PInv
<1>3. \A q \in Runs : /\ run'[q].new = run[q].new /\ run'[q].failed = run[q].failed
                      /\ run'[q].outcome = run[q].outcome
                      /\ run'[q].pc = IF Ended(q) THEN run[q].pc ELSE "dead"
  BY <1>1, <1>2 DEF RunState
<1>4. PendingNew' = {} /\ Pending \subseteq Pending' /\ Pending' \subseteq Runs
  BY <1>3 DEF PendingNew, Pending, Ended
<1>5. /\ Cardinality(PendingNew') = 0 /\ Cardinality(Pending) <= Cardinality(Pending')
      /\ Cardinality(Pending') \in Nat
  BY <1>4, RunsAssumption, FS_EmptySet, FS_Subset, FS_CardinalityType
<1>6. News' = News /\ Failures' = Failures /\ Canonicals' = Canonicals
  BY <1>1, <1>3 DEF News, Failures, Canonicals
<1>7. Total(News)' = Total(News) /\ Total(Failures)' = Total(Failures)
  BY <1>6 DEF Total
<1>8. Total(News) \in Int /\ Total(Failures) \in Int
  BY TotalsAreInt
<1>9. /\ IsFiniteSet(DOMAIN jobs) /\ Cardinality(DOMAIN jobs) \in Nat
      /\ Cardinality(Canonicals) \in Nat
      /\ Total(News) + Cardinality(PendingNew) <= Cardinality(DOMAIN jobs)
      /\ Total(News) + Total(Failures) + Cardinality(Pending) >= Cardinality(Canonicals)
  BY FS_Subset, FS_CardinalityType DEF CountInv, Canonicals
<1>10. /\ Total(News) + Cardinality(PendingNew') <= Cardinality(DOMAIN jobs)
       /\ Total(News) + Total(Failures) + Cardinality(Pending') >= Cardinality(Canonicals)
  BY <1>5, <1>8, <1>9, PendingIsFinite
<1> QED
  BY <1>1, <1>6, <1>7, <1>9, <1>10 DEF CountInv

\* Every step keeps the counts right.
LEMMA NextKeepsCounts == PInv /\ PInv' /\ CountInv /\ [Next]_vars => CountInv'
<1> SUFFICES ASSUME PInv, PInv', CountInv, [Next]_vars PROVE CountInv'
  OBVIOUS
<1>1. ASSUME NEW r \in Runs, UpsertCompany(r)
      PROVE  CountInv'
  <2>1. UNCHANGED jobs /\ run[r].pc = "company"
    BY <1>1 DEF UpsertCompany, At
  <2>2. CASE Goto(r, "job")
    BY <2>1, <2>2, MovesUncounted, UncountedKeepsCounts DEF Goto, Uncounted
  <2>3. CASE JobFailed(r)
    BY <2>1, <2>3, FailureCounts
  <2> QED
    BY <1>1, <2>2, <2>3 DEF UpsertCompany
<1>2. ASSUME NEW r \in Runs, Trigger(r) \/ Step(r) \/ Cancel(r)
      PROVE  CountInv'
  BY <1>1, <1>2, UpsertJobCounts, TallyCounts, UncountedSteps, UncountedKeepsCounts DEF Step
<1>3. CASE Exit
  BY <1>3, ExitCounts
<1>4. CASE Tick \/ UNCHANGED vars
  BY <1>4, UncountedKeepsCounts DEF Tick, vars, store, Uncounted
<1> QED
  BY <1>2, <1>3, <1>4 DEF Next

\* Nothing is counted at the start.
LEMMA InitCounts == Init => CountInv
<1> SUFFICES ASSUME Init PROVE CountInv
  OBVIOUS
<1>1. DOMAIN jobs = {} /\ Canonicals = {}
  BY DEF Init, Canonicals
<1>2. /\ \A r \in Runs : run[r].new = 0 /\ run[r].failed = {}
      /\ DOMAIN News = Runs /\ DOMAIN Failures = Runs
  BY DEF Init, Idle, News, Failures
<1>3. \A r \in Runs : News[r] = 0 /\ Failures[r] = 0
  BY <1>2, FS_EmptySet DEF News, Failures
<1>4. SumFunctionOnSet(News, Runs) = 0 /\ SumFunctionOnSet(Failures, Runs) = 0
  BY <1>3, SumType, RunsAssumption
<1>5. Total(News) = 0 /\ Total(Failures) = 0
  BY <1>2, <1>4 DEF Total, SumFunction
<1>6. PendingNew = {} /\ Pending = {}
  BY DEF Init, Idle, PendingNew, Pending
<1> QED
  BY <1>1, <1>5, <1>6, FS_EmptySet DEF CountInv

\* Over any set of runs, overlapping or repeated, no posting is counted new
\* twice, and none goes uncounted but where a failure is or a run was cut off,
\* one posting for each such run.
THEOREM RunsCountOnce == Spec => []NewCountsDistinctPostings
<1>1. ASSUME PInv, CountInv PROVE NewCountsDistinctPostings
  <2> DEFINE cutOff == {r \in Runs : run[r].pc \in {"tally", "dead"}}
  <2>1. Pending \subseteq cutOff /\ cutOff \subseteq Runs
    BY DEF Pending
  <2>2. Cardinality(Pending) <= Cardinality(cutOff) /\ Cardinality(cutOff) \in Nat
    BY <2>1, RunsAssumption, FS_Subset, FS_CardinalityType
  <2>3. Total(News) \in Int /\ Total(Failures) \in Int
    BY <1>1, TotalsAreInt
  <2>4. /\ Cardinality(DOMAIN jobs) \in Nat /\ Cardinality(Canonicals) \in Nat
        /\ Total(News) + Cardinality(PendingNew) <= Cardinality(DOMAIN jobs)
        /\ Total(News) + Total(Failures) + Cardinality(Pending) >= Cardinality(Canonicals)
    BY <1>1, FS_Subset, FS_CardinalityType DEF CountInv, Canonicals
  <2> HIDE DEF cutOff
  <2>5. /\ Total(News) <= Cardinality(DOMAIN jobs)
        /\ Total(News) + Total(Failures) + Cardinality(cutOff) >= Cardinality(Canonicals)
    BY <2>2, <2>3, <2>4, PendingIsFinite
  <2> QED
    BY <2>5 DEF NewCountsDistinctPostings, News, Failures, Canonicals, cutOff
<1> QED
  BY <1>1, InitCounts, NextKeepsCounts, PInvAlways, PTL DEF Spec

----------------------------------------------------------------------------
(* A run recorded without an error is complete *)

AfterFinish == {"stamp", "sweep", "done", "dead"}

\* What the finished row of a run says is what the run did, and it lacks an
\* error only if the loop came to its end and no posting failed.
RowIsTrue(r) ==
    InTerminalState(r) =>
        /\ run[r].pc \in AfterFinish
        /\ scrapeRuns[r].found = Len(run[r].raws)
        /\ scrapeRuns[r].new = run[r].new /\ scrapeRuns[r].duplicate = run[r].duplicate
        /\ ~scrapeRuns[r].error =>
             run[r].failed = {} /\ run[r].next = Len(run[r].raws) + 1

RowsAreTrue == \A r \in Runs : RowIsTrue(r)

\* A run whose row stays, and which stays where it is or moves on after its
\* end, keeps what was said of its row.
LEMMA RowStaysTrue ==
    ASSUME PInv, NEW q \in Runs, RowIsTrue(q), scrapeRuns'[q] = scrapeRuns[q],
           \/ run[q].pc \notin AfterFinish
           \/ /\ run'[q].pc \in AfterFinish
              /\ run'[q].raws = run[q].raws /\ run'[q].next = run[q].next
              /\ run'[q].new = run[q].new /\ run'[q].duplicate = run[q].duplicate
              /\ run'[q].failed = run[q].failed
    PROVE  RowIsTrue(q)'
BY DEF RowIsTrue, InTerminalState

\* A run before its end has no finished row.
LEMMA EarlyStepsKeepRows ==
    ASSUME PInv, RowsAreTrue, NEW r \in Runs,
           \/ Trigger(r) \/ CreateScrapeRun(r) \/ Scrape(r) \/ LeaveLoop(r) \/ BeginJob(r)
           \/ UpsertCompany(r) \/ UpsertJob(r) \/ Tally(r)
    PROVE  RowsAreTrue'
<1>1. run \in [Runs -> RunState] /\ DOMAIN scrapeRuns = Runs
  BY DEF PInv, TablesInv
<1>2. run[r].pc \notin AfterFinish
  BY DEF Trigger, CreateScrapeRun, Scrape, LeaveLoop, BeginJob, UpsertCompany, UpsertJob,
         Tally, At, AfterFinish
<1>3. scrapeRuns' = scrapeRuns \/ scrapeRuns' = [scrapeRuns EXCEPT ![r] = Running]
  BY DEF Trigger, CreateScrapeRun, Scrape, LeaveLoop, BeginJob, UpsertCompany, UpsertJob,
         Tally, store
<1>4. \A q \in Runs : q # r => run'[q] = run[q]
  BY <1>1 DEF Trigger, CreateScrapeRun, Scrape, LeaveLoop, BeginJob, UpsertCompany, UpsertJob,
         Tally, Goto, JobFailed, JobDone, Returns
<1>5. ASSUME NEW q \in Runs, q # r PROVE RowIsTrue(q)'
  BY <1>1, <1>3, <1>4, <1>5, RowStaysTrue DEF RowsAreTrue, RowIsTrue, InTerminalState
<1>6. RowIsTrue(r)'
  <2>1. ~InTerminalState(r)
    BY <1>2 DEF RowsAreTrue, RowIsTrue
  <2>2. ~InTerminalState(r)'
    BY <1>1, <1>3, <2>1 DEF InTerminalState, Running
  <2> QED
    BY <2>2 DEF RowIsTrue
<1> QED
  BY <1>5, <1>6 DEF RowsAreTrue

\* FinishScrapeRun writes what the run did.
LEMMA FinishWritesTruth ==
    ASSUME PInv, RowsAreTrue, NEW r \in Runs, FinishScrapeRun(r)
    PROVE  RowsAreTrue'
<1>1. /\ run \in [Runs -> RunState] /\ run[r] \in RunState
      /\ DOMAIN scrapeRuns = Runs /\ RunInv(r)
  BY DEF PInv, TablesInv
<1>2. /\ run[r].pc = "finish" /\ run' = [run EXCEPT ![r].pc = "stamp"]
      /\ scrapeRuns' = scrapeRuns \/ scrapeRuns' = Finished(r)
  BY DEF FinishScrapeRun, At, Goto
<1>3. /\ \A q \in Runs : q # r => run'[q] = run[q]
      /\ run'[r].pc = "stamp"
      /\ run'[r].raws = run[r].raws /\ run'[r].next = run[r].next
      /\ run'[r].new = run[r].new /\ run'[r].duplicate = run[r].duplicate
      /\ run'[r].failed = run[r].failed
  BY <1>1, <1>2 DEF RunState
<1>4. \A q \in Runs : q # r => scrapeRuns'[q] = scrapeRuns[q]
  BY <1>1, <1>2 DEF Finished
<1>5. ASSUME NEW q \in Runs, q # r PROVE RowIsTrue(q)'
  BY <1>3, <1>4, <1>5, RowStaysTrue DEF RowsAreTrue, RowIsTrue, InTerminalState
<1>6. RowIsTrue(r)'
  <2>1. CASE scrapeRuns' = scrapeRuns
    <3>1. ~InTerminalState(r)
      BY <1>2 DEF RowsAreTrue, RowIsTrue, AfterFinish
    <3> QED
      BY <2>1, <3>1 DEF RowIsTrue, InTerminalState
  <2>2. CASE scrapeRuns' = Finished(r)
    <3>1. /\ scrapeRuns'[r].found = Len(run[r].raws)
          /\ scrapeRuns'[r].new = run[r].new /\ scrapeRuns'[r].duplicate = run[r].duplicate
          /\ scrapeRuns'[r].error = HasErrors(r)
      BY <1>1, <2>2 DEF Finished
    <3>2. run[r].next \in 1..Len(run[r].raws) + 1 /\ Len(run[r].raws) \in Nat
      BY <1>1 DEF RunInv, Counted, RunState
    <3>3. ~HasErrors(r) => run[r].failed = {} /\ run[r].next = Len(run[r].raws) + 1
      BY <3>2 DEF HasErrors
    <3> QED
      BY <1>3, <3>1, <3>3 DEF RowIsTrue, AfterFinish
  <2> QED
    BY <1>2, <2>1, <2>2
<1> QED
  BY <1>5, <1>6 DEF RowsAreTrue

\* After that nothing touches the row or the counts.
LEMMA LateStepsKeepRows ==
    ASSUME PInv, RowsAreTrue, UNCHANGED scrapeRuns,
           \/ \E r \in Runs : UpdateSourceLastRunAt(r) \/ DeactivateStaleJobs(r)
           \/ Exit
           \/ UNCHANGED run
    PROVE  RowsAreTrue'
<1>1. run \in [Runs -> RunState]
  BY DEF PInv
<1>2. ASSUME NEW q \in Runs
      PROVE  /\ run'[q].raws = run[q].raws /\ run'[q].next = run[q].next
             /\ run'[q].new = run[q].new /\ run'[q].duplicate = run[q].duplicate
             /\ run'[q].failed = run[q].failed
             /\ run[q].pc \in AfterFinish => run'[q].pc \in AfterFinish
  <2>1. CASE \E r \in Runs : UpdateSourceLastRunAt(r) \/ DeactivateStaleJobs(r)
    <3>1. \E r \in Runs : \E label \in {"sweep", "done"} : run' = [run EXCEPT ![r].pc = label]
      BY <2>1 DEF UpdateSourceLastRunAt, DeactivateStaleJobs, Goto
    <3> QED
      BY <1>1, <3>1 DEF RunState, AfterFinish
  <2>2. CASE Exit
    <3>1. run'[q] = IF Ended(q) THEN run[q] ELSE [run[q] EXCEPT !.pc = "dead"]
      BY <2>2 DEF Exit
    <3> QED
      BY <1>1, <3>1 DEF RunState, AfterFinish
  <2>3. CASE UNCHANGED run
    BY <2>3
  <2> QED
    BY <2>1, <2>2, <2>3
<1>3. ASSUME NEW q \in Runs PROVE RowIsTrue(q)'
  BY <1>2, RowStaysTrue DEF RowsAreTrue
<1> QED
  BY <1>3 DEF RowsAreTrue

LEMMA NextKeepsRows == PInv /\ RowsAreTrue /\ [Next]_vars => RowsAreTrue'
<1> SUFFICES ASSUME PInv, RowsAreTrue, [Next]_vars PROVE RowsAreTrue'
  OBVIOUS
<1>1. ASSUME NEW r \in Runs, UpdateSourceLastRunAt(r) \/ DeactivateStaleJobs(r)
      PROVE  RowsAreTrue'
  BY <1>1, LateStepsKeepRows DEF UpdateSourceLastRunAt, DeactivateStaleJobs
<1>2. ASSUME NEW r \in Runs, Cancel(r) PROVE RowsAreTrue'
  BY <1>2, LateStepsKeepRows DEF Cancel, store
<1>3. CASE Exit \/ Tick \/ UNCHANGED vars
  BY <1>3, LateStepsKeepRows DEF Exit, Tick, vars, store
<1> QED
  BY <1>1, <1>2, <1>3, EarlyStepsKeepRows, FinishWritesTruth DEF Next, Step

\* A run recorded without an error stored every posting it found, seen since
\* the run began, and counted each: whatever else failed, was canceled or was
\* cut off, and also after the run's end.
THEOREM CleanRunsStoreAll == Spec => []CleanRunsAreComplete
<1>1. Init => RowsAreTrue
  BY DEF Init, RowsAreTrue, RowIsTrue, InTerminalState
<1>2. ASSUME PInv, RowsAreTrue PROVE CleanRunsAreComplete
  <2> SUFFICES ASSUME NEW r \in Runs, InTerminalState(r), ~scrapeRuns[r].error
               PROVE  /\ scrapeRuns[r].found = Len(run[r].raws)
                      /\ scrapeRuns[r].found = scrapeRuns[r].new + scrapeRuns[r].duplicate
                      /\ \A i \in DOMAIN run[r].raws :
                           LET u == run[r].raws[i].url
                           IN  u \in DOMAIN jobs /\ jobs[u].lastSeen >= run[r].began
    BY DEF CleanRunsAreComplete
  <2>1. RunInv(r) /\ run[r] \in RunState
    BY <1>2 DEF PInv
  <2>2. /\ scrapeRuns[r].found = Len(run[r].raws)
        /\ scrapeRuns[r].new = run[r].new /\ scrapeRuns[r].duplicate = run[r].duplicate
        /\ run[r].failed = {} /\ run[r].next = Len(run[r].raws) + 1
    BY <1>2 DEF RowsAreTrue, RowIsTrue
  <2>3. /\ Len(run[r].raws) \in Nat /\ DOMAIN run[r].raws = 1..Len(run[r].raws)
        /\ run[r].next - 1 = Len(run[r].raws)
        /\ run[r].new \in Nat /\ run[r].duplicate \in Nat
    BY <2>1, <2>2 DEF RunState
  <2>4. Cardinality(run[r].failed) = 0
    BY <2>2, FS_EmptySet
  <2>5. run[r].new + run[r].duplicate = Len(run[r].raws)
    BY <2>1, <2>3, <2>4 DEF RunInv, Counted
  <2> QED
    BY <2>1, <2>2, <2>3, <2>5 DEF RunInv, Handled
<1> QED
  BY <1>1, <1>2, NextKeepsRows, PInvAlways, PTL DEF Spec
=============================================================================
