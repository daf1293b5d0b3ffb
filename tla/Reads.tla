------------------------------- MODULE Reads --------------------------------
(***************************************************************************)
(* The other two read handlers beside Paging: GET /api/jobs/{id}, which      *)
(* reads the job and then its duplicates, and GET /api/stats, which runs     *)
(* three queries.  Each query sees the table of its own moment; scrapes and  *)
(* sweeps go on in between, and while the client looks at the answer.        *)
(*                                                                          *)
(* A request for an unknown id, or one whose query fails, is answered with   *)
(* an error and leaves nothing behind.  The technologies of a row are those  *)
(* of its title here.                                                        *)
(***************************************************************************)
EXTENDS Paging, Functions

CONSTANTS
    Sources,    \* the rows of the sources table
    SourceOf,   \* SourceOf[u]: the source of the key u
    Stacks,     \* technologies
    StackOf     \* StackOf[t]: those of a posting titled t

ASSUME SourceAssumption == IsFiniteSet(Sources) /\ SourceOf \in [Urls -> Sources]
ASSUME StackAssumption == StackOf \in [Titles -> SUBSET Stacks]

VARIABLE request    \* the request being served or, its answer being looked at, the last one

readVars == <<allVars, request>>

None == [kind |-> "none"]

ReadInit == WalkInit /\ request = None

\* One client, which does one thing at a time and may end with a walk.
Free == walk = "idle" /\ request = None

----------------------------------------------------------------------------
(* GET /api/jobs/{id} *)

\* Store.GetJobByID.
GetJobByID ==
    /\ Free
    /\ \E u \in DOMAIN jobs :
          request' = [kind |-> "job", url |-> u, canonical |-> jobs[u].canonical]
    /\ UNCHANGED allVars

\* Store.ListDuplicatesOf, and the answer.
ListDuplicatesOf ==
    /\ request.kind = "job"
    /\ request' = [kind |-> "detail", url |-> request.url, canonical |-> request.canonical,
                   duplicates |-> PointingAt(jobs, request.url)]
    /\ UNCHANGED allVars

----------------------------------------------------------------------------
(* GET /api/stats *)

ActiveCanonical(t) == {u \in DOMAIN t : t[u].active /\ t[u].canonical = NULL}

\* Mutant of ActiveBySource: the condition of the other two queries, but for
\* the duplicates.
ActiveRowsBySource(t, s) == {u \in DOMAIN t : SourceOf[u] = s /\ t[u].active}

ActiveBySource(t, s) == {u \in ActiveCanonical(t) : SourceOf[u] = s}

CountActiveJobs ==
    /\ Free
    /\ request' = [kind |-> "total", total |-> Cardinality(ActiveCanonical(jobs)), quiet |-> TRUE]
    /\ UNCHANGED allVars

\* A source without jobs is counted, as 0.
SourceStats ==
    /\ request.kind = "total"
    /\ request' = [kind |-> "sources", total |-> request.total, quiet |-> request.quiet,
                   bySource |-> [s \in Sources |-> Cardinality(ActiveBySource(jobs, s))]]
    /\ UNCHANGED allVars

\* A row for each technology that some active canonical job names, and the answer.
StackStats ==
    /\ request.kind = "sources"
    /\ LET named == UNION {StackOf[jobs[u].title] : u \in ActiveCanonical(jobs)}
       IN  request' = [kind |-> "stats", total |-> request.total, quiet |-> request.quiet,
                       bySource |-> request.bySource,
                       byStack |-> [k \in named |-> Cardinality(
                           {u \in ActiveCanonical(jobs) : k \in StackOf[jobs[u].title]})]]
    /\ UNCHANGED allVars

----------------------------------------------------------------------------

\* The client has seen the answer.
Dismiss ==
    /\ request.kind \in {"detail", "stats"}
    /\ request' = None
    /\ UNCHANGED allVars

Walk == FetchPage /\ request = None /\ UNCHANGED request

\* Whether the table is still the one of the first of the three queries.
Change ==
    /\ ChangeTable
    /\ request' = IF request.kind \in {"total", "sources"}
                  THEN [request EXCEPT !.quiet = @ /\ jobs' = jobs] ELSE request

ReadNext ==
    \/ GetJobByID \/ ListDuplicatesOf
    \/ CountActiveJobs \/ SourceStats \/ StackStats
    \/ Dismiss \/ Walk \/ Change

ReadSpec == ReadInit /\ [][ReadNext]_readVars /\ WF_readVars(Walk)

----------------------------------------------------------------------------
(* Properties *)

\* The two queries of a job's page agree, whatever happened between them and
\* happens while the page is open: every duplicate on it is and stays merged
\* with the job, and a job shown as a duplicate never comes with duplicates
\* of its own (jobs.go, ListDuplicatesOf: "Empty if canonicalID ... is itself
\* a duplicate").
DetailIsOneGroup ==
    request.kind = "detail" =>
        /\ \A v \in request.duplicates : Canonical(jobs, v) = Canonical(jobs, request.url)
        /\ request.canonical # NULL => request.duplicates = {}

\* When the table did not change under the three queries, their answers add
\* up: every counted job is some source's, and no technology has more jobs
\* than there are.  (When it did, they need not.)
StatsAddUp ==
    request.kind = "stats" /\ request.quiet =>
        /\ request.total = SumFunction(request.bySource)
        /\ \A k \in DOMAIN request.byStack : request.byStack[k] \in 1 .. request.total
=============================================================================
