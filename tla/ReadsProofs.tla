---------------------------- MODULE ReadsProofs ----------------------------
(***************************************************************************)
(* The safety properties of a client's reads, for every table Dedup can     *)
(* reach, every filter, limit and choice of uuids: of a walk through the    *)
(* listing, of the page of a job, and of the statistics.                    *)
(*                                                                          *)
(* The invariant of a walk says where the cursor stands: at or below        *)
(* everything already shown, and above every steady entry still to come.    *)
(*                                                                          *)
(* The argument about the page of a job rests on merges being final: a row  *)
(* found to be a duplicate by the first query still is one at the second,   *)
(* and rows found to share a representative by the second go on sharing it. *)
(***************************************************************************)
EXTENDS Reads, DedupProofs, Sums, FiniteSetTheorems

----------------------------------------------------------------------------
(* The walk *)

\* The cursor is there exactly while the walk is under way.
CursorMeansWalking ==
    /\ walk = "idle" => page = {} /\ shown = {}
    /\ walk = "walking" <=> cursor # NULL

\* Nothing shown so far comes after the cursor.
CursorIsLast ==
    cursor # NULL => \A s \in shown \cup page : s = cursor \/ Before(s, cursor)

\* What is steady is listed, and shown unless it comes after the cursor.
SteadyIsAhead ==
    /\ walk = "idle" => steady = {}
    /\ steady \subseteq Listed(jobs)
    /\ \A e \in steady :
          e \in shown \cup page \/ (cursor # NULL /\ Before(cursor, e))

WInv ==
    /\ IInv
    /\ WalkTypeOK
    /\ CursorMeansWalking
    /\ CursorIsLast
    /\ PagesInOrder
    /\ SteadyIsAhead

----------------------------------------------------------------------------
(* The order and the query *)

\* The order of the listing is transitive, unknown dates and ties included.
LEMMA BeforeTransitive ==
    ASSUME NEW a \in Entry, NEW b \in Entry, NEW c \in Entry,
           Before(a, b), Before(b, c)
    PROVE  Before(a, c)
<1>1. SortDate(a) \in Int /\ SortDate(b) \in Int /\ SortDate(c) \in Int
  BY DEF SortDate, Entry
<1>2. Id[a.url] \in Nat /\ Id[b.url] \in Nat /\ Id[c.url] \in Nat
  BY IdAssumption DEF Entry
<1> QED
  BY <1>1, <1>2 DEF Before

\* The rows of a well-typed table are listed as entries.
LEMMA ListedAreEntries ==
    ASSUME NEW t, IsTable(t)
    PROVE  Listed(t) \subseteq Entry
BY DEF IsTable, Row, Listed, Entry

\* The limit the query runs with is positive, whatever the client sends.
LEMMA LimitIsPositive ==
    ASSUME NEW n \in Requests
    PROVE  ClampLimit(Int32(n)) \in Nat \ {0}
<1>1. n + Int32Half \in Int /\ 2 * Int32Half \in Int /\ 2 * Int32Half > 0
  BY LimitAssumption
<1>2. (n + Int32Half) % (2 * Int32Half) \in Int
  BY <1>1
<1>3. Int32(n) \in Int
  BY <1>2, LimitAssumption DEF Int32
<1> QED
  BY <1>3, LimitAssumption DEF ClampLimit

\* A page after which no cursor is returned holds everything there was.
LEMMA NoCursorMeansAll ==
    ASSUME NEW rows, NEW n \in Requests,
           NEW p \in FirstOf(rows, ClampLimit(Int32(n))),
           p = {} \/ IsShort(p, n)
    PROVE  p = rows
<1>1. ClampLimit(Int32(n)) \in Nat \ {0}
  BY LimitIsPositive
<1>2. Cardinality({}) = 0
  BY FS_EmptySet
<1>3. Cardinality(p) # ClampLimit(Int32(n))
  BY <1>1, <1>2 DEF IsShort
<1> QED
  BY <1>3 DEF FirstOf

----------------------------------------------------------------------------
(* The invariant *)

\* No page has been read at the start.
LEMMA WalkInitEstablishesWInv == WalkInit => WInv
<1> SUFFICES ASSUME WalkInit PROVE WInv
  OBVIOUS
<1>1. IInv
  BY InitEstablishesIInv DEF WalkInit
<1>2. WalkTypeOK
  BY <1>1 DEF WalkInit, WalkTypeOK, IInv
<1> QED
  BY <1>1, <1>2 DEF WalkInit, WInv, CursorMeansWalking, CursorIsLast,
                    PagesInOrder, SteadyIsAhead

\* A request moves the cursor down past what it shows, and no further.
LEMMA FetchPageKeepsWInv ==
    ASSUME WInv, FetchPage
    PROVE  WInv'
<1> DEFINE rows == {e \in Listed(jobs) : Beyond(cursor, e)}
<1>1. PICK n \in Requests :
        /\ page' \in FirstOf(rows, ClampLimit(Int32(n)))
        /\ cursor' \in NextCursor(page', n)
  BY DEF FetchPage, ListJobs
<1>2. /\ walk # "ended"
      /\ shown' = shown \cup page
      /\ walk' = IF cursor' = NULL THEN "ended" ELSE "walking"
      /\ steady' = IF walk = "idle" THEN Listed(jobs) ELSE steady
      /\ jobs' = jobs /\ now' = now
  BY DEF FetchPage, vars
<1>3. Listed(jobs) \subseteq Entry /\ Listed(jobs') = Listed(jobs)
  BY <1>2, ListedAreEntries DEF WInv, IInv, TypeOK
<1>4. /\ page' \subseteq rows
      /\ \A x \in page', e \in rows \ page' : Before(x, e)
  BY <1>1 DEF FirstOf
<1>5. page' \subseteq Entry
  BY <1>3, <1>4
<1>6. IInv'
  BY <1>2 DEF WInv, IInv, TypeOK, Flat, NoMissedDuplicate
<1>7. \/ cursor' = NULL /\ (page' = {} \/ IsShort(page', n))
      \/ cursor' \in page' /\ \A x \in page' \ {cursor'} : Before(x, cursor')
  BY <1>1 DEF NextCursor, LastOf
<1>8. cursor' = NULL => page' = rows
  <2>1. CASE cursor' = NULL /\ (page' = {} \/ IsShort(page', n))
    BY <2>1, <1>1, NoCursorMeansAll
  <2>2. CASE cursor' \in page'
    BY <2>2, <1>5, NoEntryIsNull DEF Entry
  <2> QED
    BY <1>7, <2>1, <2>2
<1>9. cursor' \in Entry \cup {NULL}
  BY <1>5, <1>7
<1>10. CASE walk = "idle"
  <2>1. shown' = {} /\ cursor = NULL /\ rows = Listed(jobs)
    BY <1>2, <1>10 DEF WInv, CursorMeansWalking, Beyond, HasCursor
  <2>2. steady' = Listed(jobs)
    BY <1>2, <1>10
  <2>3. WalkTypeOK'
    BY <1>2, <1>3, <1>5, <1>6, <1>9, <2>1, <2>2 DEF WalkTypeOK, IInv
  <2>4. CursorMeansWalking'
    BY <1>2 DEF CursorMeansWalking
  <2>5. CursorIsLast'
    BY <2>1, <1>5, <1>7 DEF CursorIsLast
  <2>6. PagesInOrder'
    BY <2>1 DEF PagesInOrder
  <2>7. SteadyIsAhead'
    BY <1>2, <1>3, <1>4, <1>7, <1>8, <2>1, <2>2 DEF SteadyIsAhead
  <2> QED
    BY <1>6, <2>3, <2>4, <2>5, <2>6, <2>7 DEF WInv
<1>11. CASE walk = "walking"
  <2>1. cursor \in Entry
    BY <1>11 DEF WInv, CursorMeansWalking, WalkTypeOK
  <2>2. rows = {e \in Listed(jobs) : Before(cursor, e)}
    BY <1>11 DEF WInv, CursorMeansWalking, Beyond, HasCursor
  <2>3. steady' = steady
    BY <1>2, <1>11
  <2>4. shown' \subseteq Entry /\ steady' \subseteq Entry
    BY <1>2, <2>3 DEF WInv, WalkTypeOK
  <2>5. \A s \in shown' : s = cursor \/ Before(s, cursor)
    BY <1>2, <1>11 DEF WInv, CursorIsLast, CursorMeansWalking
  <2>6. \A s \in shown', e \in page' : Before(s, e)
    <3> SUFFICES ASSUME NEW s \in shown', NEW e \in page' PROVE Before(s, e)
      OBVIOUS
    <3>1. Before(cursor, e) /\ e \in Entry /\ s \in Entry
      BY <1>4, <1>5, <2>2, <2>4
    <3> QED
      BY <2>1, <2>5, <3>1, BeforeTransitive
  <2>7. WalkTypeOK'
    BY <1>2, <1>5, <1>6, <1>9, <2>4 DEF WalkTypeOK, IInv
  <2>8. CursorMeansWalking'
    BY <1>2 DEF CursorMeansWalking
  <2>9. CursorIsLast'
    BY <1>7, <2>6 DEF CursorIsLast
  <2>10. PagesInOrder'
    BY <2>6 DEF PagesInOrder
  <2>11. SteadyIsAhead'
    <3>1. \A e \in steady : e \in shown' \/ e \in rows
      BY <1>2, <2>2 DEF WInv, SteadyIsAhead
    <3>2. \A e \in rows : e \in page' \/ (cursor' # NULL /\ Before(cursor', e))
      BY <1>4, <1>7, <1>8
    <3>3. steady \subseteq Listed(jobs)
      BY DEF WInv, SteadyIsAhead
    <3> QED
      BY <1>2, <1>3, <2>3, <3>1, <3>2, <3>3 DEF SteadyIsAhead
  <2> QED
    BY <1>6, <2>7, <2>8, <2>9, <2>10, <2>11 DEF WInv
<1> QED
  BY <1>2, <1>10, <1>11 DEF WInv, WalkTypeOK

\* A call on the table can only take entries out of steady.
LEMMA ChangeTableKeepsWInv ==
    ASSUME WInv, ChangeTable
    PROVE  WInv'
<1>1. IInv'
  BY NextKeepsIInv DEF WInv, ChangeTable
<1>2. /\ steady' = steady \cap Listed(jobs')
      /\ walk' = walk /\ cursor' = cursor /\ page' = page /\ shown' = shown
  BY DEF ChangeTable
<1>3. WalkTypeOK'
  BY <1>1, <1>2 DEF WInv, WalkTypeOK, IInv
<1>4. CursorMeansWalking' /\ CursorIsLast' /\ PagesInOrder'
  BY <1>2 DEF WInv, CursorMeansWalking, CursorIsLast, PagesInOrder
<1>5. SteadyIsAhead'
  BY <1>2 DEF WInv, SteadyIsAhead
<1> QED
  BY <1>1, <1>3, <1>4, <1>5 DEF WInv

\* Every step of the walk, or of the runs around it, keeps the invariant.
LEMMA WalkNextKeepsWInv == WInv /\ [WalkNext]_allVars => WInv'
<1> SUFFICES ASSUME WInv, [WalkNext]_allVars PROVE WInv'
  OBVIOUS
<1>1. CASE FetchPage
  BY <1>1, FetchPageKeepsWInv
<1>2. CASE ChangeTable
  BY <1>2, ChangeTableKeepsWInv
<1>3. CASE UNCHANGED allVars
  <2>1. IInv'
    BY <1>3 DEF allVars, vars, WInv, IInv, TypeOK, Flat, NoMissedDuplicate
  <2> QED
    BY <1>3, <2>1 DEF allVars, vars, client, WInv, IInv, WalkTypeOK,
                      CursorMeansWalking, CursorIsLast, PagesInOrder,
                      SteadyIsAhead
<1> QED
  BY <1>1, <1>2, <1>3 DEF WalkNext

\* WInv holds in every state a walk can reach.
LEMMA WInvAlways == WalkSpec => []WInv
BY WalkInitEstablishesWInv, WalkNextKeepsWInv, PTL DEF WalkSpec

----------------------------------------------------------------------------
(* Theorems *)

\* No page repeats, or goes back above, what an earlier page has shown
\* (keyset condition of ListJobs), whatever happens to the table meanwhile.
THEOREM WalkGoesDown == WalkSpec => []PagesInOrder
<1>1. WInv => PagesInOrder
  BY DEF WInv
<1> QED
  BY <1>1, WInvAlways, PTL

\* A nil next_cursor means that every row that stayed in its place has been
\* on some page (NextCursor), for every limit, those included that wrap
\* around or are clamped.
THEOREM WalkIsComplete == WalkSpec => []NothingSkipped
<1>1. WInv => NothingSkipped
  BY DEF WInv, CursorMeansWalking, SteadyIsAhead, NothingSkipped
<1> QED
  BY <1>1, WInvAlways, PTL

----------------------------------------------------------------------------
(* The page of a job *)

\* The job of a page stays in the table, and a duplicate if it was one.
JobStays ==
    request.kind \in {"job", "detail"} =>
        /\ request.url \in DOMAIN jobs
        /\ request.canonical # NULL => jobs[request.url].canonical # NULL

\* Its duplicates stay in the table.
DuplicatesStay == request.kind = "detail" => request.duplicates \subseteq DOMAIN jobs

RInv ==
    /\ WInv
    /\ "kind" \in DOMAIN request
    /\ JobStays
    /\ DuplicatesStay
    /\ DetailIsOneGroup

----------------------------------------------------------------------------

\* No step removes a row, or adds more than one.
LEMMA NextKeepsRows ==
    ASSUME IInv, Next
    PROVE  /\ DOMAIN jobs \subseteq DOMAIN jobs'
           /\ \E u \in Urls \cup {NULL} : DOMAIN jobs' \subseteq DOMAIN jobs \cup {u}
<1>1. ASSUME NEW u \in Urls, NEW l \in Serves[u], UpsertJob(u, l)
      PROVE  DOMAIN jobs \subseteq DOMAIN jobs' /\ DOMAIN jobs' \subseteq DOMAIN jobs \cup {u}
  <2> DEFINE tab == UpsertRow(jobs, u, l, now)
  <2>1. l \in Listing /\ IsTable(jobs) /\ now \in Nat
    BY ServesAssumption DEF IInv, TypeOK
  <2>2. IsTable(tab) /\ DOMAIN tab = DOMAIN jobs \cup {u}
    BY <2>1, UpsertRowKeeps
  <2> HIDE DEF tab
  <2>3. CASE tab[u].canonical # NULL /\ jobs' = tab
    BY <2>2, <2>3
  <2>4. CASE tab[u].canonical = NULL /\ jobs' \in ResolveDuplicates(tab, u)
    <3>1. u \in DOMAIN tab
      BY <2>2
    <3> QED
      BY <2>2, <2>4, <3>1, ResolveEffect
  <2> QED
    BY <1>1, <2>3, <2>4 DEF UpsertJob, tab
<1>2. CASE DeactivateStaleJobs
  BY <1>2 DEF DeactivateStaleJobs, Deactivate
<1>3. CASE Tick
  BY <1>3 DEF Tick
<1> QED
  BY <1>1, <1>2, <1>3 DEF Next

\* In a flat table the rows that point at a row share it as representative,
\* and nothing points at a duplicate.
LEMMA PointingAtIsAGroup ==
    ASSUME IInv, NEW u \in DOMAIN jobs
    PROVE  /\ \A v \in PointingAt(jobs, u) : Canonical(jobs, v) = Canonical(jobs, u)
           /\ jobs[u].canonical # NULL => PointingAt(jobs, u) = {}
<1>1. u # NULL
  BY NullAssumption DEF IInv, TypeOK, IsTable
<1>2. ASSUME NEW v \in PointingAt(jobs, u)
      PROVE  v \in DOMAIN jobs /\ jobs[v].canonical = u /\ jobs[u].canonical = NULL
  BY <1>1, <1>2 DEF PointingAt, IInv, Flat
<1> QED
  BY <1>1, <1>2 DEF Canonical

----------------------------------------------------------------------------

\* Nothing has been read at the start.
LEMMA ReadInitEstablishesRInv == ReadInit => RInv
BY WalkInitEstablishesWInv
   DEF ReadInit, RInv, None, JobStays, DuplicatesStay, DetailIsOneGroup

\* A read changes nothing but the request.
LEMMA ReadKeepsWInv == WInv /\ UNCHANGED allVars => WInv'
BY WalkNextKeepsWInv

\* The scrapes, sweeps and ticks between and after the queries keep RInv.
LEMMA ChangeKeepsRInv == RInv /\ Change => RInv'
<1> SUFFICES ASSUME RInv, Change PROVE RInv'
  OBVIOUS
<1>1. IInv /\ Next
  BY Zenon DEF RInv, WInv, Change, ChangeTable
<1>2. WInv'
  <2>1. WInv /\ ChangeTable
    BY Zenon DEF RInv, Change
  <2> QED
    BY <2>1, ChangeTableKeepsWInv
<1>3. DOMAIN jobs \subseteq DOMAIN jobs'
  BY <1>1, NextKeepsRows
<1>4. \A u, v \in DOMAIN jobs :
        Canonical(jobs, u) = Canonical(jobs, v) =>
            /\ Canonical(jobs', u) = Canonical(jobs', v)
            /\ jobs[u].canonical # NULL => jobs'[u].canonical # NULL
  <2>1. CASE UNCHANGED vars
    BY <2>1 DEF vars
  <2>2. CASE ~(UNCHANGED vars)
    BY <1>1, <2>2, NextMovesGroups
  <2> QED
    BY <2>1, <2>2
<1>5. CASE request.kind \in {"total", "sources"}
  <2>1. "kind" \in DOMAIN request' /\ request'.kind = request.kind
    <3>1. \E q : request' = [request EXCEPT !.quiet = q]
      BY <1>5, Zenon DEF Change
    <3> QED
      BY <3>1 DEF RInv
  <2> QED
    BY <1>2, <1>5, <2>1 DEF RInv, JobStays, DuplicatesStay, DetailIsOneGroup
<1>6. CASE request.kind \notin {"total", "sources"}
  <2>1. request' = request
    BY <1>6, Zenon DEF Change
  <2>2. JobStays' /\ DuplicatesStay'
    BY <1>3, <1>4, <2>1 DEF RInv, JobStays, DuplicatesStay
  <2>3. DetailIsOneGroup'
    BY <1>4, <2>1 DEF RInv, JobStays, DuplicatesStay, DetailIsOneGroup
  <2> QED
    BY <1>2, <2>1, <2>2, <2>3 DEF RInv
<1> QED
  BY <1>5, <1>6

\* Every read, and every step around it, keeps the invariant.
LEMMA ReadNextKeepsRInv == RInv /\ [ReadNext]_readVars => RInv'
<1> SUFFICES ASSUME RInv, [ReadNext]_readVars PROVE RInv'
  OBVIOUS
<1> USE DEF RInv, JobStays, DuplicatesStay, DetailIsOneGroup
<1>1. CASE GetJobByID
  <2>1. WInv' /\ UNCHANGED jobs
    BY <1>1, ReadKeepsWInv DEF GetJobByID, allVars, vars
  <2> QED
    BY <1>1, <2>1 DEF GetJobByID
<1>2. CASE ListDuplicatesOf
  <2>1. WInv' /\ UNCHANGED jobs
    BY <1>2, ReadKeepsWInv DEF ListDuplicatesOf, allVars, vars
  <2>2. /\ request.url \in DOMAIN jobs
        /\ request.canonical # NULL => jobs[request.url].canonical # NULL
    BY <1>2 DEF ListDuplicatesOf
  <2>3. /\ \A v \in PointingAt(jobs, request.url) :
             Canonical(jobs, v) = Canonical(jobs, request.url)
        /\ jobs[request.url].canonical # NULL => PointingAt(jobs, request.url) = {}
    BY <2>2, PointingAtIsAGroup DEF WInv
  <2>4. PointingAt(jobs, request.url) \subseteq DOMAIN jobs
    BY DEF PointingAt
  <2> QED
    BY <1>2, <2>1, <2>2, <2>3, <2>4 DEF ListDuplicatesOf
<1>3. CASE CountActiveJobs
  BY <1>3, ReadKeepsWInv DEF CountActiveJobs
<1>4. CASE SourceStats
  BY <1>4, ReadKeepsWInv DEF SourceStats
<1>5. CASE StackStats
  BY <1>5, ReadKeepsWInv DEF StackStats
<1>6. CASE Dismiss
  BY <1>6, ReadKeepsWInv DEF Dismiss, None
<1>7. CASE Walk
  <2>1. WInv' /\ request' = None
    BY <1>7, FetchPageKeepsWInv DEF Walk
  <2> QED
    BY <2>1 DEF None
<1>8. CASE Change
  BY <1>8, ChangeKeepsRInv
<1>9. CASE UNCHANGED readVars
  <2>1. WInv' /\ UNCHANGED <<jobs, request>>
    BY <1>9, ReadKeepsWInv DEF readVars, allVars, vars
  <2> QED
    BY <2>1
<1> QED
  BY <1>1, <1>2, <1>3, <1>4, <1>5, <1>6, <1>7, <1>8, <1>9 DEF ReadNext

\* RInv holds in every state the readers can see.
LEMMA RInvAlways == ReadSpec => []RInv
BY ReadInitEstablishesRInv, ReadNextKeepsRInv, PTL DEF ReadSpec

\* Every page of a job shows one group of duplicates, as two queries apart in
\* time find it and as it still is while the page is looked at (handleGetJob).
THEOREM DetailAgrees == ReadSpec => []DetailIsOneGroup
<1>1. RInv => DetailIsOneGroup
  BY DEF RInv
<1> QED
  BY <1>1, RInvAlways, PTL

\* The walk's type invariant and its two promises hold among the other reads too.
THEOREM WalkAmongReads == ReadSpec => [](WalkTypeOK /\ PagesInOrder /\ NothingSkipped)
<1>1. RInv => WalkTypeOK /\ PagesInOrder /\ NothingSkipped
  BY DEF RInv, WInv, CursorMeansWalking, SteadyIsAhead, NothingSkipped
<1> QED
  BY <1>1, RInvAlways, PTL

----------------------------------------------------------------------------
(* The statistics *)

\* What the queries have returned so far, and, while the table is quiet, that
\* it is what they would return again.
Counted ==
    /\ request.kind = "total" =>
         /\ request \in [kind : {"total"}, total : Nat, quiet : BOOLEAN]
         /\ request.quiet => request.total = Cardinality(ActiveCanonical(jobs))
    /\ request.kind = "sources" =>
         /\ request \in [kind : {"sources"}, total : Nat, quiet : BOOLEAN,
                         bySource : [Sources -> Nat]]
         /\ request.quiet =>
              /\ request.total = Cardinality(ActiveCanonical(jobs))
              /\ request.bySource =
                   [s \in Sources |-> Cardinality(ActiveBySource(jobs, s))]

SInv ==
    /\ RInv
    /\ IsFiniteSet(DOMAIN jobs)
    /\ Counted
    /\ StatsAddUp

\* In one table the queries agree: the jobs of the sources are all there are,
\* and a technology is named because a job has it.
LEMMA QueriesAgree ==
    ASSUME IInv, IsFiniteSet(DOMAIN jobs)
    PROVE  LET counted == ActiveCanonical(jobs)
               total == Cardinality(counted)
           IN  /\ total \in Nat
               /\ \A s \in Sources : Cardinality(ActiveBySource(jobs, s)) \in Nat
               /\ total = SumFunction([s \in Sources |-> Cardinality(ActiveBySource(jobs, s))])
               /\ \A k \in UNION {StackOf[jobs[u].title] : u \in counted} :
                    Cardinality({u \in counted : k \in StackOf[jobs[u].title]}) \in 1 .. total
<1> DEFINE counted == ActiveCanonical(jobs)
           total == Cardinality(counted)
           sizes == [s \in Sources |-> Cardinality({u \in counted : SourceOf[u] = s})]
<1>1. counted \subseteq DOMAIN jobs /\ DOMAIN jobs \subseteq Urls
  BY DEF ActiveCanonical, IInv, TypeOK, IsTable
<1>2. IsFiniteSet(counted) /\ \A u \in counted : SourceOf[u] \in Sources
  BY <1>1, FS_Subset, SourceAssumption
<1>3. total \in Nat
  BY <1>2, FS_CardinalityType
<1>4. \A T \in SUBSET counted : Cardinality(T) \in Nat /\ Cardinality(T) <= total
  BY <1>2, FS_Subset, FS_CardinalityType
<1>5. \A s \in Sources : {u \in counted : SourceOf[u] = s} \in SUBSET counted
  OBVIOUS
<1>6. total = SumFunctionOnSet(sizes, Sources)
  <2>1. IsFiniteSet(Sources)
    BY SourceAssumption
  <2>2. sizes = [s \in Sources |-> Cardinality({u \in counted : SourceOf[u] = s})]
    OBVIOUS
  <2> HIDE DEF counted, sizes
  <2> QED
    BY <1>2, <2>1, <2>2, PartsAddUp
<1>7. DOMAIN sizes = Sources
  OBVIOUS
<1>8. total = SumFunction(sizes)
  <2> HIDE DEF sizes
  <2> QED
    BY <1>6, <1>7 DEF SumFunction
<1>9. ASSUME NEW k \in UNION {StackOf[jobs[u].title] : u \in counted}
      PROVE  Cardinality({u \in counted : k \in StackOf[jobs[u].title]}) \in 1 .. total
  <2> DEFINE naming == {u \in counted : k \in StackOf[jobs[u].title]}
  <2>1. naming # {} /\ naming \in SUBSET counted
    BY <1>9
  <2>2. IsFiniteSet(naming) /\ Cardinality(naming) \in Nat /\ Cardinality(naming) <= total
    BY <1>2, <1>4, <2>1, FS_Subset
  <2>3. Cardinality(naming) # 0
    BY <2>1, <2>2, FS_EmptySet
  <2> QED
    BY <1>3, <2>2, <2>3
<1>10. \A s \in Sources : ActiveBySource(jobs, s) = {u \in counted : SourceOf[u] = s}
  BY DEF ActiveBySource
<1>11. sizes = [s \in Sources |-> Cardinality(ActiveBySource(jobs, s))]
  BY <1>10
<1>12. \A s \in Sources : Cardinality(ActiveBySource(jobs, s)) \in Nat
  BY <1>4, <1>5, <1>10
<1> QED
  BY <1>3, <1>8, <1>9, <1>11, <1>12

\* Scrapes, sweeps and ticks between the queries.
LEMMA ChangeKeepsSInv == SInv /\ Change => SInv'
<1> SUFFICES ASSUME SInv, Change PROVE SInv'
  OBVIOUS
<1>1. RInv'
  <2>1. RInv
    BY DEF SInv
  <2> QED
    BY <2>1, ChangeKeepsRInv
<1>2. IsFiniteSet(DOMAIN jobs')
  <2>1. IInv /\ Next
    BY Zenon DEF SInv, RInv, WInv, Change, ChangeTable
  <2>2. PICK u : DOMAIN jobs' \subseteq DOMAIN jobs \cup {u}
    BY <2>1, NextKeepsRows
  <2>3. IsFiniteSet(DOMAIN jobs)
    BY DEF SInv
  <2>4. IsFiniteSet(DOMAIN jobs \cup {u})
    BY <2>3, FS_AddElement
  <2> QED
    BY <2>2, <2>4, FS_Subset
<1>3. Counted /\ StatsAddUp
  BY DEF SInv
<1>4. CASE request.kind \in {"total", "sources"}
  <2>1. request' = [request EXCEPT !.quiet = request.quiet /\ jobs' = jobs]
    BY <1>4, Zenon DEF Change
  <2> DEFINE quiet == request.quiet /\ jobs' = jobs
  <2>2. quiet \in BOOLEAN /\ (quiet => request.quiet /\ jobs' = jobs)
    OBVIOUS
  <2>3. request' = [request EXCEPT !.quiet = quiet]
    BY <2>1
  <2> HIDE DEF quiet
  <2>4. CASE request.kind = "total"
    <3>1. request \in [kind : {"total"}, total : Nat, quiet : BOOLEAN]
      BY <1>3, <2>4 DEF Counted
    <3>2. /\ request' \in [kind : {"total"}, total : Nat, quiet : BOOLEAN]
          /\ request'.kind = "total" /\ request'.total = request.total
          /\ request'.quiet => quiet
      BY <2>2, <2>3, <3>1
    <3>3. request'.quiet => request'.total = Cardinality(ActiveCanonical(jobs'))
      BY <1>3, <2>2, <2>4, <3>2 DEF Counted
    <3>4. Counted'
      BY <3>2, <3>3 DEF Counted
    <3>5. StatsAddUp'
      BY <3>2 DEF StatsAddUp
    <3> QED
      BY <1>1, <1>2, <3>4, <3>5 DEF SInv
  <2>5. CASE request.kind = "sources"
    <3>1. request \in [kind : {"sources"}, total : Nat, quiet : BOOLEAN,
                       bySource : [Sources -> Nat]]
      BY <1>3, <2>5 DEF Counted
    <3>2. /\ request' \in [kind : {"sources"}, total : Nat, quiet : BOOLEAN,
                           bySource : [Sources -> Nat]]
          /\ request'.kind = "sources" /\ request'.total = request.total
          /\ request'.bySource = request.bySource
          /\ request'.quiet => quiet
      BY <2>2, <2>3, <3>1
    <3>3. request'.quiet =>
            /\ request'.total = Cardinality(ActiveCanonical(jobs'))
            /\ request'.bySource = [s \in Sources |-> Cardinality(ActiveBySource(jobs', s))]
      BY <1>3, <2>2, <2>5, <3>2 DEF Counted
    <3>4. Counted'
      BY <3>2, <3>3 DEF Counted
    <3>5. StatsAddUp'
      BY <3>2 DEF StatsAddUp
    <3> QED
      BY <1>1, <1>2, <3>4, <3>5 DEF SInv
  <2> QED
    BY <1>4, <2>4, <2>5
<1>5. CASE request.kind \notin {"total", "sources"}
  <2>1. request' = request
    BY <1>5, Zenon DEF Change
  <2>2. Counted' /\ StatsAddUp'
    BY <1>3, <1>5, <2>1 DEF Counted, StatsAddUp
  <2> QED
    BY <1>1, <1>2, <2>2 DEF SInv
<1> QED
  BY <1>4, <1>5

\* Every read, and every step around it.
LEMMA ReadNextKeepsSInv == SInv /\ [ReadNext]_readVars => SInv'
<1> SUFFICES ASSUME SInv, [ReadNext]_readVars PROVE SInv'
  OBVIOUS
<1>0. RInv /\ RInv' /\ IInv /\ IsFiniteSet(DOMAIN jobs) /\ Counted /\ StatsAddUp
  <2>1. RInv
    BY DEF SInv
  <2> QED
    BY <2>1, ReadNextKeepsRInv DEF SInv, RInv, WInv
<1> SUFFICES ASSUME ~Change PROVE IsFiniteSet(DOMAIN jobs') /\ Counted' /\ StatsAddUp'
  BY <1>0, ChangeKeepsSInv DEF SInv
<1>1. CASE GetJobByID \/ ListDuplicatesOf
  <2>1. UNCHANGED jobs /\ request'.kind \in {"job", "detail"}
    BY <1>1 DEF GetJobByID, ListDuplicatesOf, allVars, vars
  <2> QED
    BY <1>0, <2>1 DEF Counted, StatsAddUp
<1>2. CASE CountActiveJobs
  <2>1. /\ UNCHANGED jobs
        /\ request' = [kind |-> "total", total |-> Cardinality(ActiveCanonical(jobs)),
                       quiet |-> TRUE]
    BY <1>2 DEF CountActiveJobs, allVars, vars
  <2>2. Cardinality(ActiveCanonical(jobs)) \in Nat
    BY <1>0, QueriesAgree
  <2> QED
    BY <1>0, <2>1, <2>2 DEF Counted, StatsAddUp
<1>3. CASE SourceStats
  <2> DEFINE bySource == [s \in Sources |-> Cardinality(ActiveBySource(jobs, s))]
  <2>1. /\ UNCHANGED jobs /\ request.kind = "total"
        /\ request' = [kind |-> "sources", total |-> request.total, quiet |-> request.quiet,
                       bySource |-> bySource]
    BY <1>3 DEF SourceStats, allVars, vars
  <2>2. bySource \in [Sources -> Nat]
    BY <1>0, QueriesAgree
  <2>3. /\ request.total \in Nat /\ request.quiet \in BOOLEAN
        /\ request.quiet => request.total = Cardinality(ActiveCanonical(jobs))
    BY <1>0, <2>1 DEF Counted
  <2>4. bySource = [s \in Sources |-> Cardinality(ActiveBySource(jobs', s))]
    BY <2>1
  <2> HIDE DEF bySource
  <2>5. /\ request' \in [kind : {"sources"}, total : Nat, quiet : BOOLEAN,
                         bySource : [Sources -> Nat]]
        /\ request'.kind = "sources" /\ request'.total = request.total
        /\ request'.quiet = request.quiet /\ request'.bySource = bySource
    BY <2>1, <2>2, <2>3
  <2> QED
    BY <1>0, <2>1, <2>3, <2>4, <2>5 DEF Counted, StatsAddUp
<1>4. CASE StackStats
  <2> DEFINE named == UNION {StackOf[jobs[u].title] : u \in ActiveCanonical(jobs)}
             byStack == [k \in named |-> Cardinality(
                           {u \in ActiveCanonical(jobs) : k \in StackOf[jobs[u].title]})]
  <2>1. /\ UNCHANGED jobs /\ request.kind = "sources"
        /\ request' = [kind |-> "stats", total |-> request.total, quiet |-> request.quiet,
                       bySource |-> request.bySource, byStack |-> byStack]
    BY <1>4 DEF StackStats, allVars, vars
  <2>2. request.quiet =>
          /\ request.total = Cardinality(ActiveCanonical(jobs))
          /\ request.bySource = [s \in Sources |-> Cardinality(ActiveBySource(jobs, s))]
    BY <1>0, <2>1 DEF Counted
  <2>3. /\ Cardinality(ActiveCanonical(jobs)) =
             SumFunction([s \in Sources |-> Cardinality(ActiveBySource(jobs, s))])
        /\ \A k \in named : byStack[k] \in 1 .. Cardinality(ActiveCanonical(jobs))
    BY <1>0, QueriesAgree
  <2>4. DOMAIN byStack = named
    OBVIOUS
  <2> HIDE DEF byStack, named
  <2>5. /\ request'.kind = "stats" /\ request'.total = request.total
        /\ request'.quiet = request.quiet /\ request'.bySource = request.bySource
        /\ request'.byStack = byStack
    BY <2>1
  <2> QED
    BY <1>0, <2>1, <2>2, <2>3, <2>4, <2>5 DEF Counted, StatsAddUp
<1>5. CASE Dismiss \/ Walk
  <2>1. UNCHANGED jobs /\ request' = None
    BY <1>5 DEF Dismiss, Walk, FetchPage, allVars, vars
  <2> QED
    BY <1>0, <2>1 DEF Counted, StatsAddUp, None
<1>6. CASE UNCHANGED readVars
  BY <1>0, <1>6 DEF readVars, allVars, vars, Counted, StatsAddUp
<1> QED
  BY <1>1, <1>2, <1>3, <1>4, <1>5, <1>6 DEF ReadNext

\* Whenever no scrape or sweep came in between, the three queries of the
\* statistics add up: the jobs of the sources are the total, and no technology
\* is named with no job or with more than there are (Store.Stats).
THEOREM StatsAgree == ReadSpec => []StatsAddUp
<1>1. ReadInit => SInv
  <2> SUFFICES ASSUME ReadInit PROVE SInv
    OBVIOUS
  <2>1. RInv
    BY ReadInitEstablishesRInv
  <2>2. IsFiniteSet(DOMAIN jobs)
    BY FS_EmptySet DEF ReadInit, WalkInit, Init
  <2>3. Counted /\ StatsAddUp
    BY DEF ReadInit, None, Counted, StatsAddUp
  <2> QED
    BY <2>1, <2>2, <2>3 DEF SInv
<1>2. SInv => StatsAddUp
  BY DEF SInv
<1> QED
  BY <1>1, <1>2, ReadNextKeepsSInv, PTL DEF ReadSpec
=============================================================================
