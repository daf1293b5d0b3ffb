------------------------------- MODULE Paging -------------------------------
(***************************************************************************)
(* GET /api/jobs: a client walks the listing page by page, each request     *)
(* carrying the cursor the previous response returned, while scrapes and    *)
(* sweeps (Dedup) go on changing the table between two requests.            *)
(*                                                                          *)
(* A request reads the table in one SELECT; the second one of the handler   *)
(* only resolves company names.  A request that fails changes nothing and   *)
(* is repeated.  The filters of a walk are one predicate on content, here   *)
(* a set of titles.  A cursor survives its encoding unchanged: the date is  *)
(* written in full precision, and left out when there is none.              *)
(***************************************************************************)
EXTENDS Dedup, FiniteSets

CONSTANTS
    Id,             \* Id[u]: the uuid of row u, as a number
    Wanted,         \* the titles the filters of the walk let through
    Requests,       \* values of the limit parameter; 0 stands for none
    DefaultLimit,   \* defaultListLimit
    MaxLimit,       \* maxListLimit
    Int32Half       \* 2^31, the number of non-negative values of an int32

ASSUME IdAssumption ==
    /\ Id \in [Urls -> Nat]
    /\ \A u, v \in Urls : Id[u] = Id[v] => u = v
ASSUME NoEntryIsNull == NULL \notin [url : Urls, posted : Nat \cup {NULL}]
ASSUME LimitAssumption ==
    /\ Requests \subseteq Nat
    /\ {DefaultLimit, MaxLimit, Int32Half} \subseteq Nat \ {0}
    /\ DefaultLimit <= MaxLimit

VARIABLES
    walk,       \* where the client is: "idle", "walking" or "ended"
    cursor,     \* the cursor of its next request, NULL for none
    page,       \* the entries of the latest response
    shown,      \* the entries of the earlier ones
    steady      \* the entries listed, at the same place, ever since its first request

client == <<walk, cursor, page, shown, steady>>
allVars == <<vars, client>>

\* A row as the listing orders it.
Entry == [url : Urls, posted : Nat \cup {NULL}]

WalkTypeOK ==
    /\ TypeOK
    /\ walk \in {"idle", "walking", "ended"}
    /\ cursor \in Entry \cup {NULL}
    /\ page \subseteq Entry /\ shown \subseteq Entry /\ steady \subseteq Entry

WalkInit ==
    /\ Init
    /\ walk = "idle" /\ cursor = NULL
    /\ page = {} /\ shown = {} /\ steady = {}

----------------------------------------------------------------------------
(* The query *)

\* COALESCE(posted_at, '-infinity').
SortDate(e) == IF e.posted = NULL THEN -1 ELSE e.posted

\* The order of the listing: date, then id, both descending.
Before(a, b) ==
    \/ SortDate(a) > SortDate(b)
    \/ SortDate(a) = SortDate(b) /\ Id[a.url] > Id[b.url]

\* The active, canonical rows the filters let through.
Listed(t) ==
    {[url |-> u, posted |-> t[u].posted] :
        u \in {v \in DOMAIN t :
                  t[v].canonical = NULL /\ t[v].active /\ t[v].title \in Wanted}}

\* Mutant of HasCursor: a cursor without a date is taken for no cursor.
HasCursorDate(c) == c # NULL /\ c.posted # NULL
HasCursor(c) == c # NULL

\* Mutant of Beyond: the comparison with the cursor is not strict.
BeyondOrAt(c, e) == HasCursor(c) => (Before(c, e) \/ c = e)

\* The keyset condition.
Beyond(c, e) == HasCursor(c) => Before(c, e)

\* ORDER BY and LIMIT: the first limit of the rows, or all of them (a set of
\* one element, the order being total).
FirstOf(rows, limit) ==
    {p \in SUBSET rows :
        /\ Cardinality(p) = limit \/ (p = rows /\ Cardinality(p) < limit)
        /\ \A x \in p, e \in rows \ p : Before(x, e)}

\* ListJobs.
ListJobs(t, c, limit) == FirstOf({e \in Listed(t) : Beyond(c, e)}, limit)

----------------------------------------------------------------------------
(* The limit and the cursor of a response *)

\* int32(n), which wraps around.
Int32(n) == ((n + Int32Half) % (2 * Int32Half)) - Int32Half

ClampLimit(limit) ==
    IF limit <= 0 THEN DefaultLimit ELSE IF limit > MaxLimit THEN MaxLimit ELSE limit

\* The entry of a page that comes last, as a set of one element.
LastOf(rows) == {e \in rows : \A x \in rows \ {e} : Before(x, e)}

\* Mutant of IsShort: judged by the limit the client asked for.
IsShortOfRequested(rows, n) == Cardinality(rows) < n

\* The page came back shorter than the limit the query was run with.
IsShort(rows, n) == Cardinality(rows) < ClampLimit(Int32(n))

\* NextCursor: none once a page is empty or short.
NextCursor(rows, n) ==
    IF rows = {} \/ IsShort(rows, n) THEN {NULL} ELSE LastOf(rows)

----------------------------------------------------------------------------
(* Actions *)

\* handleListJobs, for a valid request: the client asks for the first page,
\* or for the one its cursor leads to, with any limit.
FetchPage ==
    /\ walk # "ended"
    /\ \E n \in Requests :
         /\ page' \in ListJobs(jobs, cursor, ClampLimit(Int32(n)))
         /\ cursor' \in NextCursor(page', n)
    /\ shown' = shown \cup page
    /\ walk' = IF cursor' = NULL THEN "ended" ELSE "walking"
    /\ steady' = IF walk = "idle" THEN Listed(jobs) ELSE steady
    /\ UNCHANGED vars

\* Anything Dedup does, between two requests.
ChangeTable ==
    /\ Next
    /\ steady' = steady \cap Listed(jobs')
    /\ UNCHANGED <<walk, cursor, page, shown>>

WalkNext == FetchPage \/ ChangeTable

\* The client goes on asking.
WalkSpec == WalkInit /\ [][WalkNext]_allVars /\ WF_allVars(FetchPage)

----------------------------------------------------------------------------
(* Properties *)

\* Every entry of a page comes after everything on the pages before it: no
\* entry is shown twice, whatever a scrape does to the table in between (a
\* row can come back only if its date has moved it down).
PagesInOrder == \A s \in shown, e \in page : Before(s, e)

\* A walk that is over has shown every row that was in the listing, at the
\* same place, all the time: "a short page conclusively means there's nothing
\* more" (jobs.go, NextCursor), for unknown dates and ties too.
NothingSkipped == walk = "ended" => steady \subseteq shown \cup page

\* A walk comes to its end, however the table changes under it.
WalkEnds == (walk = "walking") ~> (walk = "ended")
=============================================================================
