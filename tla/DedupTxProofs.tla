--------------------------- MODULE DedupTxProofs ---------------------------
(***************************************************************************)
(* Theorems about DedupTx, for every number of concurrent scrape runs, any  *)
(* postings and any number of them: whatever the interleaving of their      *)
(* statements, whichever of them fail, lose an acknowledgement or are       *)
(* chosen as deadlock victims.                                              *)
(*                                                                          *)
(* There are three inductive invariants.  TInv relates what a transaction   *)
(* has written and not committed to the committed table: two transactions   *)
(* never hold the same row, and a row once committed keeps its              *)
(* first_seen_at and, if it is a duplicate, stays one.  OInv says that a    *)
(* decision taken on rows read without a lock is still right when it is     *)
(* written, but for the rows that are unsettled then.  AInv, for one run at *)
(* a time, says how far the statements sent so far have come towards the    *)
(* table one step of Dedup leaves behind.                                   *)
(***************************************************************************)
EXTENDS DedupTx, JobsTableProofs, Sums

Tables == UNION {[S -> Row] : S \in SUBSET Urls}

\* UpsertJob's local variables.
TxState ==
    [pc : PCs, url : Urls \cup {NULL}, listing : Listing \cup {NULL}, start : Nat,
     inserted : BOOLEAN, winner : Urls \cup {NULL}, losers : Tables,
     current : Urls \cup {NULL}, todo : SUBSET Urls]

Types ==
    /\ db \in Tables
    /\ clock \in Nat
    /\ tx \in [Workers -> TxState]
    /\ local \in [Workers -> Tables]
    /\ handled \in [Workers -> 0..MaxItems]
    /\ countedNew \in [Urls -> Nat]
    /\ unsettled \subseteq DOMAIN db

\* A transaction is under way; it has written its posting's row; it is
\* pointing the losers at the winner.
Active(w) == tx[w].pc \notin {"idle", "done"}
Written(w) == tx[w].pc \in {"find", "mark", "scan", "reparent", "commit"}
Merging(w) == tx[w].pc \in {"mark", "scan", "reparent"}

\* No two transactions hold the same row.
LocksExclude ==
    \A w, x \in Workers : w # x => DOMAIN local[w] \cap DOMAIN local[x] = {}

\* Where each transaction is.
Placed(w) ==
    /\ tx[w].start <= clock
    /\ tx[w].pc \in {"idle", "upsert", "done"} => local[w] = NoRows
    /\ Active(w) /\ tx[w].pc # "sweep" =>
         /\ tx[w].url \in Urls /\ tx[w].listing \in Serves[tx[w].url]
         /\ handled[w] < MaxItems
    /\ Written(w) => tx[w].url \in DOMAIN local[w]
    /\ tx[w].inserted => Written(w) /\ tx[w].url \notin DOMAIN db
    /\ Merging(w) =>
         /\ tx[w].winner \in DOMAIN View(w)
         /\ DOMAIN tx[w].losers \subseteq DOMAIN View(w)
    /\ tx[w].pc \in {"scan", "reparent"} => tx[w].current \in DOMAIN View(w)
    /\ tx[w].pc = "reparent" => tx[w].todo \subseteq DOMAIN View(w)
    /\ tx[w].pc = "sweep" =>
         tx[w].todo \subseteq DOMAIN db \ DOMAIN local[w]

\* What an uncommitted version of row v may be.
VersionOf(w, v) ==
    /\ ~local[w][v].active => local[w][v].lastSeen < clock - StaleAfter
    /\ v \in DOMAIN db =>
         /\ local[w][v].firstSeen = db[v].firstSeen
         /\ db[v].canonical # NULL => local[w][v].canonical # NULL
    /\ v \notin DOMAIN db =>
         /\ v = tx[w].url /\ tx[w].inserted
         /\ local[w][v].firstSeen = tx[w].start

TInv ==
    /\ Types
    /\ LocksExclude
    /\ \A w \in Workers : Placed(w) /\ \A v \in DOMAIN local[w] : VersionOf(w, v)
    /\ InactiveOnlyIfStale
    /\ NewOnce

----------------------------------------------------------------------------

\* Transactions begin at different times, and so rows are first seen at
\* different times.
TimesDiffer ==
    /\ \A w, x \in Workers : w # x /\ Active(w) /\ Active(x) => tx[w].start # tx[x].start
    /\ \A u \in DOMAIN db :
         /\ db[u].firstSeen <= clock
         /\ \A w \in Workers : Active(w) => db[u].firstSeen # tx[w].start
         /\ \A v \in DOMAIN db : u # v => db[u].firstSeen # db[v].firstSeen

\* The rows that have had, or in w's versions have, more than one date.
Dated(w) == unsettled \cup Redated(w)

\* CanonicalIsEarlier of a table, but for the rows D, and in which no other
\* row points at itself.
Ordered(t, D) ==
    \A u \in DOMAIN t : t[u].canonical # NULL =>
        /\ t[u].canonical \in DOMAIN t
        /\ u \notin D /\ t[u].canonical \notin D =>
             /\ t[u].canonical # u
             /\ ~PostedBefore(t[u], t[t[u].canonical])

\* Where the rows w has written point, and which of them has a date that may
\* be new.
Pointers(w) ==
    /\ tx[w].pc \in {"upsert", "find", "sweep"} => tx[w].winner = NULL
    /\ tx[w].pc = "sweep" => tx[w].url = NULL
    /\ \A v \in DOMAIN local[w] :
         /\ \/ local[w][v].canonical \in {NULL, tx[w].winner}
            \/ v \in DOMAIN db /\ local[w][v].canonical = db[v].canonical
         /\ v \in DOMAIN db /\ v # tx[w].url => local[w][v].posted = db[v].posted

\* v is not preferred to the winner as the rows are now, unless a date of
\* either has changed.
NotPreferred(w, v) ==
    /\ v # tx[w].winner
    /\ v \notin Dated(w) /\ tx[w].winner \notin Dated(w) =>
         ~PostedBefore(View(w)[v], View(w)[tx[w].winner])

\* The decision being written is right for the rows as they are now.
DecisionHolds(w) ==
    /\ Merging(w) => \A v \in DOMAIN tx[w].losers : NotPreferred(w, v)
    /\ tx[w].pc \in {"scan", "reparent"} => NotPreferred(w, tx[w].current)

OInv ==
    /\ TimesDiffer
    /\ Ordered(db, unsettled)
    /\ \A w \in Workers :
         Ordered(View(w), Unsettling(w)) /\ Pointers(w) /\ DecisionHolds(w)

----------------------------------------------------------------------------
(* Tables and views *)

\* Tables is the set of values that are tables.
LEMMA TablesAreTables == \A t : t \in Tables <=> IsTable(t)
BY DEF Tables, IsTable

\* A table with a row written to it.
LEMMA PutInTable ==
    ASSUME NEW t \in Tables, NEW v \in Urls, NEW row \in Row
    PROVE  [x \in DOMAIN t \cup {v} |-> IF x = v THEN row ELSE t[x]] \in Tables
<1> DEFINE S == DOMAIN t \cup {v}
           r == [x \in S |-> IF x = v THEN row ELSE t[x]]
<1>1. S \in SUBSET Urls /\ \A x \in S : x # v => t[x] \in Row
  BY DEF Tables
<1>2. r \in [S -> Row]
  BY <1>1
<1> QED
  BY <1>1, <1>2 DEF Tables

\* The empty table, and a table without one of its rows.
LEMMA SmallerTables ==
    /\ NoRows \in Tables /\ DOMAIN NoRows = {}
    /\ \A t \in Tables : \A v : [x \in DOMAIN t \ {v} |-> t[x]] \in Tables
<1>1. NoRows \in [{} -> Row] /\ DOMAIN NoRows = {}
  BY DEF NoRows
<1>2. ASSUME NEW t \in Tables, NEW v
      PROVE  [x \in DOMAIN t \ {v} |-> t[x]] \in Tables
  <2> DEFINE S == DOMAIN t \ {v}
             r == [x \in S |-> t[x]]
  <2>1. S \in SUBSET Urls /\ \A x \in S : t[x] \in Row
    BY DEF Tables
  <2>2. r \in [S -> Row]
    BY <2>1
  <2> QED
    BY <2>1, <2>2 DEF Tables
<1>3. {} \in SUBSET Urls
  OBVIOUS
<1> QED
  BY <1>1, <1>2, <1>3 DEF Tables

\* What a transaction sees: its own versions first.
LEMMA ViewFacts ==
    ASSUME Types, NEW w \in Workers
    PROVE  /\ View(w) \in Tables
           /\ DOMAIN View(w) = DOMAIN local[w] \cup DOMAIN db
           /\ \A v \in DOMAIN local[w] : View(w)[v] = local[w][v]
           /\ \A v \in DOMAIN db \ DOMAIN local[w] : View(w)[v] = db[v]
           /\ \A v \in DOMAIN View(w) : v \in Urls /\ View(w)[v] \in Row
<1>1. local[w] \in Tables /\ db \in Tables
  BY DEF Types
<1>2. /\ DOMAIN View(w) = DOMAIN local[w] \cup DOMAIN db
      /\ \A v \in DOMAIN local[w] : View(w)[v] = local[w][v]
      /\ \A v \in DOMAIN db \ DOMAIN local[w] : View(w)[v] = db[v]
  BY DEF View
<1>3. DOMAIN View(w) \in SUBSET Urls
  BY <1>1, <1>2 DEF Tables
<1>4. \A v \in DOMAIN View(w) : View(w)[v] \in Row
  BY <1>1, <1>2 DEF Tables
<1>5. View(w) \in [DOMAIN View(w) -> Row]
  BY <1>4 DEF View
<1>6. View(w) \in Tables
  BY <1>3, <1>5 DEF Tables
<1> QED
  BY <1>2, <1>3, <1>4, <1>6

----------------------------------------------------------------------------
(* A step of one transaction and the others *)

\* Only w moves.
OnlyMoves(w) ==
    /\ tx' \in [Workers -> TxState] /\ local' \in [Workers -> Tables]
    /\ handled' \in [Workers -> 0..MaxItems]
    /\ clock' \in Nat /\ clock <= clock'
    /\ \A x \in Workers \ {w} :
         tx'[x] = tx[x] /\ local'[x] = local[x] /\ handled'[x] = handled[x]

\* A step that commits nothing changes nothing for the others.
LEMMA OwnStepKeepsTInv ==
    ASSUME TInv, NEW w \in Workers, OnlyMoves(w), UNCHANGED <<db, countedNew, unsettled>>,
           \A x \in Workers \ {w} : DOMAIN local'[w] \cap DOMAIN local[x] = {},
           Placed(w)', \A v \in DOMAIN local'[w] : VersionOf(w, v)'
    PROVE  TInv'
<1>1. Types'
  BY DEF TInv, Types, OnlyMoves
<1>2. LocksExclude'
  BY DEF TInv, LocksExclude, OnlyMoves
<1>3. ASSUME NEW x \in Workers \ {w}
      PROVE  Placed(x)' /\ \A v \in DOMAIN local'[x] : VersionOf(x, v)'
  <2>1. Placed(x) /\ \A v \in DOMAIN local[x] : VersionOf(x, v)
    BY DEF TInv
  <2>2. tx'[x] = tx[x] /\ local'[x] = local[x] /\ handled'[x] = handled[x]
    BY DEF OnlyMoves
  <2>3. View(x)' = View(x)
    BY <2>2 DEF View
  <2>4. clock \in Nat /\ clock' \in Nat /\ clock <= clock' /\ tx[x].start \in Nat
    BY DEF TInv, Types, OnlyMoves, TxState
  <2>5. Placed(x)'
    BY <2>1, <2>2, <2>3, <2>4 DEF Placed, Active, Written, Merging
  <2>6. ASSUME NEW v \in DOMAIN local[x] PROVE VersionOf(x, v)'
    <3>1. local[x][v].lastSeen \in Nat /\ StaleAfter \in Nat
      BY StaleAssumption DEF TInv, Types, Tables, Row
    <3> QED
      BY <2>1, <2>2, <2>4, <3>1 DEF VersionOf
  <2> QED
    BY <2>2, <2>5, <2>6
<1>4. InactiveOnlyIfStale'
  <2>1. /\ clock \in Nat /\ clock' \in Nat /\ clock <= clock' /\ StaleAfter \in Nat
        /\ \A u \in DOMAIN db : db[u].lastSeen \in Nat
    BY StaleAssumption DEF TInv, Types, OnlyMoves, Tables, Row
  <2> QED
    BY <2>1 DEF TInv, InactiveOnlyIfStale
<1>5. NewOnce'
  BY DEF TInv, NewOnce
<1> QED
  BY <1>1, <1>2, <1>3, <1>4, <1>5 DEF TInv

\* A commit shows the others the rows w wrote, none of which they hold.
LEMMA PublishKeepsTInv ==
    ASSUME TInv, NEW w \in Workers, OnlyMoves(w), db' = View(w), local'[w] = NoRows,
           UNCHANGED clock, countedNew' \in [Urls -> Nat], NewOnce',
           unsettled' \subseteq DOMAIN db',
           tx'[w].pc \in {"idle", "done"}, tx'[w].start = 0, ~tx'[w].inserted
    PROVE  TInv'
<1>0. /\ View(w) \in Tables
      /\ DOMAIN View(w) = DOMAIN local[w] \cup DOMAIN db
      /\ \A v \in DOMAIN local[w] : View(w)[v] = local[w][v]
      /\ \A v \in DOMAIN db \ DOMAIN local[w] : View(w)[v] = db[v]
  BY ViewFacts DEF TInv
<1>1. Types'
  BY <1>0 DEF TInv, Types, OnlyMoves
<1>2. LocksExclude'
  BY SmallerTables DEF TInv, LocksExclude, OnlyMoves
<1>3. ASSUME NEW x \in Workers \ {w}
      PROVE  Placed(x)' /\ \A v \in DOMAIN local'[x] : VersionOf(x, v)'
  <2>1. Placed(x) /\ \A v \in DOMAIN local[x] : VersionOf(x, v)
    BY DEF TInv
  <2>2. tx'[x] = tx[x] /\ local'[x] = local[x] /\ handled'[x] = handled[x]
    BY DEF OnlyMoves
  <2>3. DOMAIN local[x] \cap DOMAIN local[w] = {}
    BY DEF TInv, LocksExclude
  <2>4. /\ DOMAIN View(x) = DOMAIN local[x] \cup DOMAIN db
        /\ DOMAIN View(x)' = DOMAIN local[x] \cup DOMAIN db'
    BY <2>2 DEF View
  <2>5. DOMAIN View(x) \subseteq DOMAIN View(x)' /\ DOMAIN db \subseteq DOMAIN db'
    BY <1>0, <2>4
  <2>6. tx[x].inserted => tx[x].url \notin DOMAIN db'
    BY <1>0, <2>1, <2>3 DEF Placed
  <2>7. Placed(x)'
    BY <2>1, <2>2, <2>5, <2>6 DEF Placed, Active, Written, Merging
  <2>8. ASSUME NEW v \in DOMAIN local[x] PROVE VersionOf(x, v)'
    <3>1. v \in DOMAIN db' <=> v \in DOMAIN db
      BY <1>0, <2>3
    <3>2. v \in DOMAIN db => db'[v] = db[v]
      BY <1>0, <2>3
    <3> QED
      BY <2>1, <2>2, <3>1, <3>2 DEF VersionOf
  <2> QED
    BY <2>2, <2>7, <2>8
<1>4. Placed(w)'
  BY DEF TInv, Types, Placed, Active, Written, Merging
<1>5. InactiveOnlyIfStale'
  <2>1. ASSUME NEW u \in DOMAIN db', ~db'[u].active
        PROVE  db'[u].lastSeen < clock - StaleAfter
    <3>1. CASE u \in DOMAIN local[w]
      BY <1>0, <2>1, <3>1 DEF TInv, VersionOf
    <3>2. CASE u \notin DOMAIN local[w]
      BY <1>0, <2>1, <3>2 DEF TInv, InactiveOnlyIfStale
    <3> QED
      BY <3>1, <3>2
  <2> QED
    BY <2>1 DEF InactiveOnlyIfStale
<1>6. \A v \in DOMAIN local'[w] : VersionOf(w, v)'
  BY SmallerTables
<1> QED
  BY <1>1, <1>2, <1>3, <1>4, <1>5, <1>6 DEF TInv

----------------------------------------------------------------------------
(* Writing a row *)

\* A version written, of a row nobody else holds.
LEMMA WriteKeepsTables ==
    ASSUME TInv, NEW w \in Workers, NEW v \in Urls, NEW row \in Row,
           Write(w, v, row), v \notin LockedByOthers(w)
    PROVE  /\ local' \in [Workers -> Tables]
           /\ DOMAIN local'[w] = DOMAIN local[w] \cup {v}
           /\ local'[w][v] = row
           /\ \A x \in DOMAIN local[w] : x # v => local'[w][x] = local[w][x]
           /\ \A x \in Workers \ {w} :
                local'[x] = local[x] /\ DOMAIN local'[w] \cap DOMAIN local[x] = {}
<1> DEFINE t == [x \in DOMAIN local[w] \cup {v} |-> IF x = v THEN row ELSE local[w][x]]
<1>1. local \in [Workers -> Tables] /\ local[w] \in Tables
  BY DEF TInv, Types
<1>2. t \in Tables
  BY <1>1, PutInTable
<1>3. local' = [local EXCEPT ![w] = t]
  BY DEF Write
<1>4. /\ DOMAIN t = DOMAIN local[w] \cup {v} /\ t[v] = row
      /\ \A x \in DOMAIN local[w] : x # v => t[x] = local[w][x]
  OBVIOUS
<1> HIDE DEF t
<1>5. /\ local' \in [Workers -> Tables] /\ local'[w] = t
      /\ \A x \in Workers \ {w} : local'[x] = local[x]
  BY <1>1, <1>2, <1>3
<1>6. \A x \in Workers \ {w} :
        v \notin DOMAIN local[x] /\ DOMAIN local[w] \cap DOMAIN local[x] = {}
  BY DEF TInv, LocksExclude, LockedByOthers
<1> QED
  BY <1>4, <1>5, <1>6

\* A new version of a row already there: it keeps its first_seen_at, stays a
\* duplicate if it is one, and is inactive only if stale.
LEMMA NewVersionKeeps ==
    ASSUME TInv, NEW w \in Workers, NEW v \in DOMAIN View(w), NEW row \in Row,
           Write(w, v, row), v \notin LockedByOthers(w), UNCHANGED <<db, clock>>,
           tx'[w].url = tx[w].url, tx'[w].inserted <=> tx[w].inserted,
           tx'[w].start = tx[w].start,
           row.firstSeen = View(w)[v].firstSeen,
           View(w)[v].canonical # NULL => row.canonical # NULL,
           ~row.active => row.lastSeen < clock - StaleAfter
    PROVE  /\ \A x \in DOMAIN local'[w] : VersionOf(w, x)'
           /\ DOMAIN View(w)' = DOMAIN View(w)
<1>1. /\ DOMAIN View(w) = DOMAIN local[w] \cup DOMAIN db
      /\ \A x \in DOMAIN local[w] : View(w)[x] = local[w][x]
      /\ \A x \in DOMAIN db \ DOMAIN local[w] : View(w)[x] = db[x]
      /\ v \in Urls
  BY ViewFacts DEF TInv
<1>2. /\ DOMAIN local'[w] = DOMAIN local[w] \cup {v}
      /\ local'[w][v] = row
      /\ \A x \in DOMAIN local[w] : x # v => local'[w][x] = local[w][x]
  BY <1>1, WriteKeepsTables
<1>3. \A x \in DOMAIN local[w] : VersionOf(w, x)
  BY DEF TInv
<1>4. ASSUME NEW x \in DOMAIN local'[w] PROVE VersionOf(w, x)'
  <2>1. CASE x # v
    BY <1>2, <1>3, <2>1 DEF VersionOf
  <2>2. CASE x = v /\ v \in DOMAIN local[w]
    BY <1>1, <1>2, <1>3, <2>2 DEF VersionOf
  <2>3. CASE x = v /\ v \notin DOMAIN local[w]
    BY <1>1, <1>2, <2>3 DEF VersionOf
  <2> QED
    BY <2>1, <2>2, <2>3
<1>5. DOMAIN View(w)' = DOMAIN local'[w] \cup DOMAIN db
  BY DEF View
<1> QED
  BY <1>1, <1>2, <1>4, <1>5

\* Versions that are not touched.
LEMMA VersionsStay ==
    ASSUME TInv, NEW w \in Workers, UNCHANGED <<db, clock, local>>,
           tx'[w].url = tx[w].url, tx'[w].inserted <=> tx[w].inserted,
           tx'[w].start = tx[w].start
    PROVE  /\ \A x \in DOMAIN local'[w] : VersionOf(w, x)'
           /\ View(w)' = View(w)
           /\ \A x \in Workers \ {w} : DOMAIN local'[w] \cap DOMAIN local[x] = {}
<1>1. \A x \in DOMAIN local[w] : VersionOf(w, x)
  BY DEF TInv
<1> QED
  BY <1>1 DEF VersionOf, View, TInv, LocksExclude

----------------------------------------------------------------------------
(* Every step keeps TInv *)

\* The local variables of a transaction, changed by its step.
LEMMA MovesTo ==
    ASSUME TInv, NEW w \in Workers, NEW s \in TxState, tx' = [tx EXCEPT ![w] = s]
    PROVE  /\ tx' \in [Workers -> TxState] /\ tx'[w] = s
           /\ \A x \in Workers \ {w} : tx'[x] = tx[x]
BY DEF TInv, Types

\* A local variable is set to what it may hold.
LEMMA SetField ==
    ASSUME NEW r \in TxState
    PROVE  /\ \A pc \in PCs : [r EXCEPT !.pc = pc] \in TxState
           /\ \A url \in Urls : [r EXCEPT !.url = url] \in TxState
           /\ \A l \in Listing : [r EXCEPT !.listing = l] \in TxState
           /\ \A n \in Nat : [r EXCEPT !.start = n] \in TxState
           /\ \A b \in BOOLEAN : [r EXCEPT !.inserted = b] \in TxState
           /\ \A u \in Urls : [r EXCEPT !.winner = u] \in TxState
           /\ \A t \in Tables : [r EXCEPT !.losers = t] \in TxState
           /\ \A u \in Urls : [r EXCEPT !.current = u] \in TxState
           /\ \A S \in SUBSET Urls : [r EXCEPT !.todo = S] \in TxState
BY DEF TxState

\* A transaction that has not begun.
LEMMA IdleFacts ==
    /\ IdleTx \in TxState
    /\ IdleTx.pc = "idle" /\ IdleTx.start = 0 /\ ~IdleTx.inserted
    /\ IdleTx.url = NULL /\ IdleTx.todo = {}
<1>1. NoRows \in Tables
  BY SmallerTables
<1> QED
  BY <1>1 DEF IdleTx, TxState, PCs

\* A transaction begins: it holds nothing, and no other began at its time.
LEMMA BeginKeepsTInv ==
    ASSUME TInv, NEW w \in Workers, Begin(w)
    PROVE  TInv'
<1>1. /\ tx[w].pc = "idle" /\ handled[w] < MaxItems
      /\ clock' = clock + 1 /\ UNCHANGED <<db, local, handled, countedNew, unsettled>>
  BY DEF Begin
<1>2. PICK u \in Urls : \E l \in Serves[u] :
        tx' = [tx EXCEPT ![w] = [IdleTx EXCEPT !.pc = "upsert", !.url = u,
                                      !.listing = l, !.start = clock + 1]]
  BY DEF Begin
<1>3. PICK l \in Serves[u] :
        tx' = [tx EXCEPT ![w] = [IdleTx EXCEPT !.pc = "upsert", !.url = u,
                                      !.listing = l, !.start = clock + 1]]
  BY <1>2
<1>4. clock \in Nat /\ l \in Listing /\ local[w] = NoRows /\ DOMAIN local[w] = {}
  BY <1>1, ServesAssumption, SmallerTables DEF TInv, Types, Placed
<1> DEFINE s == [IdleTx EXCEPT !.pc = "upsert", !.url = u, !.listing = l, !.start = clock + 1]
<1>5. /\ s.pc = "upsert" /\ s.url = u /\ s.listing = l /\ s.start = clock + 1
      /\ ~s.inserted
  BY IdleFacts DEF TxState
<1>6. s \in TxState
  <2>1. "upsert" \in PCs /\ clock + 1 \in Nat
    BY <1>4 DEF PCs
  <2> QED
    BY <1>4, <2>1, IdleFacts, SetField
<1>7. /\ tx' \in [Workers -> TxState] /\ tx'[w] = s
      /\ \A x \in Workers \ {w} : tx'[x] = tx[x]
  BY <1>3, <1>6, MovesTo
<1> HIDE DEF s
<1>8. OnlyMoves(w)
  BY <1>1, <1>4, <1>7 DEF TInv, Types, OnlyMoves
<1>9. Placed(w)'
  BY <1>1, <1>4, <1>5, <1>7 DEF Placed, Active, Written, Merging
<1> QED
  BY <1>1, <1>4, <1>8, <1>9, OwnStepKeepsTInv

\* The row a listing becomes.
LEMMA RowFromFacts ==
    ASSUME NEW l \in Listing, NEW first \in Nat, NEW n \in Nat,
           NEW canonical \in Urls \cup {NULL}
    PROVE  LET row == RowFrom(l, first, n, canonical)
           IN  /\ row \in Row /\ row.active
               /\ row.posted = l.posted
               /\ row.firstSeen = first /\ row.canonical = canonical
BY DEF RowFrom, Row, Listing

\* The row UpsertStatement writes: a new version of the one that is there, or
\* a new row.
LEMMA UpsertStatementWrites ==
    ASSUME TInv, NEW w \in Workers, UpsertStatement(w)
    PROVE  /\ tx[w].url \in Urls /\ tx[w].listing \in Serves[tx[w].url]
           /\ DOMAIN local[w] = {} /\ tx[w].pc = "upsert"
           /\ tx[w].url \notin LockedByOthers(w)
           /\ UNCHANGED <<db, clock, handled, countedNew, unsettled>>
           /\ \E row \in Row :
                /\ Write(w, tx[w].url, row)
                /\ tx' = [tx EXCEPT ![w].pc = IF row.canonical = NULL THEN "find" ELSE "commit",
                                    ![w].inserted = tx[w].url \notin DOMAIN db]
                /\ row.active /\ row.posted = tx[w].listing.posted
                /\ tx[w].url \in DOMAIN db =>
                     /\ row.firstSeen = db[tx[w].url].firstSeen
                     /\ row.canonical = db[tx[w].url].canonical
                /\ tx[w].url \notin DOMAIN db =>
                     row.firstSeen = tx[w].start /\ row.canonical = NULL
<1> DEFINE u == tx[w].url
           l == tx[w].listing
           exists == u \in DOMAIN db
           row == IF exists THEN Refresh(Newest(w, u), l, tx[w].start)
                            ELSE RowFrom(l, tx[w].start, tx[w].start, NULL)
<1>1. /\ tx[w].pc = "upsert" /\ u \notin LockedByOthers(w) /\ Write(w, u, row)
      /\ tx' = [tx EXCEPT ![w].pc = IF row.canonical = NULL THEN "find" ELSE "commit",
                          ![w].inserted = ~exists]
      /\ UNCHANGED <<db, clock, handled, countedNew, unsettled>>
  BY DEF UpsertStatement, WriteListing
<1>2. /\ Types /\ Placed(w) /\ tx[w] \in TxState /\ db \in Tables
      /\ u \in Urls /\ l \in Serves[u] /\ DOMAIN local[w] = {}
      /\ tx[w].start \in Nat
  BY <1>1, SmallerTables DEF TInv, Types, Placed, Active, TxState
<1>3. l \in Listing
  BY <1>2, ServesAssumption
<1>4. exists => Newest(w, u) = db[u] /\ db[u] \in Row
  BY <1>2, ViewFacts DEF Newest, Tables
<1>5. /\ row \in Row /\ row.active
      /\ row.posted = l.posted
      /\ exists => row.firstSeen = db[u].firstSeen /\ row.canonical = db[u].canonical
      /\ ~exists => row.firstSeen = tx[w].start /\ row.canonical = NULL
  <2>1. CASE exists
    <3>1. row = RowFrom(l, db[u].firstSeen, tx[w].start, db[u].canonical)
      BY <1>4, <2>1 DEF Refresh
    <3>2. db[u].firstSeen \in Nat /\ db[u].canonical \in Urls \cup {NULL}
      BY <1>4, <2>1 DEF Row
    <3> HIDE DEF row
    <3> QED
      BY <1>2, <1>3, <2>1, <3>1, <3>2, RowFromFacts
  <2>2. CASE ~exists
    <3>1. row = RowFrom(l, tx[w].start, tx[w].start, NULL)
      BY <2>2
    <3> HIDE DEF row
    <3> QED
      BY <1>2, <1>3, <2>2, <3>1, RowFromFacts
  <2> QED
    BY <2>1, <2>2
<1> HIDE DEF row
<1> QED
  BY <1>1, <1>2, <1>5

\* The posting's row is written: a new version of the row there is, or a row
\* nobody else can be inserting.
LEMMA UpsertStatementKeepsTInv ==
    ASSUME TInv, NEW w \in Workers, UpsertStatement(w)
    PROVE  TInv'
<1> DEFINE u == tx[w].url
           l == tx[w].listing
           exists == u \in DOMAIN db
<1>1. /\ tx[w].pc = "upsert" /\ u \notin LockedByOthers(w)
      /\ UNCHANGED <<db, clock, handled, countedNew, unsettled>>
      /\ u \in Urls /\ l \in Serves[u] /\ DOMAIN local[w] = {}
  BY UpsertStatementWrites
<1>2. /\ Types /\ Placed(w) /\ tx[w] \in TxState /\ clock \in Nat
      /\ handled[w] < MaxItems
      /\ tx[w].start \in Nat /\ tx[w].start <= clock
  BY <1>1 DEF TInv, Types, Placed, Active, TxState
<1>3. PICK row \in Row :
        /\ Write(w, u, row)
        /\ tx' = [tx EXCEPT ![w].pc = IF row.canonical = NULL THEN "find" ELSE "commit",
                            ![w].inserted = ~exists]
        /\ row.active
        /\ exists => row.firstSeen = db[u].firstSeen /\ row.canonical = db[u].canonical
        /\ ~exists => row.firstSeen = tx[w].start /\ row.canonical = NULL
  BY UpsertStatementWrites
<1> DEFINE label == IF row.canonical = NULL THEN "find" ELSE "commit"
<1>4. label \in {"find", "commit"}
  OBVIOUS
<1> HIDE DEF label
<1>5. /\ local' \in [Workers -> Tables]
      /\ DOMAIN local'[w] = {u} /\ local'[w][u] = row
      /\ \A x \in Workers \ {w} :
           local'[x] = local[x] /\ DOMAIN local'[w] \cap DOMAIN local[x] = {}
  BY <1>1, <1>3, WriteKeepsTables
<1>6. \E s \in TxState :
        /\ tx' = [tx EXCEPT ![w] = s]
        /\ s.pc = label /\ s.url = u /\ s.listing = l /\ s.start = tx[w].start
        /\ s.inserted <=> ~exists
  <2> DEFINE fresh == ~exists
             s == [tx[w] EXCEPT !.pc = label, !.inserted = fresh]
  <2>1. fresh \in BOOLEAN /\ label \in PCs
    BY <1>4 DEF PCs
  <2>2. tx' = [tx EXCEPT ![w] = s]
    BY <1>2, <1>3 DEF Types, label
  <2>3. fresh <=> ~exists
    OBVIOUS
  <2> HIDE DEF fresh
  <2>4. s \in TxState
    BY <1>2, <2>1 DEF TxState
  <2>5. /\ s.pc = label /\ s.url = u /\ s.listing = l /\ s.start = tx[w].start
        /\ s.inserted = fresh
    BY <1>2 DEF TxState
  <2> HIDE DEF s
  <2> QED
    BY <2>2, <2>3, <2>4, <2>5
<1>7. PICK s \in TxState :
        /\ tx' = [tx EXCEPT ![w] = s]
        /\ s.pc = label /\ s.url = u /\ s.listing = l /\ s.start = tx[w].start
        /\ s.inserted <=> ~exists
  BY <1>6
<1>8. /\ tx' \in [Workers -> TxState] /\ tx'[w] = s
       /\ \A x \in Workers \ {w} : tx'[x] = tx[x]
  BY <1>7, MovesTo
<1>9. OnlyMoves(w)
  BY <1>1, <1>2, <1>5, <1>8 DEF Types, OnlyMoves
<1>10. Placed(w)'
  BY <1>1, <1>2, <1>4, <1>5, <1>7, <1>8 DEF Placed, Active, Written, Merging
<1>11. \A v \in DOMAIN local'[w] : VersionOf(w, v)'
  BY <1>1, <1>3, <1>5, <1>7, <1>8 DEF VersionOf
<1> QED
  BY <1>1, <1>5, <1>9, <1>10, <1>11, OwnStepKeepsTInv

\* A row is pointed at another one, and nothing else of it changes.
LEMMA PointedRow ==
    ASSUME NEW row \in Row, NEW u \in Urls
    PROVE  LET new == [row EXCEPT !.canonical = u]
           IN  /\ new \in Row /\ new.canonical = u /\ u # NULL
               /\ new.firstSeen = row.firstSeen /\ new.posted = row.posted
               /\ new.lastSeen = row.lastSeen
               /\ new.active <=> row.active
BY NullAssumption DEF Row

\* What a transaction sees is inactive only if stale.
LEMMA ViewInactiveOnlyIfStale ==
    ASSUME TInv, NEW w \in Workers, NEW v \in DOMAIN View(w), ~View(w)[v].active
    PROVE  View(w)[v].lastSeen < clock - StaleAfter
<1>1. /\ DOMAIN View(w) = DOMAIN local[w] \cup DOMAIN db
      /\ \A x \in DOMAIN local[w] : View(w)[x] = local[w][x]
      /\ \A x \in DOMAIN db \ DOMAIN local[w] : View(w)[x] = db[x]
  BY ViewFacts DEF TInv
<1> QED
  BY <1>1 DEF TInv, VersionOf, InactiveOnlyIfStale

\* The candidates are read and the winner chosen among them.
LEMMA WinnerIsOfGroup ==
    ASSUME NEW t, NEW group, NEW u, NEW win \in CanonicalOf(t, group, u)
    PROVE  win \in group /\ \A v \in group : ~PostedBefore(t[v], t[win])
BY DEF CanonicalOf

\* The losers, and the winner, are rows the transaction sees.
LEMMA FindCandidatesKeepsTInv ==
    ASSUME TInv, NEW w \in Workers, FindCandidates(w)
    PROVE  TInv'
<1> DEFINE u == tx[w].url
           group == {u} \cup Candidates(View(w), u)
<1>1. tx[w].pc = "find" /\ UNCHANGED <<db, clock, local, handled, countedNew, unsettled>>
  BY DEF FindCandidates
<1>2. PICK win \in CanonicalOf(View(w), group, u) :
        tx' = [tx EXCEPT ![w].pc = IF group = {win} THEN "commit" ELSE "mark",
                         ![w].winner = win,
                         ![w].losers = [v \in group \ {win} |-> View(w)[v]]]
  BY DEF FindCandidates
<1>3. /\ Types /\ Placed(w) /\ tx \in [Workers -> TxState] /\ tx[w] \in TxState
      /\ clock \in Nat
  BY DEF TInv, Types
<1>4. /\ DOMAIN View(w) = DOMAIN local[w] \cup DOMAIN db
      /\ \A v \in DOMAIN View(w) : v \in Urls /\ View(w)[v] \in Row
  BY <1>3, ViewFacts
<1>5. group \subseteq DOMAIN View(w) /\ win \in group
  BY <1>1, <1>3, <1>4, WinnerIsOfGroup DEF Placed, Written, Candidates
<1> DEFINE label == IF group = {win} THEN "commit" ELSE "mark"
           losers == [v \in group \ {win} |-> View(w)[v]]
<1>6. label \in {"commit", "mark"} /\ label \in PCs
  BY DEF PCs
<1>7. losers \in Tables /\ DOMAIN losers \subseteq DOMAIN View(w)
  <2> DEFINE S == group \ {win}
  <2>1. S \in SUBSET Urls /\ \A v \in S : View(w)[v] \in Row
    BY <1>4, <1>5
  <2>2. losers \in [S -> Row]
    BY <2>1
  <2> QED
    BY <1>5, <2>1, <2>2 DEF Tables
<1> HIDE DEF label, losers
<1> DEFINE s == [tx[w] EXCEPT !.pc = label, !.winner = win, !.losers = losers]
<1>8. tx' = [tx EXCEPT ![w] = s]
  BY <1>2, <1>3 DEF label, losers
<1>9. s \in TxState
  BY <1>3, <1>4, <1>5, <1>6, <1>7, SetField
<1>10. /\ s.pc = label /\ s.winner = win /\ s.losers = losers
       /\ s.url = tx[w].url /\ s.listing = tx[w].listing /\ s.start = tx[w].start
       /\ s.inserted <=> tx[w].inserted
  BY <1>3 DEF TxState
<1> HIDE DEF s
<1>11. /\ tx' \in [Workers -> TxState] /\ tx'[w] = s
       /\ \A x \in Workers \ {w} : tx'[x] = tx[x]
  BY <1>8, <1>9, MovesTo
<1>12. OnlyMoves(w)
  BY <1>1, <1>3, <1>11 DEF Types, OnlyMoves
<1>13. /\ \A x \in DOMAIN local'[w] : VersionOf(w, x)'
       /\ View(w)' = View(w)
       /\ \A x \in Workers \ {w} : DOMAIN local'[w] \cap DOMAIN local[x] = {}
  BY <1>1, <1>10, <1>11, VersionsStay
<1>14. Placed(w)'
  BY <1>1, <1>3, <1>5, <1>6, <1>7, <1>10, <1>11, <1>13
     DEF Placed, Active, Written, Merging
<1> QED
  BY <1>1, <1>12, <1>13, <1>14, OwnStepKeepsTInv

\* A loser is one of the rows still to be marked.
LEMMA NextLosersAreLosers ==
    ASSUME NEW r, NEW v \in NextLosers(r)
    PROVE  v \in DOMAIN r.losers
BY DEF NextLosers

\* The next loser is pointed at the winner.
LEMMA MarkLoserKeepsTInv ==
    ASSUME TInv, NEW w \in Workers, MarkLoser(w)
    PROVE  TInv'
<1>1. tx[w].pc = "mark" /\ UNCHANGED <<db, clock, handled, countedNew, unsettled>>
  BY DEF MarkLoser
<1>2. PICK v \in NextLosers(tx[w]) \ LockedByOthers(w) :
        /\ Write(w, v, [Newest(w, v) EXCEPT !.canonical = tx[w].winner])
        /\ tx' = [tx EXCEPT ![w].pc = "scan", ![w].current = v,
                            ![w].losers = [x \in DOMAIN @ \ {v} |-> @[x]]]
  BY DEF MarkLoser
<1>3. /\ Types /\ Placed(w) /\ tx \in [Workers -> TxState] /\ tx[w] \in TxState
      /\ clock \in Nat
  BY DEF TInv, Types
<1>4. \A x \in DOMAIN View(w) : x \in Urls /\ View(w)[x] \in Row
  BY <1>3, ViewFacts
<1>5. v \in DOMAIN tx[w].losers /\ v \in DOMAIN View(w) /\ tx[w].winner \in DOMAIN View(w)
  BY <1>1, <1>2, <1>3, NextLosersAreLosers DEF Placed, Merging
<1> DEFINE row == [Newest(w, v) EXCEPT !.canonical = tx[w].winner]
           losers == [x \in DOMAIN tx[w].losers \ {v} |-> tx[w].losers[x]]
           s == [tx[w] EXCEPT !.pc = "scan", !.current = v, !.losers = losers]
<1>6. /\ row \in Row /\ row.canonical # NULL
      /\ row.firstSeen = View(w)[v].firstSeen
      /\ ~row.active => row.lastSeen < clock - StaleAfter
  BY <1>4, <1>5, PointedRow, ViewInactiveOnlyIfStale DEF Newest
<1>7. losers \in Tables /\ DOMAIN losers \subseteq DOMAIN View(w)
  BY <1>1, <1>3, SmallerTables DEF TxState, Placed, Merging
<1>8. tx' = [tx EXCEPT ![w] = s]
  BY <1>2, <1>3
<1>9. Write(w, v, row)
  BY <1>2
<1> HIDE DEF row, losers
<1>10. s \in TxState
  BY <1>3, <1>4, <1>5, <1>7, SetField DEF PCs
<1>11. /\ s.pc = "scan" /\ s.winner = tx[w].winner /\ s.losers = losers
       /\ s.current = v
       /\ s.url = tx[w].url /\ s.listing = tx[w].listing /\ s.start = tx[w].start
       /\ s.inserted <=> tx[w].inserted
  BY <1>3 DEF TxState
<1> HIDE DEF s
<1>12. /\ tx' \in [Workers -> TxState] /\ tx'[w] = s
       /\ \A x \in Workers \ {w} : tx'[x] = tx[x]
  BY <1>8, <1>10, MovesTo
<1>13. /\ \A x \in DOMAIN local'[w] : VersionOf(w, x)'
       /\ DOMAIN View(w)' = DOMAIN View(w)
  BY <1>1, <1>2, <1>5, <1>6, <1>9, <1>11, <1>12, NewVersionKeeps
<1>14. /\ local' \in [Workers -> Tables]
       /\ DOMAIN local'[w] = DOMAIN local[w] \cup {v}
       /\ \A x \in Workers \ {w} :
            local'[x] = local[x] /\ DOMAIN local'[w] \cap DOMAIN local[x] = {}
  BY <1>2, <1>4, <1>5, <1>6, <1>9, WriteKeepsTables
<1>15. OnlyMoves(w)
  BY <1>1, <1>3, <1>12, <1>14 DEF Types, OnlyMoves
<1>16. Placed(w)'
  BY <1>1, <1>3, <1>5, <1>7, <1>11, <1>12, <1>13, <1>14
     DEF Placed, Active, Written, Merging
<1> QED
  BY <1>1, <1>13, <1>14, <1>15, <1>16, OwnStepKeepsTInv

\* Where the loop goes on.
LEMMA LoopAtFacts ==
    ASSUME NEW r, NEW todo
    PROVE  /\ LoopAt(r, todo) \in {"reparent", "commit", "mark"}
           /\ LoopAt(r, todo) \in PCs
BY DEF LoopAt, PCs

\* The rows that point at the loser are found.
LEMMA ReparentScanKeepsTInv ==
    ASSUME TInv, NEW w \in Workers, ReparentScan(w)
    PROVE  TInv'
<1> DEFINE todo == PointingAt(View(w), tx[w].current)
           label == LoopAt(tx[w], todo)
           s == [tx[w] EXCEPT !.pc = label, !.todo = todo]
<1>1. /\ tx[w].pc = "scan" /\ UNCHANGED <<db, clock, local, handled, countedNew, unsettled>>
      /\ tx' = [tx EXCEPT ![w].pc = label, ![w].todo = todo]
  BY DEF ReparentScan
<1>2. /\ Types /\ Placed(w) /\ tx \in [Workers -> TxState] /\ tx[w] \in TxState
      /\ clock \in Nat
  BY DEF TInv, Types
<1>3. todo \subseteq DOMAIN View(w) /\ todo \subseteq Urls
  BY <1>2, ViewFacts DEF PointingAt
<1>4. label \in {"reparent", "commit", "mark"} /\ label \in PCs
  BY LoopAtFacts
<1>5. tx' = [tx EXCEPT ![w] = s]
  BY <1>1, <1>2
<1> HIDE DEF todo, label
<1>6. s \in TxState
  BY <1>2, <1>3, <1>4, SetField
<1>7. /\ s.pc = label /\ s.winner = tx[w].winner /\ s.losers = tx[w].losers
      /\ s.current = tx[w].current /\ s.todo = todo
      /\ s.url = tx[w].url /\ s.listing = tx[w].listing /\ s.start = tx[w].start
      /\ s.inserted <=> tx[w].inserted
  BY <1>2 DEF TxState
<1> HIDE DEF s
<1>8. /\ tx' \in [Workers -> TxState] /\ tx'[w] = s
      /\ \A x \in Workers \ {w} : tx'[x] = tx[x]
  BY <1>5, <1>6, MovesTo
<1>9. OnlyMoves(w)
  BY <1>1, <1>2, <1>8 DEF Types, OnlyMoves
<1>10. /\ \A x \in DOMAIN local'[w] : VersionOf(w, x)'
       /\ View(w)' = View(w)
       /\ \A x \in Workers \ {w} : DOMAIN local'[w] \cap DOMAIN local[x] = {}
  BY <1>1, <1>7, <1>8, VersionsStay
<1>11. Placed(w)'
  BY <1>1, <1>2, <1>3, <1>4, <1>7, <1>8, <1>10 DEF Placed, Active, Written, Merging
<1> QED
  BY <1>1, <1>9, <1>10, <1>11, OwnStepKeepsTInv

\* One of them is pointed at the winner, if it still points at the loser.
LEMMA ReparentRowKeepsTInv ==
    ASSUME TInv, NEW w \in Workers, ReparentRow(w)
    PROVE  TInv'
<1>1. tx[w].pc = "reparent" /\ UNCHANGED <<db, clock, handled, countedNew, unsettled>>
  BY DEF ReparentRow
<1>2. PICK v \in tx[w].todo \ LockedByOthers(w) :
        /\ IF Newest(w, v).canonical = tx[w].current
           THEN Write(w, v, [Newest(w, v) EXCEPT !.canonical = tx[w].winner])
           ELSE UNCHANGED local
        /\ tx' = [tx EXCEPT ![w].pc = LoopAt(tx[w], tx[w].todo \ {v}),
                            ![w].todo = @ \ {v}]
  BY DEF ReparentRow
<1> DEFINE todo == tx[w].todo \ {v}
           label == LoopAt(tx[w], todo)
           row == [Newest(w, v) EXCEPT !.canonical = tx[w].winner]
           s == [tx[w] EXCEPT !.pc = label, !.todo = todo]
<1>3. /\ Types /\ Placed(w) /\ tx \in [Workers -> TxState] /\ tx[w] \in TxState
      /\ clock \in Nat
  BY DEF TInv, Types
<1>4. \A x \in DOMAIN View(w) : x \in Urls /\ View(w)[x] \in Row
  BY <1>3, ViewFacts
<1>5. /\ v \in DOMAIN View(w) /\ tx[w].winner \in DOMAIN View(w)
      /\ todo \subseteq DOMAIN View(w) /\ todo \subseteq Urls
  BY <1>1, <1>2, <1>3, <1>4 DEF Placed, Merging
<1>6. label \in {"reparent", "commit", "mark"} /\ label \in PCs
  BY LoopAtFacts
<1>7. tx' = [tx EXCEPT ![w] = s]
  BY <1>2, <1>3
<1>8. Write(w, v, row) \/ UNCHANGED local
  BY <1>2
<1>9. /\ row \in Row /\ row.canonical # NULL
      /\ row.firstSeen = View(w)[v].firstSeen
      /\ ~row.active => row.lastSeen < clock - StaleAfter
  BY <1>4, <1>5, PointedRow, ViewInactiveOnlyIfStale DEF Newest
<1> HIDE DEF todo, label, row
<1>10. s \in TxState
  BY <1>3, <1>5, <1>6, SetField
<1>11. /\ s.pc = label /\ s.winner = tx[w].winner /\ s.losers = tx[w].losers
       /\ s.current = tx[w].current /\ s.todo = todo
       /\ s.url = tx[w].url /\ s.listing = tx[w].listing /\ s.start = tx[w].start
       /\ s.inserted <=> tx[w].inserted
  BY <1>3 DEF TxState
<1> HIDE DEF s
<1>12. /\ tx' \in [Workers -> TxState] /\ tx'[w] = s
       /\ \A x \in Workers \ {w} : tx'[x] = tx[x]
  BY <1>7, <1>10, MovesTo
<1>13. /\ local' \in [Workers -> Tables]
       /\ DOMAIN local[w] \subseteq DOMAIN local'[w]
       /\ \A x \in Workers \ {w} :
            local'[x] = local[x] /\ DOMAIN local'[w] \cap DOMAIN local[x] = {}
       /\ \A x \in DOMAIN local'[w] : VersionOf(w, x)'
       /\ DOMAIN View(w)' = DOMAIN View(w)
  <2>1. CASE UNCHANGED local
    <3>1. /\ \A x \in DOMAIN local'[w] : VersionOf(w, x)'
          /\ View(w)' = View(w)
          /\ \A x \in Workers \ {w} : DOMAIN local'[w] \cap DOMAIN local[x] = {}
      BY <1>1, <1>11, <1>12, <2>1, VersionsStay
    <3> QED
      BY <1>3, <2>1, <3>1 DEF Types
  <2>2. CASE Write(w, v, row)
    <3>1. /\ \A x \in DOMAIN local'[w] : VersionOf(w, x)'
          /\ DOMAIN View(w)' = DOMAIN View(w)
      BY <1>1, <1>2, <1>5, <1>9, <1>11, <1>12, <2>2, NewVersionKeeps
    <3>2. /\ local' \in [Workers -> Tables]
          /\ DOMAIN local'[w] = DOMAIN local[w] \cup {v}
          /\ \A x \in Workers \ {w} :
               local'[x] = local[x] /\ DOMAIN local'[w] \cap DOMAIN local[x] = {}
      BY <1>2, <1>4, <1>5, <1>9, <2>2, WriteKeepsTables
    <3> QED
      BY <3>1, <3>2
  <2> QED
    BY <1>8, <2>1, <2>2
<1>14. OnlyMoves(w)
  BY <1>1, <1>3, <1>12, <1>13 DEF Types, OnlyMoves
<1>15. Placed(w)'
  BY <1>1, <1>3, <1>5, <1>6, <1>11, <1>12, <1>13 DEF Placed, Active, Written, Merging
<1> QED
  BY <1>1, <1>13, <1>14, <1>15, OwnStepKeepsTInv

\* The transaction commits; its posting is counted new at most once, when its
\* row appears.
LEMMA CommitKeepsTInv ==
    ASSUME TInv, NEW w \in Workers, Commit(w) \/ CommitUnacknowledged(w)
    PROVE  TInv'
<1>1. Publish(w) /\ \/ UNCHANGED countedNew
                    \/ /\ CountsAsNew(w)
                       /\ countedNew' = [countedNew EXCEPT ![tx[w].url] = @ + 1]
  BY DEF Commit, CommitUnacknowledged
<1>2. /\ tx[w].pc = "commit" /\ db' = View(w) /\ UNCHANGED clock
      /\ local' = [local EXCEPT ![w] = NoRows]
      /\ tx' = [tx EXCEPT ![w] = IdleTx]
      /\ handled' = [handled EXCEPT ![w] = @ + 1]
  BY <1>1 DEF Publish
<1>3. /\ Types /\ Placed(w) /\ clock \in Nat /\ NewOnce
      /\ local \in [Workers -> Tables] /\ countedNew \in [Urls -> Nat]
      /\ handled \in [Workers -> 0..MaxItems] /\ handled[w] < MaxItems
      /\ tx[w].url \in Urls
  BY <1>2 DEF TInv, Types, Placed, Active
<1>4. handled' \in [Workers -> 0..MaxItems]
  BY <1>2, <1>3, MaxItemsAssumption
<1>5. /\ tx' \in [Workers -> TxState] /\ tx'[w] = IdleTx
      /\ \A x \in Workers \ {w} : tx'[x] = tx[x]
  BY <1>2, IdleFacts, MovesTo
<1>6. OnlyMoves(w) /\ local'[w] = NoRows
  BY <1>2, <1>3, <1>4, <1>5, SmallerTables DEF OnlyMoves
<1>7. DOMAIN db' = DOMAIN local[w] \cup DOMAIN db
  BY <1>2, <1>3, ViewFacts
<1>9. unsettled' \subseteq DOMAIN db'
  <2>1. unsettled' = Unsettling(w) /\ unsettled \subseteq DOMAIN db
    BY <1>1, <1>3 DEF Publish, Types
  <2> QED
    BY <1>7, <2>1 DEF Unsettling, Redated
<1>8. countedNew' \in [Urls -> Nat] /\ NewOnce'
  <2>1. CASE UNCHANGED countedNew
    BY <1>3, <1>7, <2>1 DEF NewOnce
  <2>2. CASE CountsAsNew(w) /\ countedNew' = [countedNew EXCEPT ![tx[w].url] = @ + 1]
    <3>1. tx[w].url \in DOMAIN local[w] \ DOMAIN db
      BY <1>2, <1>3, <2>2 DEF CountsAsNew, Placed, Written
    <3>2. countedNew[tx[w].url] = 0
      BY <1>3, <3>1 DEF NewOnce
    <3>3. /\ countedNew' \in [Urls -> Nat] /\ countedNew'[tx[w].url] = 1
          /\ \A u \in Urls : u # tx[w].url => countedNew'[u] = countedNew[u]
      BY <1>3, <2>2, <3>2
    <3> QED
      BY <1>3, <1>7, <3>1, <3>3 DEF NewOnce
  <2> QED
    BY <1>1, <2>1, <2>2
<1> QED
  BY <1>2, <1>5, <1>6, <1>8, <1>9, IdleFacts, PublishKeepsTInv

\* The sweep finds the rows that look stale.
LEMMA SweepScanKeepsTInv ==
    ASSUME TInv, NEW w \in Workers, SweepScan(w)
    PROVE  TInv'
<1> DEFINE todo == Stale(db, clock + 1)
           s == [IdleTx EXCEPT !.pc = "sweep", !.start = clock + 1, !.todo = todo]
<1>1. /\ tx[w].pc = "idle" /\ clock' = clock + 1
      /\ UNCHANGED <<db, local, handled, countedNew, unsettled>>
      /\ tx' = [tx EXCEPT ![w] = s]
  BY DEF SweepScan
<1>2. /\ Types /\ clock \in Nat /\ local[w] = NoRows /\ DOMAIN local[w] = {}
      /\ db \in Tables
  BY <1>1, SmallerTables DEF TInv, Types, Placed
<1>3. todo \subseteq DOMAIN db /\ todo \subseteq Urls
  BY <1>2 DEF Stale, Tables
<1> HIDE DEF todo
<1>4. s \in TxState
  <2>1. "sweep" \in PCs /\ clock + 1 \in Nat
    BY <1>2 DEF PCs
  <2> QED
    BY <1>3, <2>1, IdleFacts, SetField
<1>5. s.pc = "sweep" /\ s.start = clock + 1 /\ s.todo = todo /\ ~s.inserted
  BY IdleFacts DEF TxState
<1> HIDE DEF s
<1>6. /\ tx' \in [Workers -> TxState] /\ tx'[w] = s
      /\ \A x \in Workers \ {w} : tx'[x] = tx[x]
  BY <1>1, <1>4, MovesTo
<1>7. OnlyMoves(w)
  BY <1>1, <1>2, <1>6 DEF Types, OnlyMoves
<1>8. Placed(w)'
  BY <1>1, <1>2, <1>3, <1>5, <1>6 DEF Placed, Active, Written, Merging
<1> QED
  BY <1>1, <1>2, <1>7, <1>8, OwnStepKeepsTInv

\* One of them is turned off, if it is still stale when its turn comes.
LEMMA SweepRowKeepsTInv ==
    ASSUME TInv, NEW w \in Workers, SweepRow(w)
    PROVE  TInv'
<1>1. tx[w].pc = "sweep" /\ UNCHANGED <<db, clock, handled, countedNew, unsettled>>
  BY DEF SweepRow
<1>2. PICK v \in tx[w].todo \ LockedByOthers(w) :
        /\ IF StillStale(w, v)
           THEN Write(w, v, [Newest(w, v) EXCEPT !.active = FALSE])
           ELSE UNCHANGED local
        /\ tx' = [tx EXCEPT ![w].todo = @ \ {v}]
  BY DEF SweepRow
<1> DEFINE todo == tx[w].todo \ {v}
           row == [Newest(w, v) EXCEPT !.active = FALSE]
           s == [tx[w] EXCEPT !.todo = todo]
<1>3. /\ Types /\ Placed(w) /\ tx \in [Workers -> TxState] /\ tx[w] \in TxState
      /\ clock \in Nat /\ tx[w].start \in Nat /\ tx[w].start <= clock /\ db \in Tables
  BY DEF TInv, Types, TxState, Placed
<1>4. /\ v \in DOMAIN db /\ v \notin DOMAIN local[w]
      /\ todo \subseteq DOMAIN db \ DOMAIN local[w]
      /\ todo \subseteq Urls /\ v \notin todo
  BY <1>1, <1>2, <1>3 DEF Placed, TxState
<1>5. v \in DOMAIN View(w) /\ View(w)[v] = db[v] /\ db[v] \in Row /\ v \in Urls
  BY <1>3, <1>4, ViewFacts
<1>6. /\ row \in Row /\ row.canonical = db[v].canonical
      /\ row.firstSeen = db[v].firstSeen /\ row.lastSeen = db[v].lastSeen
      /\ row.posted = db[v].posted
  BY <1>5 DEF Newest, Row
<1>7. StillStale(w, v) => row.lastSeen < clock - StaleAfter
  <2>1. StillStale(w, v) => db[v].lastSeen < tx[w].start - StaleAfter
    BY DEF StillStale, Stale
  <2>2. db[v].lastSeen \in Nat /\ StaleAfter \in Nat
    BY <1>5, StaleAssumption DEF Row
  <2> QED
    BY <1>3, <1>6, <2>1, <2>2
<1>8. tx' = [tx EXCEPT ![w] = s]
  BY <1>2, <1>3
<1>9. (StillStale(w, v) /\ Write(w, v, row)) \/ UNCHANGED local
  BY <1>2
<1> HIDE DEF todo, row
<1>10. s \in TxState
  BY <1>3, <1>4, SetField
<1>11. /\ s.pc = "sweep" /\ s.todo = todo
       /\ s.url = tx[w].url /\ s.start = tx[w].start
       /\ s.inserted <=> tx[w].inserted
  BY <1>1, <1>3 DEF TxState
<1> HIDE DEF s
<1>12. /\ tx' \in [Workers -> TxState] /\ tx'[w] = s
       /\ \A x \in Workers \ {w} : tx'[x] = tx[x]
  BY <1>8, <1>10, MovesTo
<1>13. /\ local' \in [Workers -> Tables]
       /\ DOMAIN local'[w] \subseteq DOMAIN local[w] \cup {v}
       /\ \A x \in Workers \ {w} :
            local'[x] = local[x] /\ DOMAIN local'[w] \cap DOMAIN local[x] = {}
       /\ \A x \in DOMAIN local'[w] : VersionOf(w, x)'
  <2>1. CASE UNCHANGED local
    <3>1. /\ \A x \in DOMAIN local'[w] : VersionOf(w, x)'
          /\ \A x \in Workers \ {w} : DOMAIN local'[w] \cap DOMAIN local[x] = {}
      BY <1>1, <1>11, <1>12, <2>1, VersionsStay
    <3> QED
      BY <1>3, <2>1, <3>1 DEF Types
  <2>2. CASE StillStale(w, v) /\ Write(w, v, row)
    <3>1. \A x \in DOMAIN local'[w] : VersionOf(w, x)'
      BY <1>1, <1>2, <1>5, <1>6, <1>7, <1>11, <1>12, <2>2, NewVersionKeeps
    <3>2. /\ local' \in [Workers -> Tables]
          /\ DOMAIN local'[w] = DOMAIN local[w] \cup {v}
          /\ \A x \in Workers \ {w} :
               local'[x] = local[x] /\ DOMAIN local'[w] \cap DOMAIN local[x] = {}
      BY <1>2, <1>5, <1>6, <2>2, WriteKeepsTables
    <3> QED
      BY <3>1, <3>2
  <2> QED
    BY <1>9, <2>1, <2>2
<1>14. OnlyMoves(w)
  BY <1>1, <1>3, <1>12, <1>13 DEF Types, OnlyMoves
<1>15. Placed(w)'
  BY <1>1, <1>3, <1>4, <1>11, <1>12, <1>13 DEF Placed, Active, Written, Merging
<1> QED
  BY <1>1, <1>13, <1>14, <1>15, OwnStepKeepsTInv

\* A worker past its last step.
LEMMA DoneFacts ==
    LET s == [IdleTx EXCEPT !.pc = "done"]
    IN  s \in TxState /\ s.pc = "done" /\ s.start = 0 /\ ~s.inserted
<1>1. "done" \in PCs
  BY DEF PCs
<1>2. [IdleTx EXCEPT !.pc = "done"] \in TxState
  BY <1>1, IdleFacts, SetField
<1> QED
  BY <1>2, IdleFacts DEF TxState

\* The sweep commits.
LEMMA SweepCommitKeepsTInv ==
    ASSUME TInv, NEW w \in Workers, SweepCommit(w)
    PROVE  TInv'
<1> DEFINE s == [IdleTx EXCEPT !.pc = "done"]
<1>1. /\ tx[w].pc = "sweep" /\ db' = View(w) /\ UNCHANGED <<clock, handled, countedNew, unsettled>>
      /\ local' = [local EXCEPT ![w] = NoRows] /\ tx' = [tx EXCEPT ![w] = s]
  BY DEF SweepCommit
<1>2. /\ Types /\ Placed(w) /\ clock \in Nat /\ NewOnce
      /\ local \in [Workers -> Tables] /\ countedNew \in [Urls -> Nat]
  BY DEF TInv, Types
<1>3. s \in TxState /\ s.pc = "done" /\ s.start = 0 /\ ~s.inserted
  BY DoneFacts
<1> HIDE DEF s
<1>4. /\ tx' \in [Workers -> TxState] /\ tx'[w] = s
      /\ \A x \in Workers \ {w} : tx'[x] = tx[x]
  BY <1>1, <1>3, MovesTo
<1>5. OnlyMoves(w) /\ local'[w] = NoRows
  BY <1>1, <1>2, <1>4, SmallerTables DEF Types, OnlyMoves
<1>6. DOMAIN db' = DOMAIN local[w] \cup DOMAIN db
  BY <1>1, <1>2, ViewFacts
<1>7. /\ countedNew' \in [Urls -> Nat] /\ NewOnce'
      /\ unsettled' \subseteq DOMAIN db'
  BY <1>1, <1>2, <1>6 DEF NewOnce, Types
<1> QED
  BY <1>1, <1>3, <1>4, <1>5, <1>7, PublishKeepsTInv

\* A transaction is rolled back: its versions are gone.
LEMMA RollbackKeepsTInv ==
    ASSUME TInv, NEW w \in Workers, Rollback(w), Active(w)
    PROVE  TInv'
<1>1. /\ local' = [local EXCEPT ![w] = NoRows] /\ GiveUp(w)
      /\ UNCHANGED <<db, clock, countedNew, unsettled>>
  BY DEF Rollback
<1>2. /\ Types /\ Placed(w) /\ clock \in Nat /\ local \in [Workers -> Tables]
      /\ handled \in [Workers -> 0..MaxItems]
  BY DEF TInv, Types
<1>3. /\ tx' \in [Workers -> TxState]
      /\ tx'[w].pc \in {"idle", "done"} /\ tx'[w].start = 0 /\ ~tx'[w].inserted
      /\ \A x \in Workers \ {w} : tx'[x] = tx[x]
      /\ handled' \in [Workers -> 0..MaxItems]
      /\ \A x \in Workers \ {w} : handled'[x] = handled[x]
  <2>1. CASE tx[w].pc = "sweep"
    <3> DEFINE s == [IdleTx EXCEPT !.pc = "done"]
    <3>1. UNCHANGED handled /\ tx' = [tx EXCEPT ![w] = s]
      BY <1>1, <2>1 DEF GiveUp
    <3>2. s \in TxState /\ s.pc = "done" /\ s.start = 0 /\ ~s.inserted
      BY DoneFacts
    <3> HIDE DEF s
    <3> QED
      BY <1>2, <3>1, <3>2, MovesTo
  <2>2. CASE tx[w].pc # "sweep"
    <3>1. tx' = [tx EXCEPT ![w] = IdleTx] /\ handled' = [handled EXCEPT ![w] = @ + 1]
      BY <1>1, <2>2 DEF GiveUp
    <3>2. handled[w] < MaxItems
      BY <1>2, <2>2 DEF Placed
    <3>3. /\ handled' \in [Workers -> 0..MaxItems]
          /\ \A x \in Workers \ {w} : handled'[x] = handled[x]
      BY <1>2, <3>1, <3>2, MaxItemsAssumption
    <3>4. /\ tx' \in [Workers -> TxState] /\ tx'[w] = IdleTx
          /\ \A x \in Workers \ {w} : tx'[x] = tx[x]
      BY <3>1, IdleFacts, MovesTo
    <3> QED
      BY <3>3, <3>4, IdleFacts
  <2> QED
    BY <2>1, <2>2
<1>4. OnlyMoves(w) /\ local'[w] = NoRows /\ DOMAIN local'[w] = {}
  BY <1>1, <1>2, <1>3, SmallerTables DEF OnlyMoves
<1>5. Placed(w)'
  BY <1>1, <1>2, <1>3, <1>4 DEF Placed, Active, Written, Merging
<1> QED
  BY <1>1, <1>4, <1>5, OwnStepKeepsTInv

\* A worker that waits is in the middle of a transaction.
LEMMA BlockedIsActive ==
    ASSUME NEW w \in Workers, Blocked(w)
    PROVE  Active(w)
BY DEF Blocked, Wants, Active

\* Nothing is committed or under way at the start.
LEMMA InitTInv == Init => TInv
<1> SUFFICES ASSUME Init PROVE TInv
  OBVIOUS
<1>1. /\ NoRows \in Tables /\ DOMAIN NoRows = {} /\ IdleTx \in TxState
      /\ IdleTx.pc = "idle" /\ IdleTx.start = 0 /\ ~IdleTx.inserted
  BY SmallerTables, IdleFacts
<1>2. /\ db = NoRows /\ clock = 0 /\ tx = [w \in Workers |-> IdleTx]
      /\ local = [w \in Workers |-> NoRows] /\ handled = [w \in Workers |-> 0]
      /\ countedNew = [u \in Urls |-> 0] /\ unsettled = {}
  BY DEF Init
<1>3. Types
  BY <1>1, <1>2, MaxItemsAssumption DEF Types
<1>4. LocksExclude /\ InactiveOnlyIfStale /\ NewOnce
  BY <1>1, <1>2 DEF LocksExclude, InactiveOnlyIfStale, NewOnce
<1>5. \A w \in Workers : Placed(w) /\ \A v \in DOMAIN local[w] : VersionOf(w, v)
  BY <1>1, <1>2 DEF Placed, Active, Written, Merging
<1> QED
  BY <1>3, <1>4, <1>5 DEF TInv

\* A stutter.
LEMMA UnchangedKeepsTInv == TInv /\ UNCHANGED vars => TInv'
BY DEF TInv, vars, Types, LocksExclude, Placed, Active, Written, Merging, View, VersionOf,
       InactiveOnlyIfStale, NewOnce

\* Every step of every worker keeps the invariant.
LEMMA NextKeepsTInv == TInv /\ [Next]_vars => TInv'
<1> SUFFICES ASSUME TInv, [Next]_vars PROVE TInv'
  OBVIOUS
<1>1. ASSUME NEW w \in Workers, Step(w) PROVE TInv'
  BY <1>1, BeginKeepsTInv, UpsertStatementKeepsTInv, FindCandidatesKeepsTInv,
     MarkLoserKeepsTInv, ReparentScanKeepsTInv, ReparentRowKeepsTInv, CommitKeepsTInv,
     SweepScanKeepsTInv, SweepRowKeepsTInv, SweepCommitKeepsTInv DEF Step
<1>2. ASSUME NEW w \in Workers, Fail(w) \/ DeadlockVictim(w) PROVE TInv'
  <2>1. Rollback(w) /\ Active(w)
    BY <1>2, BlockedIsActive DEF Fail, DeadlockVictim, Active, Deadlocked
  <2> QED
    BY <2>1, RollbackKeepsTInv
<1> QED
  BY <1>1, <1>2, CommitKeepsTInv, UnchangedKeepsTInv DEF Next, Finished

\* TInv holds in every state any runs can reach.
LEMMA TInvAlways == Spec => []TInv
BY InitTInv, NextKeepsTInv, PTL DEF Spec

----------------------------------------------------------------------------
(* The theorems that hold whatever the postings say *)

\* Every variable of every worker holds what UpsertJob and the sweep can put
\* there.
THEOREM TxTypeOK == Spec => []TypeOK
<1>1. TInv => TypeOK
  <2> SUFFICES ASSUME TInv PROVE TypeOK
    OBVIOUS
  <2>1. Types
    BY DEF TInv
  <2>2. \A w \in Workers : tx[w] \in TxState /\ local[w] \in Tables
    BY <2>1 DEF Types
  <2> QED
    BY <2>1, <2>2, TablesAreTables DEF Types, TxState, TypeOK
<1> QED
  BY <1>1, TInvAlways, PTL

\* No sweep turns off a row that another run has refreshed: a row is inactive
\* only if no scrape came across it for longer than the threshold.
THEOREM TxSweepsStaleOnly == Spec => []InactiveOnlyIfStale
<1>1. TInv => InactiveOnlyIfStale
  BY DEF TInv
<1> QED
  BY <1>1, TInvAlways, PTL

\* No posting is counted new twice, or without its row being committed.
THEOREM TxCountsNewOnce == Spec => []NewOnce
<1>1. TInv => NewOnce
  BY DEF TInv
<1> QED
  BY <1>1, TInvAlways, PTL

\* No commit, of whichever run, makes a duplicate canonical again.
THEOREM TxKeepsDecisions == Spec => DecisionsAreKept
<1>1. ASSUME TInv, [Next]_vars, NEW u \in DOMAIN db, db[u].canonical # NULL
      PROVE  db'[u].canonical # NULL
  <2>1. CASE UNCHANGED db
    BY <1>1, <2>1
  <2>2. ASSUME NEW w \in Workers, db' = View(w)
        PROVE  db'[u].canonical # NULL
    <3>1. /\ \A v \in DOMAIN local[w] : View(w)[v] = local[w][v]
          /\ \A v \in DOMAIN db \ DOMAIN local[w] : View(w)[v] = db[v]
      BY <1>1, ViewFacts DEF TInv
    <3> QED
      BY <1>1, <2>2, <3>1 DEF TInv, VersionOf
  <2>3. UNCHANGED db \/ \E w \in Workers : db' = View(w)
    BY <1>1
       DEF Next, Step, Begin, UpsertStatement, WriteListing, FindCandidates, MarkLoser,
           ReparentScan, ReparentRow, Commit, CommitUnacknowledged, Publish, SweepScan,
           SweepRow, SweepCommit, Fail, DeadlockVictim, Rollback, Finished, vars
  <2> QED
    BY <2>1, <2>2, <2>3
<1>2. TInv /\ [Next]_vars =>
        [\A u \in DOMAIN db : db[u].canonical # NULL => db'[u].canonical # NULL]_vars
  BY <1>1
<1> QED
  BY <1>2, TInvAlways, PTL DEF Spec, DecisionsAreKept

----------------------------------------------------------------------------
(* Order: decisions on rows read without a lock *)

\* What postedBefore looks at.
SameKey(a, b) == a.posted = b.posted /\ a.firstSeen = b.firstSeen

\* Rows with the same keys are ordered alike.
LEMMA SameKeysSameOrder ==
    ASSUME NEW a, NEW b, NEW c, NEW d, SameKey(a, c), SameKey(b, d)
    PROVE  PostedBefore(a, b) <=> PostedBefore(c, d)
BY DEF SameKey, PostedBefore

\* A transaction's version of a committed row is as old as the row, and
\* preferred as the row is unless it has another date.
LEMMA ViewKeys ==
    ASSUME TInv, NEW w \in Workers, NEW v \in DOMAIN db
    PROVE  /\ View(w)[v].firstSeen = db[v].firstSeen
           /\ v \notin Redated(w) => SameKey(View(w)[v], db[v])
<1>1. /\ v \in DOMAIN local[w] => View(w)[v] = local[w][v] /\ VersionOf(w, v)
      /\ v \notin DOMAIN local[w] => View(w)[v] = db[v]
  BY ViewFacts DEF TInv
<1> QED
  BY <1>1 DEF SameKey, VersionOf, Redated

\* The rows that are unsettled after a commit are those with more than one
\* date and those moved away from one.
LEMMA UnsettlingIs ==
    ASSUME NEW w \in Workers
    PROVE  /\ unsettled \subseteq Dated(w) /\ Redated(w) \subseteq Dated(w)
           /\ Dated(w) \subseteq Unsettling(w)
           /\ \A v : v \in Unsettling(w) <=>
                \/ v \in Dated(w)
                \/ /\ v \in DOMAIN db /\ db[v].canonical \in Dated(w)
                   /\ View(w)[v].canonical # db[v].canonical
BY DEF Unsettling, Dated

\* A table ordered but for some rows is ordered but for more.
LEMMA OrderedButForMore ==
    ASSUME NEW t, NEW D, NEW E, Ordered(t, D), D \subseteq E
    PROVE  Ordered(t, E)
BY DEF Ordered

\* The rows a transaction has moved now point at its winner.
LEMMA MovedToWinner ==
    ASSUME TInv, OInv, NEW w \in Workers, NEW v \in DOMAIN db,
           db[v].canonical # NULL, View(w)[v].canonical # db[v].canonical
    PROVE  /\ v \in DOMAIN local[w]
           /\ View(w)[v].canonical = tx[w].winner /\ tx[w].winner # NULL
<1>1. /\ v \in DOMAIN local[w] /\ View(w)[v] = local[w][v]
      /\ VersionOf(w, v) /\ Pointers(w)
  BY ViewFacts DEF TInv, OInv
<1> QED
  BY <1>1 DEF VersionOf, Pointers

\* A step that commits nothing changes no order for the others.
LEMMA OwnStepKeepsOInv ==
    ASSUME TInv, OInv, NEW w \in Workers, OnlyMoves(w), UNCHANGED <<db, unsettled>>,
           Active(w)' => \/ Active(w) /\ tx'[w].start = tx[w].start
                         \/ tx'[w].start = clock + 1 /\ clock' = clock + 1,
           Ordered(View(w)', Unsettling(w)'), Pointers(w)', DecisionHolds(w)'
    PROVE  OInv'
<1>1. \A x \in Workers \ {w} :
        /\ tx'[x] = tx[x] /\ local'[x] = local[x] /\ View(x)' = View(x)
        /\ Redated(x)' = Redated(x)
  BY DEF OnlyMoves, View, Redated
<1>2. TimesDiffer'
  <2>1. /\ clock \in Nat /\ clock' \in Nat /\ clock <= clock'
        /\ \A x \in Workers : tx[x].start \in Nat /\ tx[x].start <= clock
        /\ \A u \in DOMAIN db : db[u].firstSeen \in Nat /\ db[u].firstSeen <= clock
    BY DEF TInv, Types, TxState, Placed, OnlyMoves, OInv, TimesDiffer, Tables, Row
  <2>2. \A x \in Workers : x # w => (Active(x)' <=> Active(x))
    BY <1>1 DEF Active
  <2>3. ASSUME NEW x \in Workers, NEW y \in Workers, x # y, Active(x)', Active(y)'
        PROVE  tx'[x].start # tx'[y].start
    <3>1. CASE x # w /\ y # w
      BY <1>1, <2>2, <2>3, <3>1 DEF OInv, TimesDiffer
    <3>2. CASE x = w
      BY <1>1, <2>1, <2>2, <2>3, <3>2 DEF OInv, TimesDiffer
    <3>3. CASE y = w
      BY <1>1, <2>1, <2>2, <2>3, <3>3 DEF OInv, TimesDiffer
    <3> QED
      BY <3>1, <3>2, <3>3
  <2>4. ASSUME NEW u \in DOMAIN db, NEW x \in Workers, Active(x)'
        PROVE  db[u].firstSeen # tx'[x].start
    <3>1. CASE x = w
      BY <2>1, <2>4, <3>1 DEF OInv, TimesDiffer
    <3>2. CASE x # w
      BY <1>1, <2>2, <2>4, <3>2 DEF OInv, TimesDiffer
    <3> QED
      BY <3>1, <3>2
  <2>5. \A u \in DOMAIN db : db[u].firstSeen <= clock'
    BY <2>1
  <2>6. \A u, v \in DOMAIN db : u # v => db[u].firstSeen # db[v].firstSeen
    BY DEF OInv, TimesDiffer
  <2> QED
    BY <2>3, <2>4, <2>5, <2>6 DEF TimesDiffer
<1>4. ASSUME NEW x \in Workers
      PROVE  Ordered(View(x)', Unsettling(x)') /\ Pointers(x)' /\ DecisionHolds(x)'
  <2>1. CASE x # w
    <3>1. /\ tx'[x] = tx[x] /\ local'[x] = local[x] /\ View(x)' = View(x)
          /\ Dated(x)' = Dated(x)
      BY <1>1, <2>1 DEF Dated
    <3>2. Unsettling(x)' = Unsettling(x)
      BY <1>1, <2>1 DEF Unsettling
    <3>3. Pointers(x)' /\ DecisionHolds(x)'
      BY <3>1 DEF OInv, Pointers, DecisionHolds, NotPreferred, Merging
    <3> QED
      BY <3>1, <3>2, <3>3 DEF OInv
  <2> QED
    BY <2>1
<1>5. Ordered(db, unsettled)'
  BY DEF OInv, Ordered
<1> QED
  BY <1>2, <1>4, <1>5 DEF OInv

\* Once w has committed, what another transaction has or will have unsettled
\* includes what it had and what w has.
LEMMA PublishUnsettles ==
    ASSUME TInv, OInv, NEW w \in Workers, db' = View(w), unsettled' = Unsettling(w),
           NEW x \in Workers \ {w}, local'[x] = local[x]
    PROVE  /\ Dated(x) \subseteq Dated(x)'
           /\ Unsettling(w) \subseteq Dated(x)' /\ Dated(x)' \subseteq Unsettling(x)'
           /\ Unsettling(x) \subseteq Unsettling(x)'
<1>1. /\ DOMAIN View(w) = DOMAIN local[w] \cup DOMAIN db
      /\ \A v \in DOMAIN db \ DOMAIN local[w] : View(w)[v] = db[v]
      /\ DOMAIN local[x] \cap DOMAIN local[w] = {}
  BY ViewFacts DEF TInv, LocksExclude
<1>2. \A v \in DOMAIN local[x] :
        /\ v \in DOMAIN db' <=> v \in DOMAIN db
        /\ v \in DOMAIN db => db'[v] = db[v]
  BY <1>1
<1>3. Redated(x)' = Redated(x)
  BY <1>2 DEF Redated
<1>4. /\ Dated(x)' = Unsettling(w) \cup Redated(x)
      /\ unsettled \subseteq Unsettling(w)
  BY <1>3, UnsettlingIs DEF Dated
<1>5. Dated(x) \subseteq Dated(x)'
  BY <1>4 DEF Dated
<1>6. Dated(x)' \subseteq Unsettling(x)'
  BY DEF Dated, Unsettling
<1>7. ASSUME NEW v \in Unsettling(x), v \notin Dated(x)
      PROVE  v \in Unsettling(x)'
  <2>1. /\ v \in DOMAIN db /\ db[v].canonical \in Dated(x)
        /\ View(x)[v].canonical # db[v].canonical
    BY <1>7, UnsettlingIs
  <2>2. v \in DOMAIN local[x]
    BY <2>1, ViewFacts DEF TInv
  <2>3. View(x)'[v] = View(x)[v] /\ v \in DOMAIN db' /\ db'[v] = db[v]
    BY <1>2, <2>1, <2>2 DEF View
  <2>4. db'[v].canonical \in Dated(x)' /\ View(x)'[v].canonical # db'[v].canonical
    BY <1>5, <2>1, <2>3
  <2> QED
    BY <2>3, <2>4 DEF Unsettling, Dated
<1> QED
  BY <1>4, <1>5, <1>6, <1>7

\* A commit changes the order of no two settled rows for the others.
LEMMA PublishKeepsOInv ==
    ASSUME TInv, OInv, NEW w \in Workers, OnlyMoves(w), db' = View(w), local'[w] = NoRows,
           unsettled' = Unsettling(w), UNCHANGED clock, tx'[w].pc \in {"idle", "done"}
    PROVE  OInv'
<1>1. /\ DOMAIN View(w) = DOMAIN local[w] \cup DOMAIN db
      /\ \A v \in DOMAIN local[w] : View(w)[v] = local[w][v]
      /\ \A v \in DOMAIN db \ DOMAIN local[w] : View(w)[v] = db[v]
      /\ DOMAIN NoRows = {}
  BY ViewFacts, SmallerTables DEF TInv
<1>2. \A x \in Workers \ {w} : tx'[x] = tx[x] /\ local'[x] = local[x]
  BY DEF OnlyMoves
<1>3. ~Active(w)' /\ \A x \in Workers : x # w => (Active(x)' <=> Active(x))
  BY <1>2 DEF Active
<1>4. \A v \in DOMAIN db' \ DOMAIN db :
        /\ db'[v].firstSeen = tx[w].start /\ v = tx[w].url
        /\ Active(w)
  BY <1>1 DEF TInv, VersionOf, Placed, Written, Active
<1>5. \A v \in DOMAIN db : v \in DOMAIN db' /\ db'[v].firstSeen = db[v].firstSeen
  BY <1>1, ViewKeys
<1>6. TimesDiffer'
  <2>1. /\ clock \in Nat /\ \A x \in Workers : tx[x].start \in Nat /\ tx[x].start <= clock
    BY DEF TInv, Types, TxState, Placed
  <2>2. \A x, y \in Workers :
          x # y /\ Active(x)' /\ Active(y)' => tx'[x].start # tx'[y].start
    BY <1>2, <1>3 DEF OInv, TimesDiffer
  <2>3. ASSUME NEW u \in DOMAIN db'
        PROVE  /\ db'[u].firstSeen <= clock
               /\ \A x \in Workers : Active(x)' => db'[u].firstSeen # tx'[x].start
               /\ \A v \in DOMAIN db' : u # v => db'[u].firstSeen # db'[v].firstSeen
    <3>1. CASE u \in DOMAIN db
      BY <1>2, <1>3, <1>4, <1>5, <3>1 DEF OInv, TimesDiffer
    <3>2. CASE u \notin DOMAIN db
      BY <1>2, <1>3, <1>4, <1>5, <2>1, <3>2 DEF OInv, TimesDiffer
    <3> QED
      BY <3>1, <3>2
  <2> QED
    BY <2>2, <2>3 DEF TimesDiffer
<1>7. Redated(w) \subseteq Unsettling(w) /\ unsettled \subseteq Unsettling(w)
  BY UnsettlingIs
<1>8. /\ Ordered(db', unsettled')
      /\ Ordered(View(w)', Unsettling(w)') /\ Pointers(w)' /\ DecisionHolds(w)'
  <2>1. View(w)' = db'
    <3>1. db' \in Tables
      BY ViewFacts DEF TInv
    <3> QED
      BY <1>1, <3>1 DEF View, Tables
  <2>2. Ordered(db', unsettled')
    BY DEF OInv
  <2>3. unsettled' \subseteq Unsettling(w)'
    BY DEF Unsettling
  <2>4. Ordered(View(w)', Unsettling(w)')
    BY <2>1, <2>2, <2>3, OrderedButForMore
  <2>5. Pointers(w)' /\ DecisionHolds(w)'
    BY <1>1 DEF Pointers, DecisionHolds, Merging
  <2> QED
    BY <2>2, <2>4, <2>5
<1>9. ASSUME NEW x \in Workers \ {w}
      PROVE  Ordered(View(x)', Unsettling(x)') /\ Pointers(x)' /\ DecisionHolds(x)'
  <2>0. /\ DOMAIN View(x) = DOMAIN local[x] \cup DOMAIN db
        /\ \A v \in DOMAIN local[x] : View(x)[v] = local[x][v]
        /\ \A v \in DOMAIN db \ DOMAIN local[x] : View(x)[v] = db[v]
        /\ DOMAIN local[x] \cap DOMAIN local[w] = {}
    BY ViewFacts DEF TInv, LocksExclude
  <2> DEFINE after == View(x)'
             D == Dated(x)'
             E == Unsettling(x)'
  <2>1. /\ DOMAIN after = DOMAIN local[x] \cup DOMAIN View(w)
        /\ \A v \in DOMAIN local[x] : after[v] = local[x][v]
        /\ \A v \in DOMAIN View(w) \ DOMAIN local[x] : after[v] = View(w)[v]
    BY <1>2 DEF View
  <2>2. /\ Dated(x) \subseteq D /\ Unsettling(w) \subseteq D /\ D \subseteq E
        /\ Unsettling(x) \subseteq E
    BY <1>2, PublishUnsettles
  <2> HIDE DEF after, D, E
  <2>3. \A v \in DOMAIN View(x) :
          v \in DOMAIN after /\ (v \notin D => SameKey(after[v], View(x)[v]))
    <3>1. \A v \in DOMAIN db : v \notin D => SameKey(View(w)[v], db[v])
      BY <1>7, <2>2, ViewKeys
    <3> QED
      BY <1>1, <2>0, <2>1, <3>1 DEF SameKey
  <2>4. \A v \in DOMAIN View(w) :
          v \in DOMAIN after /\ (v \notin D => SameKey(after[v], View(w)[v]))
    <3>1. \A v \in DOMAIN db : v \notin D => SameKey(View(x)[v], db[v])
      BY <2>2, ViewKeys, UnsettlingIs
    <3> QED
      BY <1>1, <2>0, <2>1, <3>1 DEF SameKey
  <2>5. /\ Ordered(View(x), Unsettling(x)) /\ Ordered(View(w), Unsettling(w))
        /\ DecisionHolds(x) /\ Pointers(x) /\ Placed(x)
    BY DEF OInv, TInv
  <2>6. Ordered(after, E)
    <3>1. ASSUME NEW u \in DOMAIN after, after[u].canonical # NULL
          PROVE  /\ after[u].canonical \in DOMAIN after
                 /\ u \notin E /\ after[u].canonical \notin E =>
                      /\ after[u].canonical # u
                      /\ ~PostedBefore(after[u], after[after[u].canonical])
      <4> DEFINE c == after[u].canonical
      <4>1. CASE u \in DOMAIN local[x]
        <5>1. u \in DOMAIN View(x) /\ after[u] = View(x)[u]
          BY <2>0, <2>1, <4>1
        <5>2. c \in DOMAIN View(x)
          BY <2>5, <3>1, <5>1 DEF Ordered
        <5>3. ASSUME u \notin E, c \notin E
              PROVE  c # u /\ ~PostedBefore(after[u], after[c])
          <6>1. c # u /\ ~PostedBefore(View(x)[u], View(x)[c])
            BY <2>2, <2>5, <3>1, <5>1, <5>3 DEF Ordered
          <6>2. SameKey(after[u], View(x)[u]) /\ SameKey(after[c], View(x)[c])
            BY <2>2, <2>3, <5>1, <5>2, <5>3
          <6> HIDE DEF c
          <6> QED
            BY <6>1, <6>2, SameKeysSameOrder
        <5> QED
          BY <2>3, <5>2, <5>3
      <4>2. CASE u \notin DOMAIN local[x]
        <5>1. u \in DOMAIN View(w) /\ after[u] = View(w)[u]
          BY <2>1, <4>2
        <5>2. c \in DOMAIN View(w)
          BY <2>5, <3>1, <5>1 DEF Ordered
        <5>3. ASSUME u \notin E, c \notin E
              PROVE  c # u /\ ~PostedBefore(after[u], after[c])
          <6>1. c # u /\ ~PostedBefore(View(w)[u], View(w)[c])
            BY <2>2, <2>5, <3>1, <5>1, <5>3 DEF Ordered
          <6>2. SameKey(after[u], View(w)[u]) /\ SameKey(after[c], View(w)[c])
            BY <2>2, <2>4, <5>1, <5>2, <5>3
          <6> HIDE DEF c
          <6> QED
            BY <6>1, <6>2, SameKeysSameOrder
        <5> QED
          BY <2>4, <5>2, <5>3
      <4> QED
        BY <4>1, <4>2
    <3> QED
      BY <3>1 DEF Ordered
  <2>7. ASSUME NEW v \in DOMAIN View(x), tx[x].winner \in DOMAIN View(x), NotPreferred(x, v)
        PROVE  NotPreferred(x, v)'
    <3> DEFINE win == tx[x].winner
    <3>1. v # win
      BY <2>7 DEF NotPreferred
    <3>2. ASSUME v \notin D, win \notin D
          PROVE  ~PostedBefore(after[v], after[win])
      <4>1. ~PostedBefore(View(x)[v], View(x)[win])
        BY <2>2, <2>7, <3>2 DEF NotPreferred
      <4>2. SameKey(after[v], View(x)[v]) /\ SameKey(after[win], View(x)[win])
        BY <2>3, <2>7, <3>2
      <4> HIDE DEF win
      <4> QED
        BY <4>1, <4>2, SameKeysSameOrder
    <3> QED
      BY <1>2, <3>1, <3>2 DEF NotPreferred, after, D
  <2>8. DecisionHolds(x)'
    <3>1. Merging(x) =>
            /\ tx[x].winner \in DOMAIN View(x)
            /\ \A v \in DOMAIN tx[x].losers : v \in DOMAIN View(x)
      BY <2>5 DEF Placed
    <3>2. tx[x].pc \in {"scan", "reparent"} =>
            tx[x].current \in DOMAIN View(x) /\ tx[x].winner \in DOMAIN View(x)
      BY <2>5 DEF Placed, Merging
    <3>3. Merging(x) => \A v \in DOMAIN tx[x].losers : NotPreferred(x, v)'
      BY <2>5, <2>7, <3>1 DEF DecisionHolds
    <3>4. tx[x].pc \in {"scan", "reparent"} =>
            \A v \in {tx[x].current} : NotPreferred(x, v)'
      BY <2>5, <2>7, <3>2 DEF DecisionHolds
    <3> QED
      BY <1>2, <3>3, <3>4 DEF DecisionHolds, Merging, NotPreferred
  <2>9. Pointers(x)'
    <3>1. \A v \in DOMAIN local[x] :
            /\ v \in DOMAIN db' <=> v \in DOMAIN db
            /\ v \in DOMAIN db => db'[v] = db[v]
      BY <1>1, <2>0
    <3> QED
      BY <1>2, <2>5, <3>1 DEF Pointers
  <2> QED
    BY <2>6, <2>8, <2>9 DEF after, E
<1> QED
  BY <1>6, <1>8, <1>9 DEF OInv

\* What a transaction sees once it has written a row.
LEMMA ViewAfterWrite ==
    ASSUME TInv, NEW w \in Workers, NEW v \in Urls, NEW row \in Row,
           Write(w, v, row), v \notin LockedByOthers(w), UNCHANGED db
    PROVE  /\ DOMAIN View(w)' = DOMAIN View(w) \cup {v}
           /\ View(w)'[v] = row
           /\ \A x \in DOMAIN View(w) : x # v => View(w)'[x] = View(w)[x]
<1>1. /\ DOMAIN local'[w] = DOMAIN local[w] \cup {v}
      /\ local'[w][v] = row
      /\ \A x \in DOMAIN local[w] : x # v => local'[w][x] = local[w][x]
  BY WriteKeepsTables
<1> QED
  BY <1>1 DEF View

\* A row that is written, and is pointed, if anywhere new, at a row it is not
\* preferred to, leaves the table ordered but for the rows that are unsettled
\* then.
LEMMA RepointKeepsOrder ==
    ASSUME NEW t, NEW s, NEW D, NEW E, Ordered(t, D), D \subseteq E,
           NEW v, DOMAIN s = DOMAIN t \cup {v},
           \A x \in DOMAIN t : x # v => s[x] = t[x],
           v \in DOMAIN t /\ v \notin E => SameKey(s[v], t[v]),
           \/ s[v].canonical = NULL
           \/ v \in DOMAIN t /\ s[v].canonical = t[v].canonical
           \/ /\ v \in DOMAIN t /\ s[v].canonical \in DOMAIN t
              /\ v \notin E /\ s[v].canonical \notin E =>
                   s[v].canonical # v /\ ~PostedBefore(t[v], t[s[v].canonical])
    PROVE  Ordered(s, E)
<1>1. \A x \in DOMAIN t : x \notin E => SameKey(s[x], t[x])
  BY DEF SameKey
<1>2. ASSUME NEW x \in DOMAIN s, s[x].canonical # NULL
      PROVE  /\ s[x].canonical \in DOMAIN s
             /\ x \notin E /\ s[x].canonical \notin E =>
                  /\ s[x].canonical # x
                  /\ ~PostedBefore(s[x], s[s[x].canonical])
  <2> DEFINE c == s[x].canonical
  <2>1. /\ x \in DOMAIN t /\ c \in DOMAIN t
        /\ x \notin E /\ c \notin E => c # x /\ ~PostedBefore(t[x], t[c])
    <3>1. CASE x = v
      BY <1>2, <3>1 DEF Ordered
    <3>2. CASE x # v
      BY <1>2, <3>2 DEF Ordered
    <3> QED
      BY <3>1, <3>2
  <2> HIDE DEF c
  <2>2. x \notin E /\ c \notin E => SameKey(s[x], t[x]) /\ SameKey(s[c], t[c])
    BY <1>1, <2>1
  <2>3. x \notin E /\ c \notin E => c # x /\ ~PostedBefore(s[x], s[c])
    BY <2>1, <2>2, SameKeysSameOrder
  <2> QED
    BY <2>1, <2>3 DEF c
<1> QED
  BY <1>2 DEF Ordered

\* A transaction that has written nothing sees the committed table.
LEMMA FreshView ==
    ASSUME Types, NEW w \in Workers, DOMAIN local[w] = {}
    PROVE  View(w) = db
<1>1. db \in Tables
  BY DEF Types
<1> QED
  BY <1>1 DEF View, Tables

\* A transaction begins, at a time nothing else has.
LEMMA BeginKeepsOInv ==
    ASSUME TInv, TInv', OInv, NEW w \in Workers, Begin(w) \/ SweepScan(w)
    PROVE  OInv'
<1>1. /\ tx[w].pc = "idle" /\ clock' = clock + 1
      /\ UNCHANGED <<db, local, handled, unsettled>>
  BY DEF Begin, SweepScan
<1>2. /\ DOMAIN local[w] = {} /\ clock \in Nat
  BY <1>1, SmallerTables DEF TInv, Types, Placed
<1>3. \E s : /\ tx' = [tx EXCEPT ![w] = s]
             /\ s.start = clock + 1 /\ s.pc \in {"upsert", "sweep"}
             /\ s.winner = NULL /\ (s.pc = "sweep" => s.url = NULL)
  <2>1. CASE Begin(w)
    <3>1. PICK u \in Urls : \E l \in Serves[u] :
            tx' = [tx EXCEPT ![w] = [IdleTx EXCEPT !.pc = "upsert", !.url = u,
                                          !.listing = l, !.start = clock + 1]]
      BY <2>1 DEF Begin
    <3>2. PICK l \in Serves[u] :
            tx' = [tx EXCEPT ![w] = [IdleTx EXCEPT !.pc = "upsert", !.url = u,
                                          !.listing = l, !.start = clock + 1]]
      BY <3>1
    <3> DEFINE s == [IdleTx EXCEPT !.pc = "upsert", !.url = u, !.listing = l, !.start = clock + 1]
    <3>3. s.start = clock + 1 /\ s.pc = "upsert" /\ s.winner = NULL
      BY DEF IdleTx
    <3> HIDE DEF s
    <3> QED
      BY <3>2, <3>3 DEF s
  <2>2. CASE SweepScan(w)
    <3> DEFINE todo == Stale(db, clock + 1)
               s == [IdleTx EXCEPT !.pc = "sweep", !.start = clock + 1, !.todo = todo]
    <3>1. tx' = [tx EXCEPT ![w] = s]
      BY <2>2 DEF SweepScan
    <3> HIDE DEF todo
    <3>2. s.start = clock + 1 /\ s.pc = "sweep" /\ s.winner = NULL /\ s.url = NULL
      BY DEF IdleTx
    <3> HIDE DEF s
    <3> QED
      BY <3>1, <3>2
  <2> QED
    BY <2>1, <2>2
<1>4. /\ tx'[w].start = clock + 1 /\ tx'[w].pc \in {"upsert", "sweep"}
      /\ tx'[w].winner = NULL /\ (tx'[w].pc = "sweep" => tx'[w].url = NULL)
      /\ \A x \in Workers \ {w} : tx'[x] = tx[x]
  BY <1>3 DEF TInv, Types
<1>5. OnlyMoves(w)
  BY <1>1, <1>2, <1>4 DEF TInv, Types, OnlyMoves
<1>6. Ordered(View(w)', Unsettling(w)')
  <2>1. View(w)' = View(w) /\ Unsettling(w)' = Unsettling(w)
    BY <1>1 DEF View, Unsettling, Redated
  <2> QED
    BY <2>1 DEF OInv
<1>7. DecisionHolds(w)' /\ Pointers(w)'
  BY <1>1, <1>2, <1>4 DEF DecisionHolds, Merging, Pointers
<1> QED
  BY <1>1, <1>2, <1>4, <1>5, <1>6, <1>7, OwnStepKeepsOInv

\* A rollback forgets versions only.
LEMMA RollbackKeepsOInv ==
    ASSUME TInv, TInv', OInv, NEW w \in Workers, Rollback(w)
    PROVE  OInv'
<1>1. /\ local' = [local EXCEPT ![w] = NoRows] /\ GiveUp(w)
      /\ UNCHANGED <<db, clock, unsettled>>
  BY DEF Rollback
<1>2. /\ tx'[w].pc \in {"idle", "done"} /\ \A x \in Workers \ {w} : tx'[x] = tx[x]
      /\ \A x \in Workers \ {w} : handled'[x] = handled[x]
  <2>1. tx \in [Workers -> TxState] /\ handled \in [Workers -> 0..MaxItems]
    BY DEF TInv, Types
  <2>2. CASE tx[w].pc = "sweep"
    <3> DEFINE s == [IdleTx EXCEPT !.pc = "done"]
    <3>1. UNCHANGED handled /\ tx' = [tx EXCEPT ![w] = s]
      BY <1>1, <2>2 DEF GiveUp
    <3>2. s.pc = "done"
      BY DoneFacts
    <3> HIDE DEF s
    <3> QED
      BY <2>1, <3>1, <3>2
  <2>3. CASE tx[w].pc # "sweep"
    BY <1>1, <2>1, <2>3, IdleFacts DEF GiveUp
  <2> QED
    BY <2>2, <2>3
<1>3. /\ DOMAIN local'[w] = {} /\ \A x \in Workers \ {w} : local'[x] = local[x]
      /\ clock \in Nat
  BY <1>1, SmallerTables DEF TInv, Types
<1>4. OnlyMoves(w)
  BY <1>1, <1>2, <1>3 DEF TInv, Types, OnlyMoves
<1>5. Ordered(View(w)', Unsettling(w)')
  <2>1. View(w)' = db
    BY <1>1, <1>3, ZenonT(40) DEF View, TInv, Types, Tables
  <2>2. unsettled \subseteq Unsettling(w)'
    BY <1>1 DEF Unsettling
  <2> QED
    BY <2>1, <2>2, OrderedButForMore DEF OInv
<1>6. ~Active(w)' /\ DecisionHolds(w)' /\ Pointers(w)'
  BY <1>2, <1>3 DEF Active, DecisionHolds, Merging, Pointers
<1> QED
  BY <1>1, <1>3, <1>4, <1>5, <1>6, OwnStepKeepsOInv

\* The posting's row is written: where it points stays, and the row is
\* unsettled if its date does not.
LEMMA UpsertStatementKeepsOInv ==
    ASSUME TInv, TInv', OInv, NEW w \in Workers, UpsertStatement(w)
    PROVE  OInv'
<1> DEFINE u == tx[w].url
<1>1. /\ tx[w].pc = "upsert" /\ u \notin LockedByOthers(w)
      /\ UNCHANGED <<db, clock, handled, countedNew, unsettled>>
      /\ u \in Urls /\ tx[w].listing \in Serves[u] /\ DOMAIN local[w] = {}
  BY UpsertStatementWrites
<1>2. PICK row \in Row :
        /\ Write(w, u, row)
        /\ tx' = [tx EXCEPT ![w].pc = IF row.canonical = NULL THEN "find" ELSE "commit",
                            ![w].inserted = u \notin DOMAIN db]
        /\ u \in DOMAIN db =>
             /\ row.firstSeen = db[u].firstSeen
             /\ row.canonical = db[u].canonical
        /\ u \notin DOMAIN db => row.canonical = NULL
  BY UpsertStatementWrites
<1>3. /\ Types /\ tx[w] \in TxState /\ clock \in Nat
  BY DEF TInv, Types
<1>4. tx[w].winner = NULL
  BY <1>1 DEF OInv, Pointers
<1>5. /\ tx'[w].pc \in {"find", "commit"} /\ tx'[w].start = tx[w].start
      /\ tx'[w].winner = NULL /\ tx'[w].url = u
      /\ \A x \in Workers \ {w} : tx'[x] = tx[x]
  BY <1>2, <1>3, <1>4 DEF TInv, Types, TxState
<1>6. /\ DOMAIN local'[w] = {u} /\ local'[w][u] = row
      /\ \A x \in Workers \ {w} : local'[x] = local[x]
  BY <1>1, <1>2, WriteKeepsTables
<1>7. OnlyMoves(w)
  BY <1>1, <1>3, <1>5, <1>6 DEF TInv, Types, OnlyMoves
<1>8. View(w) = db
  BY <1>1, <1>3, FreshView
<1>9. /\ DOMAIN View(w)' = DOMAIN db \cup {u} /\ View(w)'[u] = row
      /\ \A x \in DOMAIN db : x # u => View(w)'[x] = db[x]
  BY <1>1, <1>2, <1>8, ViewAfterWrite
<1>10. Ordered(View(w)', Unsettling(w)')
  <2> DEFINE s == View(w)'
             E == Unsettling(w)'
  <2>1. unsettled \subseteq E
    BY <1>1 DEF Unsettling
  <2>2. /\ DOMAIN s = DOMAIN db \cup {u} /\ s[u] = row
        /\ \A x \in DOMAIN db : x # u => s[x] = db[x]
    BY <1>9
  <2>3. u \in DOMAIN db /\ u \notin E => SameKey(row, db[u])
    BY <1>1, <1>2, <1>6 DEF SameKey, Unsettling, Redated
  <2> HIDE DEF s, E
  <2>4. s[u].canonical = NULL \/ (u \in DOMAIN db /\ s[u].canonical = db[u].canonical)
    BY <1>2, <2>2
  <2>5. Ordered(db, unsettled)
    BY DEF OInv
  <2>6. Ordered(s, E)
    BY <2>1, <2>2, <2>3, <2>4, <2>5, RepointKeepsOrder
  <2> QED
    BY <2>6 DEF s, E
<1>11. DecisionHolds(w)'
  BY <1>5 DEF DecisionHolds, Merging
<1>12. Pointers(w)'
  BY <1>1, <1>2, <1>5, <1>6 DEF Pointers
<1>13. Active(w)
  BY <1>1 DEF Active
<1> QED
  BY <1>1, <1>5, <1>7, <1>10, <1>11, <1>12, <1>13, OwnStepKeepsOInv

\* The winner is chosen: no row of the group is preferred to it.
LEMMA FindCandidatesKeepsOInv ==
    ASSUME TInv, TInv', OInv, NEW w \in Workers, FindCandidates(w)
    PROVE  OInv'
<1> DEFINE u == tx[w].url
           group == {u} \cup Candidates(View(w), u)
<1>1. tx[w].pc = "find" /\ UNCHANGED <<db, clock, local, handled, countedNew, unsettled>>
  BY DEF FindCandidates
<1>2. PICK win \in CanonicalOf(View(w), group, u) :
        tx' = [tx EXCEPT ![w].pc = IF group = {win} THEN "commit" ELSE "mark",
                         ![w].winner = win,
                         ![w].losers = [v \in group \ {win} |-> View(w)[v]]]
  BY DEF FindCandidates
<1>3. \A v \in group : ~PostedBefore(View(w)[v], View(w)[win])
  BY WinnerIsOfGroup
<1> DEFINE label == IF group = {win} THEN "commit" ELSE "mark"
           losers == [v \in group \ {win} |-> View(w)[v]]
<1>4. label \in {"commit", "mark"} /\ DOMAIN losers \subseteq group \ {win}
  OBVIOUS
<1>5. /\ tx'[w].pc = label /\ tx'[w].winner = win /\ tx'[w].losers = losers
      /\ tx'[w].start = tx[w].start /\ tx'[w].url = u
      /\ \A x \in Workers \ {w} : tx'[x] = tx[x]
  BY <1>2 DEF TInv, Types, TxState
<1> HIDE DEF label, losers, group
<1>6. OnlyMoves(w)
  BY <1>1, <1>5 DEF TInv, Types, OnlyMoves
<1>7. View(w)' = View(w) /\ Unsettling(w)' = Unsettling(w)
  BY <1>1 DEF View, Unsettling, Redated
<1>8. DecisionHolds(w)'
  BY <1>3, <1>4, <1>5, <1>7 DEF DecisionHolds, Merging, NotPreferred
<1>9. Active(w) /\ Ordered(View(w)', Unsettling(w)')
  BY <1>1, <1>7 DEF Active, OInv
<1>10. Pointers(w)'
  <2>1. Pointers(w) /\ tx[w].winner = NULL
    BY <1>1 DEF OInv, Pointers
  <2> QED
    BY <1>1, <1>4, <1>5, <2>1 DEF Pointers
<1> QED
  BY <1>1, <1>5, <1>6, <1>8, <1>9, <1>10, OwnStepKeepsOInv

\* Of two rows of a view one is preferred to the other.
LEMMA ViewIsStrict ==
    ASSUME TInv, OInv, NEW w \in Workers, NEW a \in DOMAIN View(w),
           NEW b \in DOMAIN View(w), a # b,
           ~PostedBefore(View(w)[a], View(w)[b])
    PROVE  PostedBefore(View(w)[b], View(w)[a])
<1>1. /\ DOMAIN View(w) = DOMAIN local[w] \cup DOMAIN db
      /\ \A x \in DOMAIN local[w] : View(w)[x] = local[w][x]
      /\ View(w)[a] \in Row /\ View(w)[b] \in Row
  BY ViewFacts DEF TInv
<1>2. \A x \in DOMAIN db : View(w)[x].firstSeen = db[x].firstSeen
  BY ViewKeys
<1>3. \A x \in DOMAIN local[w] \ DOMAIN db :
        x = tx[w].url /\ View(w)[x].firstSeen = tx[w].start /\ Active(w)
  BY <1>1 DEF TInv, VersionOf, Placed, Written, Active
<1>4. View(w)[a].firstSeen # View(w)[b].firstSeen
  BY <1>1, <1>2, <1>3 DEF OInv, TimesDiffer
<1>5. \A r, q \in Row :
        r.firstSeen # q.firstSeen => PostedBefore(r, q) \/ PostedBefore(q, r)
  BY NullAssumption DEF PostedBefore, Row
<1> QED
  BY <1>1, <1>4, <1>5

\* A row is pointed elsewhere: no date changes, and no key.
LEMMA PointAtKeepsDates ==
    ASSUME TInv, NEW w \in Workers, NEW v \in DOMAIN View(w), NEW u \in Urls,
           v \notin LockedByOthers(w), UNCHANGED <<db, unsettled>>,
           Write(w, v, [View(w)[v] EXCEPT !.canonical = u])
    PROVE  /\ DOMAIN local'[w] = DOMAIN local[w] \cup {v}
           /\ local'[w][v].posted = View(w)[v].posted /\ local'[w][v].canonical = u
           /\ \A x \in DOMAIN local[w] : x # v => local'[w][x] = local[w][x]
           /\ \A x \in Workers \ {w} : local'[x] = local[x]
           /\ DOMAIN View(w)' = DOMAIN View(w) /\ View(w)'[v].canonical = u
           /\ \A x \in DOMAIN View(w) : x # v => View(w)'[x] = View(w)[x]
           /\ \A x \in DOMAIN View(w) : SameKey(View(w)'[x], View(w)[x])
           /\ Dated(w)' = Dated(w)
<1> DEFINE row == [View(w)[v] EXCEPT !.canonical = u]
<1>1. /\ \A x \in DOMAIN View(w) : x \in Urls /\ View(w)[x] \in Row
      /\ \A x \in DOMAIN local[w] : View(w)[x] = local[w][x]
      /\ \A x \in DOMAIN db \ DOMAIN local[w] : View(w)[x] = db[x]
  BY ViewFacts DEF TInv
<1>2. /\ row \in Row /\ row.canonical = u /\ SameKey(row, View(w)[v])
  BY <1>1, PointedRow DEF SameKey
<1>3. Write(w, v, row)
  OBVIOUS
<1> HIDE DEF row
<1>4. /\ DOMAIN View(w)' = DOMAIN View(w) /\ View(w)'[v] = row
      /\ \A x \in DOMAIN View(w) : x # v => View(w)'[x] = View(w)[x]
  BY <1>1, <1>2, <1>3, ViewAfterWrite
<1>5. /\ DOMAIN local'[w] = DOMAIN local[w] \cup {v}
      /\ local'[w][v] = row
      /\ \A x \in DOMAIN local[w] : x # v => local'[w][x] = local[w][x]
      /\ \A x \in Workers \ {w} : local'[x] = local[x]
  BY <1>1, <1>2, <1>3, WriteKeepsTables
<1>6. ASSUME NEW x \in DOMAIN db
      PROVE  x \in Redated(w)' <=> x \in Redated(w)
  <2>1. CASE x = v
    BY <1>1, <1>2, <1>5, <2>1 DEF Redated, SameKey
  <2>2. CASE x # v
    BY <1>5, <2>2 DEF Redated
  <2> QED
    BY <2>1, <2>2
<1>7. Redated(w) \subseteq DOMAIN db /\ Redated(w)' \subseteq DOMAIN db
  BY DEF Redated
<1>8. Dated(w)' = Dated(w)
  BY <1>6, <1>7 DEF Dated
<1>9. \A x \in DOMAIN View(w) : SameKey(View(w)'[x], View(w)[x])
  BY <1>2, <1>4 DEF SameKey
<1> QED
  BY <1>2, <1>4, <1>5, <1>8, <1>9 DEF SameKey

\* A row is pointed at the winner, which it is not preferred to: the decision
\* being written holds as it did, and so does the order.
LEMMA PointAtKeepsOrder ==
    ASSUME TInv, OInv, NEW w \in Workers, NEW v \in DOMAIN View(w),
           tx[w].winner \in DOMAIN View(w), v \notin LockedByOthers(w),
           Write(w, v, [View(w)[v] EXCEPT !.canonical = tx[w].winner]),
           UNCHANGED <<db, unsettled>>,
           tx'[w].winner = tx[w].winner, tx'[w].url = tx[w].url,
           tx'[w].pc \notin {"upsert", "find", "sweep"},
           v \notin Unsettling(w)' /\ tx[w].winner \notin Unsettling(w)' =>
             v # tx[w].winner /\ ~PostedBefore(View(w)[v], View(w)[tx[w].winner])
    PROVE  /\ Ordered(View(w)', Unsettling(w)')
           /\ \A x \in DOMAIN View(w) : NotPreferred(w, x) => NotPreferred(w, x)'
           /\ Pointers(w)'
           /\ \A x \in Workers \ {w} : local'[x] = local[x]
<1> DEFINE t == View(w)
           s == View(w)'
           D == Unsettling(w)
           E == Unsettling(w)'
           winner == tx[w].winner
<1>1. winner \in Urls /\ \A x \in DOMAIN t : x # NULL
  BY ViewFacts, NullAssumption DEF TInv
<1>2. /\ DOMAIN local'[w] = DOMAIN local[w] \cup {v}
      /\ local'[w][v].posted = t[v].posted /\ local'[w][v].canonical = winner
      /\ \A x \in DOMAIN local[w] : x # v => local'[w][x] = local[w][x]
      /\ \A x \in Workers \ {w} : local'[x] = local[x]
      /\ DOMAIN s = DOMAIN t /\ s[v].canonical = winner
      /\ \A x \in DOMAIN t : x # v => s[x] = t[x]
      /\ \A x \in DOMAIN t : SameKey(s[x], t[x])
      /\ Dated(w)' = Dated(w)
  BY <1>1, PointAtKeepsDates
<1>3. Pointers(w)'
  <2>1. Pointers(w)
    BY DEF OInv
  <2>2. v \in DOMAIN db /\ v # tx[w].url => local'[w][v].posted = db[v].posted
    <3>1. /\ v \in DOMAIN local[w] => t[v] = local[w][v]
          /\ v \in DOMAIN db \ DOMAIN local[w] => t[v] = db[v]
      BY ViewFacts DEF TInv
    <3> QED
      BY <1>2, <2>1, <3>1 DEF Pointers
  <2> QED
    BY <1>2, <2>1, <2>2 DEF Pointers
<1>4. \A x \in DOMAIN db : x \in DOMAIN t
  BY ViewFacts DEF TInv
<1>5. D \subseteq E
  <2>1. ASSUME NEW x \in D, x \notin Dated(w) PROVE x \in E
    <3>1. /\ x \in DOMAIN db /\ db[x].canonical \in Dated(w)
          /\ t[x].canonical # db[x].canonical
      BY <2>1, UnsettlingIs
    <3>2. Dated(w) \subseteq DOMAIN db
      BY DEF Dated, Redated, TInv, Types
    <3>3. t[x].canonical = winner
      BY <1>1, <1>4, <3>1, <3>2, MovedToWinner
    <3>4. s[x].canonical # db'[x].canonical
      BY <1>2, <1>4, <3>1, <3>3
    <3> QED
      BY <1>2, <3>1, <3>4 DEF Unsettling, Dated
  <2>2. Dated(w) \subseteq E
    BY <1>2 DEF Unsettling, Dated
  <2> QED
    BY <2>1, <2>2
<1>6. Ordered(t, D)
  BY DEF OInv
<1>7. ASSUME NEW x \in DOMAIN t, NotPreferred(w, x) PROVE NotPreferred(w, x)'
  <2>1. SameKey(s[x], t[x]) /\ SameKey(s[winner], t[winner])
    BY <1>2
  <2>2. PostedBefore(s[x], s[winner]) <=> PostedBefore(t[x], t[winner])
    BY <2>1, SameKeysSameOrder
  <2> QED
    BY <1>2, <1>7, <2>2 DEF NotPreferred
<1> HIDE DEF t, s, D, E
<1>8. Ordered(s, E)
  BY <1>2, <1>5, <1>6, RepointKeepsOrder DEF t, E
<1> QED
  BY <1>2, <1>3, <1>7, <1>8 DEF t, s, E

\* The next loser is pointed at the winner.
LEMMA MarkLoserKeepsOInv ==
    ASSUME TInv, TInv', OInv, NEW w \in Workers, MarkLoser(w)
    PROVE  OInv'
<1>1. tx[w].pc = "mark" /\ UNCHANGED <<db, clock, handled, countedNew, unsettled>>
  BY DEF MarkLoser
<1>2. PICK v \in NextLosers(tx[w]) \ LockedByOthers(w) :
        /\ Write(w, v, [Newest(w, v) EXCEPT !.canonical = tx[w].winner])
        /\ tx' = [tx EXCEPT ![w].pc = "scan", ![w].current = v,
                            ![w].losers = [x \in DOMAIN @ \ {v} |-> @[x]]]
  BY DEF MarkLoser
<1>3. v \in DOMAIN tx[w].losers
  BY <1>2, NextLosersAreLosers
<1>4. /\ tx[w].winner \in DOMAIN View(w) /\ DOMAIN tx[w].losers \subseteq DOMAIN View(w)
      /\ \A x \in DOMAIN tx[w].losers : NotPreferred(w, x)
  BY <1>1 DEF TInv, Placed, Merging, OInv, DecisionHolds
<1>5. Write(w, v, [View(w)[v] EXCEPT !.canonical = tx[w].winner])
  BY <1>2 DEF Newest
<1> DEFINE losers == [x \in DOMAIN tx[w].losers \ {v} |-> tx[w].losers[x]]
<1>6. DOMAIN losers \subseteq DOMAIN tx[w].losers
  OBVIOUS
<1>7. /\ tx'[w].pc = "scan" /\ tx'[w].winner = tx[w].winner /\ tx'[w].losers = losers
      /\ tx'[w].current = v /\ tx'[w].start = tx[w].start /\ tx'[w].url = tx[w].url
      /\ \A x \in Workers \ {w} : tx'[x] = tx[x]
  BY <1>2 DEF TInv, Types, TxState
<1> HIDE DEF losers
<1>8. Dated(w)' = Dated(w)
  <2>1. tx[w].winner \in Urls
    BY <1>4, ViewFacts DEF TInv
  <2> QED
    BY <1>1, <1>2, <1>3, <1>4, <1>5, <2>1, PointAtKeepsDates
<1>9. Dated(w) \subseteq Unsettling(w)'
  BY <1>8 DEF Unsettling, Dated
<1>10. /\ Ordered(View(w)', Unsettling(w)') /\ Pointers(w)'
       /\ \A x \in DOMAIN View(w) : NotPreferred(w, x) => NotPreferred(w, x)'
       /\ \A x \in Workers \ {w} : local'[x] = local[x]
  <2>1. v \notin Unsettling(w)' /\ tx[w].winner \notin Unsettling(w)' =>
          v # tx[w].winner /\ ~PostedBefore(View(w)[v], View(w)[tx[w].winner])
    BY <1>3, <1>4, <1>9 DEF NotPreferred
  <2> QED
    BY <1>1, <1>2, <1>3, <1>4, <1>5, <1>7, <2>1, PointAtKeepsOrder
<1>11. OnlyMoves(w)
  BY <1>1, <1>7, <1>10 DEF TInv, Types, OnlyMoves
<1>12. DecisionHolds(w)'
  <2>1. \A x \in DOMAIN tx[w].losers : NotPreferred(w, x)'
    BY <1>4, <1>10
  <2> QED
    BY <1>3, <1>6, <1>7, <2>1 DEF DecisionHolds, Merging, NotPreferred
<1>13. Active(w)
  BY <1>1 DEF Active
<1> QED
  BY <1>1, <1>7, <1>10, <1>11, <1>12, <1>13, OwnStepKeepsOInv

\* The rows that point at the loser are found.
LEMMA ReparentScanKeepsOInv ==
    ASSUME TInv, TInv', OInv, NEW w \in Workers, ReparentScan(w)
    PROVE  OInv'
<1> DEFINE todo == PointingAt(View(w), tx[w].current)
           label == LoopAt(tx[w], todo)
<1>1. /\ tx[w].pc = "scan" /\ UNCHANGED <<db, clock, local, handled, countedNew, unsettled>>
      /\ tx' = [tx EXCEPT ![w].pc = label, ![w].todo = todo]
  BY DEF ReparentScan
<1>2. label \in {"reparent", "commit", "mark"}
  BY LoopAtFacts
<1> HIDE DEF todo, label
<1>3. /\ tx'[w].pc = label /\ tx'[w].winner = tx[w].winner /\ tx'[w].losers = tx[w].losers
      /\ tx'[w].current = tx[w].current /\ tx'[w].start = tx[w].start
      /\ tx'[w].url = tx[w].url
      /\ \A x \in Workers \ {w} : tx'[x] = tx[x]
  BY <1>1 DEF TInv, Types, TxState
<1>4. OnlyMoves(w)
  BY <1>1, <1>3 DEF TInv, Types, OnlyMoves
<1>5. /\ View(w)' = View(w) /\ Unsettling(w)' = Unsettling(w)
      /\ Dated(w)' = Dated(w)
  BY <1>1 DEF View, Unsettling, Redated, Dated
<1>6. DecisionHolds(w)' /\ Pointers(w)'
  <2>1. DecisionHolds(w) /\ Pointers(w)
    BY DEF OInv
  <2>2. DecisionHolds(w)'
    BY <1>1, <1>2, <1>3, <1>5, <2>1 DEF DecisionHolds, NotPreferred, Merging
  <2>3. Pointers(w)'
    BY <1>1, <1>2, <1>3, <2>1 DEF Pointers
  <2> QED
    BY <2>2, <2>3
<1>7. Active(w) /\ Ordered(View(w)', Unsettling(w)')
  BY <1>1, <1>5 DEF Active, OInv
<1> QED
  BY <1>1, <1>3, <1>4, <1>6, <1>7, OwnStepKeepsOInv

\* A settled row that points at the loser is not preferred to the winner: not
\* to the loser, which it has pointed at since before the transaction, nor the
\* loser to the winner.
LEMMA FollowerNotPreferred ==
    ASSUME TInv, OInv, NEW w \in Workers, NEW v \in DOMAIN View(w),
           tx[w].winner \in DOMAIN View(w), tx[w].current \in DOMAIN View(w),
           NotPreferred(w, tx[w].current), View(w)[v].canonical = tx[w].current,
           v \notin Dated(w), tx[w].winner \notin Dated(w),
           ~(v \in DOMAIN db /\ db[v].canonical \in Dated(w)
             /\ db[v].canonical # tx[w].winner)
    PROVE  v # tx[w].winner /\ ~PostedBefore(View(w)[v], View(w)[tx[w].winner])
<1> DEFINE c == tx[w].current
           win == tx[w].winner
<1>1. /\ \A x \in DOMAIN View(w) : View(w)[x] \in Row /\ x # NULL
      /\ v \in DOMAIN local[w] => View(w)[v] = local[w][v]
      /\ v \notin DOMAIN local[w] => v \in DOMAIN db /\ View(w)[v] = db[v]
  BY ViewFacts, NullAssumption DEF TInv
<1>2. c # win /\ c # NULL
  BY <1>1 DEF NotPreferred
<1>3. v \in DOMAIN db /\ db[v].canonical = c
  <2>1. Pointers(w)
    BY DEF OInv
  <2> QED
    BY <1>1, <1>2, <2>1 DEF Pointers
<1>4. c \notin Dated(w)
  BY <1>2, <1>3
<1>5. /\ c \in DOMAIN db /\ c # v /\ ~PostedBefore(db[v], db[c])
  <2>1. unsettled \subseteq Dated(w) /\ Ordered(db, unsettled)
    BY DEF OInv, Dated
  <2> QED
    BY <1>2, <1>3, <1>4, <2>1 DEF Ordered
<1>6. SameKey(View(w)[v], db[v]) /\ SameKey(View(w)[c], db[c])
  BY <1>3, <1>4, <1>5, ViewKeys, UnsettlingIs
<1>7. ~PostedBefore(View(w)[v], View(w)[c])
  BY <1>5, <1>6, SameKeysSameOrder
<1>8. ~PostedBefore(View(w)[c], View(w)[win])
  BY <1>4 DEF NotPreferred
<1>9. ~PostedBefore(View(w)[v], View(w)[win])
  BY <1>1, <1>7, <1>8, NotBeforeTransitive
<1>10. v # win
  BY <1>2, <1>7, <1>8, ViewIsStrict
<1> QED
  BY <1>9, <1>10

\* One of them is pointed at the winner.
LEMMA ReparentRowKeepsOInv ==
    ASSUME TInv, TInv', OInv, NEW w \in Workers, ReparentRow(w)
    PROVE  OInv'
<1>1. tx[w].pc = "reparent" /\ UNCHANGED <<db, clock, handled, countedNew, unsettled>>
  BY DEF ReparentRow
<1>2. PICK v \in tx[w].todo \ LockedByOthers(w) :
        /\ IF Newest(w, v).canonical = tx[w].current
           THEN Write(w, v, [Newest(w, v) EXCEPT !.canonical = tx[w].winner])
           ELSE UNCHANGED local
        /\ tx' = [tx EXCEPT ![w].pc = LoopAt(tx[w], tx[w].todo \ {v}),
                            ![w].todo = @ \ {v}]
  BY DEF ReparentRow
<1> DEFINE todo == tx[w].todo \ {v}
           label == LoopAt(tx[w], todo)
           winner == tx[w].winner
           current == tx[w].current
<1>3. label \in {"reparent", "commit", "mark"}
  BY LoopAtFacts
<1>4. /\ v \in DOMAIN View(w) /\ winner \in DOMAIN View(w) /\ current \in DOMAIN View(w)
      /\ DOMAIN tx[w].losers \subseteq DOMAIN View(w)
      /\ \A x \in DOMAIN tx[w].losers : NotPreferred(w, x)
      /\ NotPreferred(w, current)
  BY <1>1, <1>2 DEF TInv, Placed, Merging, OInv, DecisionHolds
<1>5. tx' = [tx EXCEPT ![w].pc = label, ![w].todo = todo]
  BY <1>2 DEF TInv, Types
<1> HIDE DEF todo, label
<1>6. /\ tx'[w].pc = label /\ tx'[w].winner = winner /\ tx'[w].losers = tx[w].losers
      /\ tx'[w].current = current /\ tx'[w].start = tx[w].start
      /\ tx'[w].url = tx[w].url
      /\ \A x \in Workers \ {w} : tx'[x] = tx[x]
  BY <1>5 DEF TInv, Types, TxState
<1>7. /\ Ordered(View(w)', Unsettling(w)') /\ Pointers(w)'
      /\ \A x \in DOMAIN View(w) : NotPreferred(w, x) => NotPreferred(w, x)'
      /\ \A x \in Workers \ {w} : local'[x] = local[x]
  <2>1. CASE View(w)[v].canonical # current
    <3>1. UNCHANGED local
      BY <1>2, <2>1 DEF Newest
    <3>2. View(w)' = View(w) /\ Redated(w)' = Redated(w)
      BY <1>1, <3>1 DEF View, Redated
    <3>3. Unsettling(w)' = Unsettling(w) /\ Dated(w)' = Dated(w)
      BY <1>1, <3>2 DEF Unsettling, Dated
    <3>4. Pointers(w)'
      BY <1>1, <1>3, <1>6, <3>1 DEF OInv, Pointers
    <3> QED
      BY <1>6, <3>1, <3>2, <3>3, <3>4 DEF OInv, NotPreferred
  <2>2. CASE View(w)[v].canonical = current
    <3>1. Write(w, v, [View(w)[v] EXCEPT !.canonical = winner])
      BY <1>2, <2>2 DEF Newest
    <3>2. winner \in Urls
      BY <1>4, ViewFacts DEF TInv
    <3>3. /\ Dated(w)' = Dated(w) /\ View(w)'[v].canonical = winner
      BY <1>1, <1>2, <1>4, <3>1, <3>2, PointAtKeepsDates
    <3>4. ASSUME v \notin Unsettling(w)', winner \notin Unsettling(w)'
          PROVE  v # winner /\ ~PostedBefore(View(w)[v], View(w)[winner])
      <4>1. v \notin Dated(w) /\ winner \notin Dated(w)
        BY <3>3, <3>4 DEF Unsettling, Dated
      <4>2. ~(v \in DOMAIN db /\ db[v].canonical \in Dated(w)
              /\ db[v].canonical # winner)
        BY <1>1, <3>3, <3>4 DEF Unsettling, Dated
      <4> QED
        BY <1>4, <2>2, <4>1, <4>2, FollowerNotPreferred
    <3>5. tx'[w].pc \notin {"upsert", "find", "sweep"}
      BY <1>3, <1>6
    <3> QED
      BY <1>1, <1>2, <1>4, <1>6, <3>1, <3>4, <3>5, PointAtKeepsOrder
  <2> QED
    BY <2>1, <2>2
<1>8. OnlyMoves(w)
  BY <1>1, <1>6, <1>7 DEF TInv, Types, OnlyMoves
<1>9. /\ \A x \in DOMAIN tx[w].losers : NotPreferred(w, x)'
      /\ \A x \in {current} : NotPreferred(w, x)'
  BY <1>4, <1>7
<1>10. DecisionHolds(w)'
  BY <1>3, <1>6, <1>9 DEF DecisionHolds, Merging, NotPreferred
<1>11. Active(w)
  BY <1>1 DEF Active
<1> QED
  BY <1>1, <1>6, <1>7, <1>8, <1>10, <1>11, OwnStepKeepsOInv

\* A row is turned off: its key and what it points at stay.
LEMMA SweepRowKeepsOInv ==
    ASSUME TInv, TInv', OInv, NEW w \in Workers, SweepRow(w)
    PROVE  OInv'
<1>1. tx[w].pc = "sweep" /\ UNCHANGED <<db, clock, handled, countedNew, unsettled>>
  BY DEF SweepRow
<1>2. PICK v \in tx[w].todo \ LockedByOthers(w) :
        /\ IF StillStale(w, v)
           THEN Write(w, v, [Newest(w, v) EXCEPT !.active = FALSE])
           ELSE UNCHANGED local
        /\ tx' = [tx EXCEPT ![w].todo = @ \ {v}]
  BY DEF SweepRow
<1>3. /\ Types /\ v \in DOMAIN View(w) /\ v \in DOMAIN db /\ View(w)[v] = db[v]
      /\ v \in Urls /\ db[v] \in Row /\ v \notin DOMAIN local[w]
  <2>1. Types /\ v \in DOMAIN db \ DOMAIN local[w]
    BY <1>1, <1>2 DEF TInv, Placed
  <2> QED
    BY <2>1, ViewFacts
<1> DEFINE row == [db[v] EXCEPT !.active = FALSE]
           t == View(w)
           s == View(w)'
           E == Unsettling(w)'
<1>4. row \in Row /\ SameKey(row, t[v]) /\ row.canonical = t[v].canonical
  BY <1>3 DEF Row, SameKey
<1>5. Write(w, v, row) \/ UNCHANGED local
  BY <1>2, <1>3 DEF Newest
<1> HIDE DEF row
<1>6. /\ tx'[w].pc = "sweep" /\ tx'[w].start = tx[w].start
      /\ tx'[w].winner = tx[w].winner /\ tx'[w].url = tx[w].url
      /\ \A x \in Workers \ {w} : tx'[x] = tx[x]
  BY <1>1, <1>2 DEF TInv, Types, TxState
<1>7. Ordered(t, Unsettling(w)) /\ Pointers(w)
  BY DEF OInv
<1>8. /\ Ordered(s, E) /\ Pointers(w)'
      /\ \A x \in Workers \ {w} : local'[x] = local[x]
  <2>1. CASE UNCHANGED local
    <3>1. s = t /\ Redated(w)' = Redated(w)
      BY <1>1, <2>1 DEF View, Redated
    <3>2. E = Unsettling(w)
      BY <1>1, <3>1 DEF Unsettling
    <3>3. Pointers(w)'
      BY <1>1, <1>6, <1>7, <2>1 DEF Pointers
    <3> QED
      BY <1>7, <2>1, <3>1, <3>2, <3>3
  <2>2. CASE Write(w, v, row)
    <3>1. /\ DOMAIN s = DOMAIN t \cup {v} /\ s[v] = row
          /\ \A x \in DOMAIN t : x # v => s[x] = t[x]
      BY <1>1, <1>2, <1>3, <1>4, <2>2, ViewAfterWrite
    <3>2. /\ DOMAIN local'[w] = DOMAIN local[w] \cup {v}
          /\ local'[w][v] = row
          /\ \A x \in DOMAIN local[w] : x # v => local'[w][x] = local[w][x]
          /\ \A x \in Workers \ {w} : local'[x] = local[x]
      BY <1>1, <1>2, <1>3, <1>4, <2>2, WriteKeepsTables
    <3>3. row.posted = db[v].posted /\ row.canonical = db[v].canonical
      BY <1>3, <1>4 DEF SameKey
    <3>4. Pointers(w)'
      BY <1>1, <1>3, <1>6, <1>7, <3>2, <3>3 DEF Pointers
    <3>5. Unsettling(w) \subseteq E
      <4>1. Dated(w) \subseteq Dated(w)'
        BY <1>1, <1>3, <3>2 DEF Dated, Redated
      <4>2. \A x \in DOMAIN db : s[x].canonical = t[x].canonical
        BY <1>3, <1>4, <3>1, ViewFacts
      <4> QED
        BY <1>1, <4>1, <4>2 DEF Unsettling, Dated
    <3>6. v \in DOMAIN t
      BY <1>3
    <3> HIDE DEF s, t, E
    <3>7. Ordered(s, E)
      BY <1>4, <1>7, <3>1, <3>5, <3>6, RepointKeepsOrder
    <3> QED
      BY <3>2, <3>4, <3>7
  <2> QED
    BY <1>5, <2>1, <2>2
<1>9. OnlyMoves(w)
  BY <1>1, <1>6, <1>8 DEF TInv, Types, OnlyMoves
<1>10. DecisionHolds(w)'
  BY <1>6 DEF DecisionHolds, Merging
<1>11. Active(w)
  BY <1>1 DEF Active
<1> QED
  BY <1>1, <1>6, <1>8, <1>9, <1>10, <1>11, OwnStepKeepsOInv DEF s, E

\* A sweep changes no date and moves no row.
LEMMA SweepUnsettlesNothing ==
    ASSUME TInv, OInv, NEW w \in Workers, tx[w].pc = "sweep"
    PROVE  Unsettling(w) = unsettled
<1>1. /\ tx[w].url = NULL /\ tx[w].winner = NULL /\ Pointers(w)
      /\ \A v \in DOMAIN db : v # NULL
      /\ unsettled \subseteq DOMAIN db
  BY NullAssumption DEF OInv, Pointers, TInv, Types, Tables
<1>2. Dated(w) = unsettled
  BY <1>1 DEF Dated, Redated, Pointers
<1>3. ASSUME NEW v \in Unsettling(w), v \notin unsettled PROVE FALSE
  <2>1. /\ v \in DOMAIN db /\ db[v].canonical \in unsettled
        /\ View(w)[v].canonical # db[v].canonical
    BY <1>2, <1>3, UnsettlingIs
  <2> QED
    BY <1>1, <2>1, MovedToWinner
<1> QED
  BY <1>2, <1>3, UnsettlingIs

\* A posting's transaction, or a sweep, commits.
LEMMA CommitKeepsOInv ==
    ASSUME TInv, TInv', OInv, NEW w \in Workers,
           Commit(w) \/ CommitUnacknowledged(w) \/ SweepCommit(w)
    PROVE  OInv'
<1>1. /\ db' = View(w) /\ UNCHANGED clock /\ local' = [local EXCEPT ![w] = NoRows]
      /\ \A x \in Workers \ {w} : handled'[x] = handled[x]
  BY DEF Commit, CommitUnacknowledged, SweepCommit, Publish, TInv, Types
<1>2. tx'[w].pc \in {"idle", "done"} /\ \A x \in Workers \ {w} : tx'[x] = tx[x]
  <2>1. CASE Commit(w) \/ CommitUnacknowledged(w)
    <3>1. tx' = [tx EXCEPT ![w] = IdleTx]
      BY <2>1 DEF Commit, CommitUnacknowledged, Publish
    <3> QED
      BY <3>1, IdleFacts DEF TInv, Types
  <2>2. CASE SweepCommit(w)
    <3> DEFINE s == [IdleTx EXCEPT !.pc = "done"]
    <3>1. tx' = [tx EXCEPT ![w] = s] /\ s.pc = "done"
      BY <2>2, DoneFacts DEF SweepCommit
    <3> HIDE DEF s
    <3> QED
      BY <3>1 DEF TInv, Types
  <2> QED
    BY <2>1, <2>2
<1>3. local'[w] = NoRows /\ OnlyMoves(w)
  BY <1>1, <1>2 DEF TInv, Types, OnlyMoves
<1>4. unsettled' = Unsettling(w)
  BY SweepUnsettlesNothing DEF Commit, CommitUnacknowledged, SweepCommit, Publish
<1> QED
  BY <1>1, <1>2, <1>3, <1>4, PublishKeepsOInv

\* Nothing is committed or under way at the start.
LEMMA InitOInv == Init => OInv
<1> SUFFICES ASSUME Init PROVE OInv
  OBVIOUS
<1>1. /\ DOMAIN NoRows = {} /\ IdleTx.pc = "idle"
  BY SmallerTables, IdleFacts
<1>2. /\ db = NoRows /\ tx = [w \in Workers |-> IdleTx]
      /\ local = [w \in Workers |-> NoRows]
  BY DEF Init
<1>3. \A w \in Workers : ~Active(w) /\ ~Merging(w) /\ tx[w].pc = "idle"
  BY <1>1, <1>2 DEF Active, Merging
<1>4. TimesDiffer /\ Ordered(db, unsettled)
  BY <1>1, <1>2, <1>3 DEF TimesDiffer, Ordered
<1>5. \A w \in Workers : DOMAIN View(w) = {}
  BY <1>1, <1>2 DEF View
<1>6. \A w \in Workers :
        Ordered(View(w), Unsettling(w)) /\ Pointers(w) /\ DecisionHolds(w)
  BY <1>1, <1>2, <1>3, <1>5 DEF Ordered, DecisionHolds, Pointers
<1> QED
  BY <1>4, <1>6 DEF OInv

\* Every step of every worker keeps the order.
LEMMA NextKeepsOInv == TInv /\ TInv' /\ OInv /\ [Next]_vars => OInv'
<1> SUFFICES ASSUME TInv, TInv', OInv, [Next]_vars PROVE OInv'
  OBVIOUS
<1>1. ASSUME NEW w \in Workers, Step(w) PROVE OInv'
  BY <1>1, BeginKeepsOInv, UpsertStatementKeepsOInv, FindCandidatesKeepsOInv,
     MarkLoserKeepsOInv, ReparentScanKeepsOInv, ReparentRowKeepsOInv, CommitKeepsOInv,
     SweepRowKeepsOInv DEF Step
<1>2. ASSUME NEW w \in Workers, Fail(w) \/ DeadlockVictim(w) PROVE OInv'
  BY <1>2, RollbackKeepsOInv DEF Fail, DeadlockVictim
<1>3. ASSUME UNCHANGED vars PROVE OInv'
  <2>1. /\ db' = db /\ clock' = clock /\ tx' = tx /\ local' = local
        /\ unsettled' = unsettled
        /\ \A w \in Workers : View(w)' = View(w) /\ Redated(w)' = Redated(w)
    BY <1>3 DEF vars, View, Redated
  <2>2. TimesDiffer' /\ Ordered(db', unsettled')
    BY <2>1 DEF OInv, TimesDiffer, Active
  <2>3. ASSUME NEW w \in Workers
        PROVE  Ordered(View(w)', Unsettling(w)') /\ Pointers(w)' /\ DecisionHolds(w)'
    <3>1. Unsettling(w)' = Unsettling(w) /\ Dated(w)' = Dated(w)
      BY <2>1 DEF Unsettling, Dated
    <3>2. Pointers(w)' /\ DecisionHolds(w)'
      BY <2>1, <3>1 DEF OInv, DecisionHolds, NotPreferred, Merging, Pointers
    <3> QED
      BY <2>1, <3>1, <3>2 DEF OInv
  <2> QED
    BY <2>2, <2>3 DEF OInv
<1> QED
  BY <1>1, <1>2, <1>3, CommitKeepsOInv DEF Next, Finished

\* OInv holds in every reachable state.
LEMMA OInvAlways == Spec => []OInv
BY NextKeepsOInv, InitOInv, TInvAlways, PTL DEF Spec

----------------------------------------------------------------------------
(* The theorems about the order of duplicates *)

\* However the runs interleave, a duplicate is never preferred over the row it
\* points at, though the row was chosen from copies read without a lock; unless
\* one of the two is unsettled.
THEOREM TxKeepsOrder == Spec => []CanonicalIsEarlier
<1>1. OInv => CanonicalIsEarlier
  BY DEF OInv, Ordered, CanonicalIsEarlier
<1> QED
  BY <1>1, OInvAlways, PTL

\* In any set of rows there is one that no other of the set is preferred to.
LEMMA FirstOfRows ==
    ASSUME NEW t \in Tables, NEW S \in SUBSET DOMAIN t, S # {}
    PROVE  \E u \in S : \A v \in S : ~PostedBefore(t[v], t[u])
<1>1. \A u \in S : t[u] \in Row
  BY DEF Tables
<1>2. \A u \in S : t[u].posted \in Nat \cup {NULL} /\ t[u].firstSeen \in Nat
  BY <1>1 DEF Row
<1>3. ASSUME NEW D \in SUBSET S, D # {}
      PROVE  \E u \in D : \A v \in D : t[u].firstSeen <= t[v].firstSeen
  <2> DEFINE T == {t[u].firstSeen : u \in D}
  <2>1. T \in SUBSET Nat /\ T # {}
    BY <1>2, <1>3
  <2>2. PICK n \in T : \A m \in T : n <= m
    BY <2>1, LeastNat
  <2> QED
    BY <2>2
<1>4. CASE \A u \in S : t[u].posted = NULL
  <2>1. PICK u \in S : \A v \in S : t[u].firstSeen <= t[v].firstSeen
    BY <1>3
  <2>2. \A v \in S : ~(t[v].firstSeen < t[u].firstSeen)
    BY <1>2, <2>1
  <2> QED
    BY <1>4, <2>2 DEF PostedBefore
<1>5. CASE \E u \in S : t[u].posted # NULL
  <2> DEFINE T == {t[u].posted : u \in {x \in S : t[x].posted # NULL}}
  <2>1. T \in SUBSET Nat /\ T # {}
    BY <1>2, <1>5
  <2>2. PICK n \in T : \A m \in T : n <= m
    BY <2>1, LeastNat
  <2> DEFINE D == {x \in S : t[x].posted = n}
  <2>3. D \in SUBSET S /\ D # {} /\ n \in Nat /\ n # NULL
    BY <2>1, <2>2, NullAssumption
  <2>4. PICK u \in D : \A v \in D : t[u].firstSeen <= t[v].firstSeen
    BY <1>3, <2>3
  <2>5. \A v \in S : t[v].posted # NULL => t[v].posted \in Nat /\ n <= t[v].posted
    BY <1>2, <2>2
  <2>6. \A v \in S : t[v].posted = n => ~(t[v].firstSeen < t[u].firstSeen)
    BY <1>2, <2>4
  <2>7. ASSUME NEW v \in S PROVE ~PostedBefore(t[v], t[u])
    <3>1. t[u].posted = n
      BY <2>4
    <3>2. ~(t[v].posted # NULL /\ t[v].posted < n)
      BY <2>3, <2>5
    <3> QED
      BY <2>3, <2>6, <3>1, <3>2 DEF PostedBefore
  <2> QED
    BY <2>4, <2>7
<1> QED
  BY <1>4, <1>5

\* Settled duplicates never point at each other in a circle: the row of the
\* circle preferred to all others would point at one it is preferred to.
THEOREM TxHasNoRing == Spec => []NoRing
<1>1. TInv /\ OInv => NoRing
  <2> SUFFICES ASSUME TInv, OInv PROVE NoRing
    OBVIOUS
  <2>1. db \in Tables
    BY DEF TInv, Types
  <2>2. \A u \in DOMAIN db : db[u] \in Row /\ u # NULL
    BY <2>1, NullAssumption DEF Tables
  <2>3. ASSUME NEW S \in SUBSET (DOMAIN db \ unsettled), S # {},
               \A u \in S : db[u].canonical \in S
        PROVE  FALSE
    <3>1. PICK u \in S : \A v \in S : ~PostedBefore(db[v], db[u])
      BY <2>1, <2>3, FirstOfRows
    <3> DEFINE c == db[u].canonical
    <3>2. /\ c \in S /\ c # u
          /\ ~PostedBefore(db[u], db[c])
      BY <2>2, <2>3 DEF OInv, Ordered
    <3>3. ~PostedBefore(db[c], db[u])
      BY <3>1, <3>2
    <3>4. db[c].firstSeen # db[u].firstSeen
      BY <3>2 DEF OInv, TimesDiffer
    <3>5. db[c] \in Row /\ db[u] \in Row
      BY <2>2, <3>2
    <3> HIDE DEF c
    <3> QED
      BY <3>2, <3>3, <3>4, <3>5, NullAssumption DEF PostedBefore, Row
  <2> QED
    BY <2>3 DEF NoRing
<1> QED
  BY <1>1, TInvAlways, OInvAlways, PTL

----------------------------------------------------------------------------
(* One run at a time: the statements of a transaction are one step of Dedup *)

OneRun == \A w, x \in Workers : w = x

\* What w's first statement makes of the committed table, and the rows that
\* match its posting in it.
Upserted(w) == UpsertRow(db, tx[w].url, tx[w].listing, clock)
Group(w) == {tx[w].url} \cup Candidates(Upserted(w), tx[w].url)

\* The losers that are marked as duplicates.
Marked(w) == (Group(w) \ {tx[w].winner}) \ DOMAIN tx[w].losers

\* These rows of t point at u.
Repointed(t, rows, u) ==
    [v \in DOMAIN t |-> IF v \in rows THEN [t[v] EXCEPT !.canonical = u] ELSE t[v]]

\* The losers and what points at them.
Following(t, losers) == {v \in DOMAIN t : v \in losers \/ t[v].canonical \in losers}

\* The decision that is being written is one resolveDuplicates may make.
Deciding(w) ==
    /\ Upserted(w)[tx[w].url].canonical = NULL
    /\ tx[w].winner \in CanonicalOf(Upserted(w), Group(w), tx[w].url)
    /\ DOMAIN tx[w].losers \subseteq Group(w) \ {tx[w].winner}

\* What w's statements have made of the table so far.
Progress(w) ==
    /\ tx[w].pc = "find" =>
         View(w) = Upserted(w) /\ Upserted(w)[tx[w].url].canonical = NULL
    /\ Merging(w) => Deciding(w)
    /\ tx[w].pc = "mark" =>
         View(w) = Repointed(Upserted(w), Following(Upserted(w), Marked(w)), tx[w].winner)
    /\ tx[w].pc = "scan" =>
         /\ tx[w].current \in Marked(w)
         /\ View(w) = Repointed(Upserted(w),
                        {tx[w].current} \cup
                          Following(Upserted(w), Marked(w) \ {tx[w].current}),
                        tx[w].winner)
    /\ tx[w].pc = "reparent" =>
         /\ tx[w].current \in Marked(w)
         /\ tx[w].todo \subseteq PointingAt(Upserted(w), tx[w].current)
         /\ View(w) = Repointed(Upserted(w),
                        Following(Upserted(w), Marked(w)) \ tx[w].todo, tx[w].winner)
    /\ tx[w].pc = "commit" =>
         \/ Upserted(w)[tx[w].url].canonical # NULL /\ View(w) = Upserted(w)
         \/ /\ Upserted(w)[tx[w].url].canonical = NULL
            /\ View(w) \in ResolveDuplicates(Upserted(w), tx[w].url)
    /\ tx[w].pc = "sweep" =>
         /\ tx[w].todo \subseteq Stale(db, clock)
         /\ View(w) = Deactivate(db, Stale(db, clock) \ tx[w].todo)

\* The clock counts w's transactions.
Counted(w) ==
    /\ clock = handled[w] + (IF tx[w].pc = "idle" THEN 0 ELSE 1)
    /\ Active(w) => tx[w].start = clock
    /\ tx[w].pc \in {"sweep", "done"} => handled[w] = MaxItems

AInv == \A w \in Workers : Counted(w) /\ Progress(w)

\* Two tables with the same rows.
LEMMA SameTable ==
    ASSUME NEW t, NEW s, t = [v \in DOMAIN t |-> t[v]], s = [v \in DOMAIN s |-> s[v]],
           DOMAIN t = DOMAIN s, \A v \in DOMAIN t : t[v] = s[v]
    PROVE  t = s
OBVIOUS

LEMMA RepointedFacts ==
    ASSUME NEW t \in Tables, NEW rows, NEW u
    PROVE  /\ DOMAIN Repointed(t, rows, u) = DOMAIN t
           /\ \A v \in DOMAIN t \ rows : Repointed(t, rows, u)[v] = t[v]
           /\ rows = {} => Repointed(t, rows, u) = t
BY DEF Repointed, Tables

\* One more row is repointed.
LEMMA RepointOne ==
    ASSUME NEW t \in Tables, NEW rows, NEW u, NEW v \in DOMAIN t,
           NEW old, old = Repointed(t, rows, u),
           NEW row, row = [t[v] EXCEPT !.canonical = u],
           NEW s, s = [x \in DOMAIN s |-> s[x]],
           DOMAIN s = DOMAIN old \cup {v}, s[v] = row,
           \A x \in DOMAIN old : x # v => s[x] = old[x]
    PROVE  s = Repointed(t, rows \cup {v}, u)
<1> DEFINE r == Repointed(t, rows \cup {v}, u)
<1>1. /\ r = [x \in DOMAIN r |-> r[x]] /\ DOMAIN r = DOMAIN t
      /\ r[v] = [t[v] EXCEPT !.canonical = u]
      /\ \A x \in DOMAIN t : x # v => r[x] = Repointed(t, rows, u)[x]
  BY DEF Repointed
<1>2. DOMAIN s = DOMAIN t
  BY RepointedFacts
<1> HIDE DEF r
<1>3. \A x \in DOMAIN s : s[x] = r[x]
  BY <1>1, <1>2, RepointedFacts
<1>4. s = r
  BY <1>1, <1>2, <1>3, SameTable
<1> QED
  BY <1>4 DEF r

\* The rows w decides about.
LEMMA UpsertedFacts ==
    ASSUME TInv, NEW w \in Workers, Active(w), tx[w].pc # "sweep"
    PROVE  /\ Upserted(w) \in Tables
           /\ tx[w].url \in DOMAIN Upserted(w)
           /\ DOMAIN Upserted(w) = DOMAIN db \cup {tx[w].url}
           /\ tx[w].url \in Urls /\ tx[w].listing \in Serves[tx[w].url]
           /\ \A v \in DOMAIN Upserted(w) :
                v \in Urls /\ v # NULL /\ Upserted(w)[v] \in Row
<1>1. /\ db \in Tables /\ clock \in Nat
      /\ tx[w].url \in Urls /\ tx[w].listing \in Serves[tx[w].url]
  BY DEF TInv, Types, Placed
<1>2. tx[w].listing \in Listing
  BY <1>1, ServesAssumption
<1>3. IsTable(db)
  BY <1>1, TablesAreTables
<1>4. /\ IsTable(Upserted(w))
      /\ DOMAIN Upserted(w) = DOMAIN db \cup {tx[w].url}
  <2>1. ASSUME NEW u \in Urls, NEW l \in Listing, NEW n \in Nat
        PROVE  /\ IsTable(UpsertRow(db, u, l, n))
               /\ DOMAIN UpsertRow(db, u, l, n) = DOMAIN db \cup {u}
    <3> DEFINE t == UpsertRow(db, u, l, n)
    <3>1. /\ IsTable(t)
          /\ DOMAIN t = DOMAIN db \cup {u}
          /\ \A v \in DOMAIN db : t[v].canonical = db[v].canonical
      BY <1>3, UpsertRowKeeps, SMTT(30)
    <3> QED
      BY <3>1
  <2> QED
    BY <1>1, <1>2, <2>1 DEF Upserted
<1>5. Upserted(w) \in Tables
  BY <1>4, TablesAreTables
<1> QED
  BY <1>1, <1>4, <1>5, NullAssumption DEF Tables

\* The rows of the group are canonical, so no row points at another for
\* being in it.
LEMMA GroupFacts ==
    ASSUME TInv, NEW w \in Workers, Active(w), tx[w].pc # "sweep",
           Upserted(w)[tx[w].url].canonical = NULL
    PROVE  /\ Group(w) \subseteq DOMAIN Upserted(w)
           /\ \A v \in Group(w) : Upserted(w)[v].canonical = NULL
           /\ \A v \in Group(w) : v \in Urls /\ v # NULL
<1>1. /\ tx[w].url \in DOMAIN Upserted(w)
      /\ \A v \in DOMAIN Upserted(w) : v \in Urls /\ v # NULL
  BY UpsertedFacts
<1>2. Group(w) \subseteq DOMAIN Upserted(w)
  BY <1>1 DEF Group, Candidates
<1>3. \A v \in Group(w) : Upserted(w)[v].canonical = NULL
  BY <1>1 DEF Group, Candidates
<1> QED
  BY <1>1, <1>2, <1>3

\* What w's first statement makes of the table is fixed until it commits.
LEMMA BaseStays ==
    ASSUME NEW w \in Workers, UNCHANGED <<db, clock>>,
           tx'[w].url = tx[w].url, tx'[w].listing = tx[w].listing
    PROVE  Upserted(w)' = Upserted(w) /\ Group(w)' = Group(w)
BY DEF Upserted, Group

----------------------------------------------------------------------------
(* Every step of the one run keeps AInv *)

\* The posting's row is written.
LEMMA UpsertStatementProgress ==
    ASSUME TInv, TInv', NEW w \in Workers, Counted(w), Progress(w), UpsertStatement(w)
    PROVE  Counted(w)' /\ Progress(w)'
<1> DEFINE u == tx[w].url
           l == tx[w].listing
           row == IF u \in DOMAIN db THEN Refresh(Newest(w, u), l, tx[w].start)
                  ELSE RowFrom(l, tx[w].start, tx[w].start, NULL)
           label == IF row.canonical = NULL THEN "find" ELSE "commit"
           fresh == u \notin DOMAIN db
           s == [tx[w] EXCEPT !.pc = label, !.inserted = fresh]
<1>1. /\ tx[w].pc = "upsert" /\ u \notin LockedByOthers(w) /\ Write(w, u, row)
      /\ tx' = [tx EXCEPT ![w].pc = label, ![w].inserted = fresh]
      /\ UNCHANGED <<db, clock, handled, countedNew>>
  BY DEF UpsertStatement, WriteListing
<1>2. /\ Types /\ tx \in [Workers -> TxState] /\ tx[w] \in TxState /\ db \in Tables
      /\ Active(w) /\ tx[w].start = clock
      /\ View(w) = db
  BY <1>1, UpsertStatementWrites, FreshView DEF TInv, Types, Active, Counted
<1>3. row = Upserted(w)[u]
  BY <1>2, UpsertedFacts DEF Upserted, UpsertRow, Newest
<1>4. row \in Row /\ u \in Urls /\ row.canonical \in Urls \cup {NULL}
  <2> HIDE DEF row
  <2>1. tx[w].pc # "sweep"
    BY <1>1
  <2>2. row \in Row /\ u \in Urls
    BY <1>2, <1>3, <2>1, UpsertedFacts
  <2> QED
    BY <2>2 DEF Row
<1>5. label \in {"find", "commit"} /\ label \in PCs /\ fresh \in BOOLEAN
      /\ (label = "find" <=> row.canonical = NULL)
  BY DEF PCs
<1>6. tx' = [tx EXCEPT ![w] = s]
  BY <1>1, <1>2
<1> HIDE DEF row, label, fresh
<1>7. View(w)' = Upserted(w)
  <2> DEFINE v == View(w)'
  <2>1. v = [x \in DOMAIN v |-> v[x]]
    BY DEF View
  <2>2. /\ DOMAIN v = DOMAIN db \cup {u} /\ v[u] = row
        /\ \A x \in DOMAIN db : x # u => v[x] = db[x]
    BY <1>1, <1>2, <1>4, ViewAfterWrite, SMTT(30)
  <2>3. /\ Upserted(w) = [x \in DOMAIN Upserted(w) |-> Upserted(w)[x]]
        /\ DOMAIN Upserted(w) = DOMAIN db \cup {u}
        /\ \A x \in DOMAIN db : x # u => Upserted(w)[x] = db[x]
    BY DEF Upserted, UpsertRow
  <2> HIDE DEF v
  <2>4. v = Upserted(w)
    BY <1>3, <2>1, <2>2, <2>3, SameTable
  <2> QED
    BY <2>4 DEF v
<1>8. s \in TxState
  BY <1>2, <1>5, SetField
<1>9. /\ s.pc = label /\ s.url = u /\ s.listing = l /\ s.start = tx[w].start
  BY <1>2 DEF TxState
<1> HIDE DEF s
<1>10. tx'[w] = s
  BY <1>6, <1>8, MovesTo
<1>11. Upserted(w)' = Upserted(w)
  BY <1>1, <1>9, <1>10, BaseStays
<1>12. Counted(w)'
  BY <1>1, <1>2, <1>5, <1>9, <1>10 DEF Counted, Active
<1>13. Progress(w)'
  BY <1>3, <1>5, <1>7, <1>9, <1>10, <1>11 DEF Progress, Merging
<1> QED
  BY <1>12, <1>13

\* The order of the loop's steps makes no difference: what resolveDuplicates
\* leaves behind is the table with the losers and their followers repointed.
LEMMA LoopIsPointAllAt ==
    ASSUME NEW t \in Tables, NEW u, NEW win \in CanonicalOf(t, {u} \cup Candidates(t, u), u),
           NEW s,
           s = Repointed(t, Following(t, ({u} \cup Candidates(t, u)) \ {win}), win)
    PROVE  s \in ResolveDuplicates(t, u)
<1> DEFINE losers == ({u} \cup Candidates(t, u)) \ {win}
<1>1. Repointed(t, Following(t, losers), win) = PointAllAt(t, losers, win)
  BY DEF Repointed, Following, PointAllAt
<1> QED
  BY <1>1 DEF ResolveDuplicates

\* A transaction begins, at the time of the clock.
LEMMA BeginProgress ==
    ASSUME TInv, TInv', NEW w \in Workers, Counted(w), Begin(w)
    PROVE  Counted(w)' /\ Progress(w)'
<1>1. /\ tx[w].pc = "idle" /\ clock' = clock + 1 /\ UNCHANGED handled
      /\ clock \in Nat /\ clock = handled[w]
  <2>1. handled[w] \in Nat /\ clock \in Nat /\ tx[w].pc = "idle"
    BY MaxItemsAssumption DEF Begin, TInv, Types
  <2>2. clock = handled[w]
    BY <2>1 DEF Counted
  <2> QED
    BY <2>1, <2>2 DEF Begin
<1>2. PICK u \in Urls : \E l \in Serves[u] :
        tx' = [tx EXCEPT ![w] = [IdleTx EXCEPT !.pc = "upsert", !.url = u,
                                      !.listing = l, !.start = clock + 1]]
  BY DEF Begin
<1>3. PICK l \in Serves[u] :
        tx' = [tx EXCEPT ![w] = [IdleTx EXCEPT !.pc = "upsert", !.url = u,
                                      !.listing = l, !.start = clock + 1]]
  BY <1>2
<1> DEFINE s == [IdleTx EXCEPT !.pc = "upsert", !.url = u, !.listing = l, !.start = clock + 1]
<1>4. s.pc = "upsert" /\ s.start = clock + 1
  BY IdleFacts DEF TxState
<1>5. tx'[w] = s
  BY <1>3 DEF TInv, Types
<1> HIDE DEF s
<1> QED
  BY <1>1, <1>4, <1>5 DEF Counted, Progress, Active, Merging

\* The decision is one resolveDuplicates may make of the table as it is.
LEMMA FindCandidatesProgress ==
    ASSUME TInv, TInv', NEW w \in Workers, Counted(w), Progress(w), FindCandidates(w)
    PROVE  Counted(w)' /\ Progress(w)'
<1> DEFINE u == tx[w].url
           U == Upserted(w)
           group == {u} \cup Candidates(View(w), u)
<1>1. /\ tx[w].pc = "find" /\ UNCHANGED <<db, clock, local, handled, countedNew>>
  BY DEF FindCandidates
<1>2. PICK win \in CanonicalOf(View(w), group, u) :
        tx' = [tx EXCEPT ![w].pc = IF group = {win} THEN "commit" ELSE "mark",
                         ![w].winner = win,
                         ![w].losers = [v \in group \ {win} |-> View(w)[v]]]
  BY DEF FindCandidates
<1>3. /\ View(w) = U /\ U[u].canonical = NULL /\ group = Group(w)
      /\ Active(w) /\ tx[w].pc # "sweep" /\ tx[w].start = clock
  BY <1>1 DEF Progress, Counted, Active, Group
<1>4. U \in Tables /\ Group(w) \subseteq DOMAIN U /\ \A v \in Group(w) : v \in Urls
  BY <1>3, UpsertedFacts, GroupFacts
<1>5. tx \in [Workers -> TxState] /\ tx[w] \in TxState /\ win \in group
  <2>1. win \in group
    BY <1>2, WinnerIsOfGroup
  <2> QED
    BY <2>1 DEF TInv, Types
<1> DEFINE label == IF group = {win} THEN "commit" ELSE "mark"
           losers == [v \in group \ {win} |-> View(w)[v]]
           s == [tx[w] EXCEPT !.pc = label, !.winner = win, !.losers = losers]
<1>6. /\ label \in {"commit", "mark"} /\ label \in PCs
      /\ label = "commit" => group = {win}
  BY DEF PCs
<1>7. losers \in Tables /\ DOMAIN losers = group \ {win}
  <2> DEFINE S == group \ {win}
  <2>1. S \in SUBSET Urls /\ \A v \in S : View(w)[v] \in Row
    BY <1>3, <1>4 DEF Tables
  <2>2. losers \in [S -> Row]
    BY <2>1
  <2> QED
    BY <2>1, <2>2 DEF Tables
<1>8. tx' = [tx EXCEPT ![w] = s]
  BY <1>2, <1>5
<1> HIDE DEF label, losers, group
<1>9. s \in TxState
  BY <1>3, <1>4, <1>5, <1>6, <1>7, SetField
<1>10. /\ s.pc = label /\ s.winner = win /\ s.losers = losers
       /\ s.url = u /\ s.listing = tx[w].listing /\ s.start = tx[w].start
  BY <1>5 DEF TxState
<1> HIDE DEF s
<1>11. tx'[w] = s
  BY <1>8, <1>9, MovesTo
<1>12. U' = U /\ Group(w)' = Group(w) /\ View(w)' = U
  BY <1>1, <1>3, <1>10, <1>11, BaseStays DEF View
<1> HIDE DEF U
<1>13. Counted(w)'
  BY <1>1, <1>3, <1>6, <1>10, <1>11 DEF Counted, Active
<1>14. Following(U, {}) = {} /\ Repointed(U, {}, win) = U
  BY <1>4, RepointedFacts DEF Following
<1>15. Marked(w)' = {}
  BY <1>3, <1>7, <1>10, <1>11, <1>12 DEF Marked
<1>16. label = "commit" => U \in ResolveDuplicates(U, u)
  <2> SUFFICES ASSUME label = "commit" PROVE U \in ResolveDuplicates(U, u)
    OBVIOUS
  <2>1. group = {u} \cup Candidates(U, u) /\ win \in CanonicalOf(U, group, u)
    BY <1>2, <1>3 DEF group
  <2>2. group \ {win} = {}
    BY <1>6
  <2>3. U = Repointed(U, Following(U, ({u} \cup Candidates(U, u)) \ {win}), win)
    BY <1>14, <2>1, <2>2
  <2> QED
    BY <1>4, <2>1, <2>3, LoopIsPointAllAt
<1>17. Deciding(w)'
  BY <1>2, <1>3, <1>7, <1>10, <1>11, <1>12 DEF Deciding, U
<1>18. Progress(w)'
  <2>1. tx'[w].pc = "mark" =>
          View(w)' = Repointed(U, Following(U, Marked(w)'), tx'[w].winner)
    BY <1>10, <1>11, <1>12, <1>14, <1>15
  <2>2. tx'[w].pc = "commit" =>
          U[tx'[w].url].canonical = NULL /\ View(w)' \in ResolveDuplicates(U, tx'[w].url)
    BY <1>3, <1>10, <1>11, <1>12, <1>16
  <2>3. U' = Upserted(w)' /\ tx'[w].pc \in {"mark", "commit"}
    BY <1>6, <1>10, <1>11 DEF U
  <2> QED
    BY <1>12, <1>17, <2>1, <2>2, <2>3 DEF Progress
<1> QED
  BY <1>13, <1>18

\* What the statements of a merge read and write.
LEMMA MergingFacts ==
    ASSUME TInv, NEW w \in Workers, Counted(w), Progress(w), Merging(w)
    PROVE  /\ Types /\ tx \in [Workers -> TxState] /\ tx[w] \in TxState
           /\ Active(w) /\ tx[w].pc # "sweep" /\ tx[w].start = clock
           /\ Deciding(w)
           /\ Upserted(w) \in Tables
           /\ \A v \in DOMAIN Upserted(w) :
                v \in Urls /\ v # NULL /\ Upserted(w)[v] \in Row
           /\ tx[w].winner \in Urls
           /\ Group(w) \subseteq DOMAIN Upserted(w)
           /\ \A v \in Group(w) : Upserted(w)[v].canonical = NULL
           /\ Marked(w) \subseteq Group(w)
<1>1. /\ Active(w) /\ tx[w].pc # "sweep" /\ Deciding(w)
      /\ Types /\ tx \in [Workers -> TxState] /\ tx[w] \in TxState
  BY DEF Merging, Active, Progress, TInv, Types
<1>2. tx[w].start = clock
  BY <1>1 DEF Counted
<1>3. Upserted(w)[tx[w].url].canonical = NULL
  BY <1>1 DEF Deciding
<1>4. /\ Upserted(w) \in Tables
      /\ \A v \in DOMAIN Upserted(w) :
           v \in Urls /\ v # NULL /\ Upserted(w)[v] \in Row
      /\ Group(w) \subseteq DOMAIN Upserted(w)
      /\ \A v \in Group(w) : Upserted(w)[v].canonical = NULL
  BY <1>1, <1>3, UpsertedFacts, GroupFacts
<1>5. tx[w].winner \in Group(w)
  <2>1. tx[w].winner \in CanonicalOf(Upserted(w), Group(w), tx[w].url)
    BY <1>1 DEF Deciding
  <2> QED
    BY <2>1, WinnerIsOfGroup
<1>6. Marked(w) \subseteq Group(w)
  BY DEF Marked
<1> QED
  BY <1>1, <1>2, <1>4, <1>5, <1>6

\* A row is written that points at u.
LEMMA ViewRepoints ==
    ASSUME TInv, NEW w \in Workers, NEW t \in Tables, NEW rows, NEW u \in Urls,
           View(w) = Repointed(t, rows, u), NEW v \in DOMAIN t \ rows,
           Write(w, v, [Newest(w, v) EXCEPT !.canonical = u]),
           v \notin LockedByOthers(w), UNCHANGED db
    PROVE  View(w)' = Repointed(t, rows \cup {v}, u)
<1> DEFINE row == [t[v] EXCEPT !.canonical = u]
           s == View(w)'
<1>1. v \in Urls /\ t[v] \in Row
  BY DEF Tables
<1>2. Newest(w, v) = t[v]
  BY RepointedFacts DEF Newest
<1>3. row \in Row /\ Write(w, v, row)
  BY <1>1, <1>2, PointedRow
<1>4. row = [t[v] EXCEPT !.canonical = u]
  OBVIOUS
<1> HIDE DEF row
<1>5. s = [x \in DOMAIN s |-> s[x]]
  BY DEF View
<1>6. /\ DOMAIN s = DOMAIN View(w) \cup {v} /\ s[v] = row
      /\ \A x \in DOMAIN View(w) : x # v => s[x] = View(w)[x]
  BY <1>1, <1>3, ViewAfterWrite
<1> HIDE DEF s
<1>7. s = Repointed(t, rows \cup {v}, u)
  BY <1>4, <1>5, <1>6, RepointOne
<1> QED
  BY <1>7 DEF s

\* The next loser is repointed.
LEMMA MarkLoserProgress ==
    ASSUME TInv, TInv', NEW w \in Workers, Counted(w), Progress(w), MarkLoser(w)
    PROVE  Counted(w)' /\ Progress(w)'
<1> DEFINE U == Upserted(w)
           win == tx[w].winner
           old == Marked(w)
<1>1. tx[w].pc = "mark" /\ UNCHANGED <<db, clock, handled, countedNew>>
  BY DEF MarkLoser
<1>2. PICK v \in NextLosers(tx[w]) \ LockedByOthers(w) :
        /\ Write(w, v, [Newest(w, v) EXCEPT !.canonical = win])
        /\ tx' = [tx EXCEPT ![w].pc = "scan", ![w].current = v,
                            ![w].losers = [x \in DOMAIN @ \ {v} |-> @[x]]]
  BY DEF MarkLoser
<1>3. Merging(w)
  BY <1>1 DEF Merging
<1>4. /\ Types /\ tx \in [Workers -> TxState] /\ tx[w] \in TxState
      /\ Active(w) /\ tx[w].start = clock /\ Deciding(w)
      /\ U \in Tables /\ win \in Urls
      /\ \A x \in DOMAIN U : x \in Urls /\ x # NULL /\ U[x] \in Row
      /\ Group(w) \subseteq DOMAIN U /\ \A x \in Group(w) : U[x].canonical = NULL
      /\ old \subseteq Group(w)
  BY <1>3, MergingFacts
<1>5. View(w) = Repointed(U, Following(U, old), win)
  BY <1>1 DEF Progress
<1> DEFINE losers == [x \in DOMAIN tx[w].losers \ {v} |-> tx[w].losers[x]]
           row == [Newest(w, v) EXCEPT !.canonical = win]
           s == [tx[w] EXCEPT !.pc = "scan", !.current = v, !.losers = losers]
<1>6. /\ v \in DOMAIN tx[w].losers /\ v \in Group(w) \ {win} /\ v \notin old
      /\ v \in DOMAIN U /\ v \in Urls
  <2>1. v \in DOMAIN tx[w].losers
    BY <1>2, NextLosersAreLosers
  <2>2. v \in Group(w) \ {win} /\ v \notin old
    BY <1>4, <2>1 DEF Deciding, Marked
  <2> QED
    BY <1>4, <2>1, <2>2
<1>7. v \notin Following(U, old)
  <2>1. U[v].canonical \notin old
    BY <1>4, <1>6
  <2> QED
    BY <1>6, <2>1 DEF Following
<1>8. Newest(w, v) = U[v]
  BY <1>4, <1>5, <1>6, <1>7, RepointedFacts DEF Newest
<1>9. losers \in Tables /\ DOMAIN losers = DOMAIN tx[w].losers \ {v}
  BY <1>4, SmallerTables DEF TxState
<1>10. tx' = [tx EXCEPT ![w] = s]
  BY <1>2, <1>4
<1>11. Write(w, v, row) /\ row = [U[v] EXCEPT !.canonical = win]
  BY <1>2, <1>8
<1>12. row \in Row
  BY <1>4, <1>6, <1>11, PointedRow
<1> HIDE DEF losers, row
<1>13. s \in TxState
  BY <1>4, <1>6, <1>9, SetField DEF PCs
<1>14. /\ s.pc = "scan" /\ s.winner = win /\ s.losers = losers /\ s.current = v
       /\ s.url = tx[w].url /\ s.listing = tx[w].listing /\ s.start = tx[w].start
  BY <1>4 DEF TxState
<1> HIDE DEF s
<1>15. tx'[w] = s
  BY <1>10, <1>13, MovesTo
<1>16. U' = U /\ Group(w)' = Group(w)
  BY <1>1, <1>14, <1>15, BaseStays
<1>17. Marked(w)' = old \cup {v} /\ Marked(w)' \ {v} = old
  BY <1>6, <1>9, <1>14, <1>15, <1>16 DEF Marked
<1>18. View(w)' = Repointed(U, {v} \cup Following(U, old), win)
  <2>1. View(w)' = Repointed(U, Following(U, old) \cup {v}, win)
    BY <1>1, <1>2, <1>4, <1>5, <1>6, <1>7, ViewRepoints
  <2>2. Following(U, old) \cup {v} = {v} \cup Following(U, old)
    OBVIOUS
  <2> QED
    BY <2>1, <2>2
<1>19. Counted(w)'
  BY <1>1, <1>4, <1>14, <1>15 DEF Counted, Active
<1>20. Deciding(w)'
  BY <1>4, <1>9, <1>14, <1>15, <1>16 DEF Deciding
<1>21. Progress(w)'
  BY <1>14, <1>15, <1>16, <1>17, <1>18, <1>20 DEF Progress
<1> QED
  BY <1>19, <1>21

\* Where the loop goes when the rows to reparent are todo: with none left, the
\* losers marked so far and their followers are repointed.
LEMMA LoopProgress ==
    ASSUME TInv, NEW w \in Workers, Counted(w), Progress(w), Merging(w),
           UNCHANGED <<db, clock, handled>>, NEW todo,
           tx'[w].pc = LoopAt(tx[w], todo), tx'[w].todo = todo,
           tx'[w].winner = tx[w].winner, tx'[w].losers = tx[w].losers,
           tx'[w].current = tx[w].current,
           tx'[w].url = tx[w].url, tx'[w].listing = tx[w].listing,
           tx'[w].start = tx[w].start,
           tx[w].current \in Marked(w),
           todo \subseteq PointingAt(Upserted(w), tx[w].current),
           View(w)' = Repointed(Upserted(w),
                        Following(Upserted(w), Marked(w)) \ todo, tx[w].winner)
    PROVE  Counted(w)' /\ Progress(w)'
<1> DEFINE U == Upserted(w)
           win == tx[w].winner
<1>1. Active(w) /\ tx[w].pc # "sweep" /\ tx[w].start = clock /\ Deciding(w) /\ U \in Tables
  BY MergingFacts
<1>2. tx'[w].pc \in {"reparent", "commit", "mark"}
  BY LoopAtFacts
<1>3. /\ tx'[w].pc # "reparent" => todo = {}
      /\ tx'[w].pc = "commit" => tx[w].losers = NoRows
  BY DEF LoopAt
<1>4. U' = U /\ Group(w)' = Group(w)
  BY BaseStays
<1>5. Marked(w)' = Marked(w)
  BY <1>4 DEF Marked
<1>6. Counted(w)'
  BY <1>1, <1>2 DEF Counted, Active
<1>7. Deciding(w)'
  BY <1>1, <1>4 DEF Deciding
<1>8. tx'[w].pc = "commit" => View(w)' \in ResolveDuplicates(U, tx[w].url)
  <2> SUFFICES ASSUME tx'[w].pc = "commit"
               PROVE  View(w)' \in ResolveDuplicates(U, tx[w].url)
    OBVIOUS
  <2>1. todo = {} /\ DOMAIN tx[w].losers = {}
    BY <1>3, SmallerTables
  <2>2. Marked(w) = Group(w) \ {win}
    BY <2>1 DEF Marked
  <2>3. Following(U, Marked(w)) \ todo = Following(U, Group(w) \ {win})
    BY <2>1, <2>2
  <2> DEFINE t == View(w)'
  <2>4. t = Repointed(U, Following(U, ({tx[w].url} \cup Candidates(U, tx[w].url)) \ {win}), win)
    BY <2>3 DEF Group
  <2>5. win \in CanonicalOf(U, {tx[w].url} \cup Candidates(U, tx[w].url), tx[w].url)
    BY <1>1 DEF Deciding, Group
  <2> HIDE DEF t, U, win
  <2>6. t \in ResolveDuplicates(U, tx[w].url)
    BY <1>1, <2>4, <2>5, LoopIsPointAllAt
  <2> QED
    BY <2>6 DEF t
<1>9. todo = {} => View(w)' = Repointed(U, Following(U, Marked(w)), win)
  <2>1. todo = {} => Following(U, Marked(w)) \ todo = Following(U, Marked(w))
    OBVIOUS
  <2> QED
    BY <2>1
<1>10. Progress(w)'
  <2>1. U[tx[w].url].canonical = NULL
    BY <1>1 DEF Deciding
  <2>2. U' = Upserted(w)'
    OBVIOUS
  <2> QED
    BY <1>2, <1>3, <1>4, <1>5, <1>7, <1>8, <1>9, <2>1, <2>2 DEF Progress
<1> QED
  BY <1>6, <1>10

\* Of the rows that follow the losers in M, those that point at c are the
\* ones still to be found when c is marked and the others are done.
SkipsPointers(t, M, c, u, rows) ==
    /\ rows = Following(t, M) \ PointingAt(t, c)
    /\ PointingAt(Repointed(t, rows, u), c) = PointingAt(t, c)

LEMMA FollowersOfOne ==
    ASSUME NEW t \in Tables, NEW M \in SUBSET DOMAIN t, NEW c \in M, NEW u \in Urls \ M,
           \A v \in M : t[v].canonical = NULL /\ v # NULL,
           NEW rows, rows = {c} \cup Following(t, M \ {c})
    PROVE  SkipsPointers(t, M, c, u, rows)
<1> DEFINE r == Repointed(t, rows, u)
<1>1. rows = Following(t, M) \ PointingAt(t, c)
  BY DEF Following, PointingAt
<1>2. \A v \in DOMAIN t : v \in rows => r[v].canonical = u
  <2> SUFFICES ASSUME NEW v \in DOMAIN t, v \in rows PROVE r[v].canonical = u
    OBVIOUS
  <2>1. t[v] \in Row
    BY DEF Tables
  <2>2. r[v] = [t[v] EXCEPT !.canonical = u]
    BY DEF Repointed
  <2> HIDE DEF r
  <2> QED
    BY <2>1, <2>2, PointedRow
<1>3. DOMAIN r = DOMAIN t /\ \A v \in DOMAIN t \ rows : r[v] = t[v]
  BY RepointedFacts
<1>4. c # u
  OBVIOUS
<1> HIDE DEF r
<1>5. \A v \in PointingAt(t, c) : v \notin rows
  BY <1>1
<1>6. PointingAt(r, c) = PointingAt(t, c)
  BY <1>2, <1>3, <1>4, <1>5 DEF PointingAt
<1> QED
  BY <1>1, <1>6 DEF r, SkipsPointers

\* The rows that point at the loser are the ones left to repoint.
LEMMA ReparentScanProgress ==
    ASSUME TInv, TInv', NEW w \in Workers, Counted(w), Progress(w), ReparentScan(w)
    PROVE  Counted(w)' /\ Progress(w)'
<1> DEFINE todo == PointingAt(View(w), tx[w].current)
           label == LoopAt(tx[w], todo)
           s == [tx[w] EXCEPT !.pc = label, !.todo = todo]
           U == Upserted(w)
           win == tx[w].winner
           c == tx[w].current
<1>1. /\ tx[w].pc = "scan" /\ UNCHANGED <<db, clock, local, handled, countedNew>>
      /\ tx' = [tx EXCEPT ![w].pc = label, ![w].todo = todo]
  BY DEF ReparentScan
<1>2. Merging(w)
  BY <1>1 DEF Merging
<1>3. /\ Types /\ tx \in [Workers -> TxState] /\ tx[w] \in TxState
      /\ Active(w) /\ tx[w].start = clock /\ Deciding(w)
      /\ U \in Tables /\ win \in Urls
      /\ \A x \in DOMAIN U : x \in Urls /\ x # NULL
      /\ Group(w) \subseteq DOMAIN U /\ \A x \in Group(w) : U[x].canonical = NULL
      /\ Marked(w) \subseteq Group(w)
  BY <1>2, MergingFacts
<1>4. todo \subseteq Urls
  BY <1>3, ViewFacts DEF PointingAt
<1>5. /\ c \in Marked(w) /\ win \notin Marked(w)
      /\ View(w) = Repointed(U, {c} \cup Following(U, Marked(w) \ {c}), win)
  BY <1>1 DEF Progress, Marked
<1>6. label \in PCs
  BY LoopAtFacts
<1>7. tx' = [tx EXCEPT ![w] = s]
  BY <1>1, <1>3
<1>8. /\ todo = PointingAt(U, c)
      /\ View(w) = Repointed(U, Following(U, Marked(w)) \ todo, win)
  <2> DEFINE M == Marked(w)
             rows == {c} \cup Following(U, M \ {c})
  <2>1. /\ M \in SUBSET DOMAIN U /\ c \in M /\ win \in Urls \ M /\ U \in Tables
        /\ \A v \in M : U[v].canonical = NULL /\ v # NULL
        /\ rows = {c} \cup Following(U, M \ {c})
    BY <1>3, <1>5
  <2>2. View(w) = Repointed(U, rows, win)
    BY <1>5
  <2> HIDE DEF M, U, win, c, rows
  <2>3. SkipsPointers(U, M, c, win, rows)
    BY <2>1, FollowersOfOne
  <2> QED
    BY <2>2, <2>3 DEF M, c, SkipsPointers
<1> HIDE DEF todo, label
<1>9. s \in TxState
  BY <1>3, <1>4, <1>6, SetField
<1>10. /\ s.pc = label /\ s.winner = win /\ s.losers = tx[w].losers
       /\ s.current = c /\ s.todo = todo
       /\ s.url = tx[w].url /\ s.listing = tx[w].listing /\ s.start = tx[w].start
  BY <1>3 DEF TxState
<1> HIDE DEF s
<1>11. tx'[w] = s
  BY <1>7, <1>9, MovesTo
<1>12. View(w)' = View(w)
  BY <1>1 DEF View
<1>13. tx'[w].pc = LoopAt(tx[w], todo)
  BY <1>10, <1>11 DEF label
<1> QED
  BY <1>1, <1>2, <1>5, <1>8, <1>10, <1>11, <1>12, <1>13, LoopProgress

\* One of them is repointed.
LEMMA ReparentRowProgress ==
    ASSUME TInv, TInv', NEW w \in Workers, Counted(w), Progress(w), ReparentRow(w)
    PROVE  Counted(w)' /\ Progress(w)'
<1> DEFINE U == Upserted(w)
           win == tx[w].winner
           c == tx[w].current
           left == Following(U, Marked(w))
<1>1. tx[w].pc = "reparent" /\ UNCHANGED <<db, clock, handled, countedNew>>
  BY DEF ReparentRow
<1>2. PICK v \in tx[w].todo \ LockedByOthers(w) :
        /\ IF Newest(w, v).canonical = c
           THEN Write(w, v, [Newest(w, v) EXCEPT !.canonical = win])
           ELSE UNCHANGED local
        /\ tx' = [tx EXCEPT ![w].pc = LoopAt(tx[w], tx[w].todo \ {v}),
                            ![w].todo = @ \ {v}]
  BY DEF ReparentRow
<1> DEFINE todo == tx[w].todo \ {v}
           label == LoopAt(tx[w], todo)
           s == [tx[w] EXCEPT !.pc = label, !.todo = todo]
<1>3. Merging(w)
  BY <1>1 DEF Merging
<1>4. /\ Types /\ tx \in [Workers -> TxState] /\ tx[w] \in TxState
      /\ Active(w) /\ tx[w].start = clock
      /\ U \in Tables /\ win \in Urls
  BY <1>3, MergingFacts
<1>5. /\ c \in Marked(w) /\ tx[w].todo \subseteq PointingAt(U, c)
      /\ View(w) = Repointed(U, left \ tx[w].todo, win)
  BY <1>1 DEF Progress
<1>6. v \in DOMAIN U \ (left \ tx[w].todo) /\ U[v].canonical = c /\ v \in left
  BY <1>2, <1>5 DEF PointingAt, Following
<1>7. Newest(w, v) = U[v]
  BY <1>4, <1>5, <1>6, RepointedFacts DEF Newest
<1>8. Write(w, v, [Newest(w, v) EXCEPT !.canonical = win])
  BY <1>2, <1>6, <1>7
<1>9. View(w)' = Repointed(U, left \ todo, win)
  <2> DEFINE rows == left \ tx[w].todo
  <2>1. rows \cup {v} = left \ todo
    BY <1>2, <1>6
  <2>2. v \in DOMAIN U \ rows
    BY <1>6
  <2>3. View(w) = Repointed(U, rows, win)
    BY <1>5
  <2> HIDE DEF rows, U, win, left
  <2>4. View(w)' = Repointed(U, rows \cup {v}, win)
    BY <1>1, <1>2, <1>4, <1>8, <2>2, <2>3, ViewRepoints
  <2> QED
    BY <2>1, <2>4
<1>10. label \in PCs /\ todo \subseteq Urls /\ todo \subseteq PointingAt(U, c)
  BY <1>4, <1>5, LoopAtFacts DEF TxState
<1>11. tx' = [tx EXCEPT ![w] = s]
  BY <1>2, <1>4
<1> HIDE DEF todo, label
<1>12. s \in TxState
  BY <1>4, <1>10, SetField
<1>13. /\ s.pc = label /\ s.winner = win /\ s.losers = tx[w].losers
       /\ s.current = c /\ s.todo = todo
       /\ s.url = tx[w].url /\ s.listing = tx[w].listing /\ s.start = tx[w].start
  BY <1>4 DEF TxState
<1> HIDE DEF s
<1>14. tx'[w] = s
  BY <1>11, <1>12, MovesTo
<1>15. tx'[w].pc = LoopAt(tx[w], todo)
  BY <1>13, <1>14 DEF label
<1> QED
  BY <1>1, <1>3, <1>5, <1>9, <1>10, <1>13, <1>14, <1>15, LoopProgress

\* Between two transactions nothing is under way.
LEMMA EndedProgress ==
    ASSUME NEW w \in Workers, tx'[w].pc \in {"idle", "done"}
    PROVE  Progress(w)'
BY DEF Progress, Merging

\* A posting is done with, committed or failed.
LEMMA PostingEnds ==
    ASSUME TInv, NEW w \in Workers, Counted(w), Active(w), tx[w].pc # "sweep",
           tx' = [tx EXCEPT ![w] = IdleTx], handled' = [handled EXCEPT ![w] = @ + 1],
           UNCHANGED clock
    PROVE  Counted(w)' /\ Progress(w)'
<1>1. tx'[w] = IdleTx /\ tx'[w].pc = "idle"
  BY IdleFacts, MovesTo
<1>2. handled[w] \in Nat /\ handled'[w] = handled[w] + 1 /\ clock = handled[w] + 1
  BY DEF TInv, Types, Counted, Active
<1> QED
  BY <1>1, <1>2, EndedProgress DEF Counted, Active

\* The sweep is over, committed or failed.
LEMMA SweepEnds ==
    ASSUME TInv, NEW w \in Workers, Counted(w), tx[w].pc = "sweep",
           tx' = [tx EXCEPT ![w] = [IdleTx EXCEPT !.pc = "done"]],
           UNCHANGED <<clock, handled>>
    PROVE  Counted(w)' /\ Progress(w)'
<1> DEFINE s == [IdleTx EXCEPT !.pc = "done"]
<1>1. s \in TxState /\ s.pc = "done"
  BY DoneFacts
<1> HIDE DEF s
<1>2. tx'[w] = s
  BY <1>1, MovesTo DEF s
<1>3. clock = handled[w] + 1 /\ handled[w] = MaxItems
  BY DEF Counted
<1> QED
  BY <1>1, <1>2, <1>3, EndedProgress DEF Counted, Active

LEMMA CommitProgress ==
    ASSUME TInv, NEW w \in Workers, Counted(w), Publish(w)
    PROVE  Counted(w)' /\ Progress(w)'
BY PostingEnds DEF Publish, Active

LEMMA RollbackProgress ==
    ASSUME TInv, NEW w \in Workers, Counted(w), Rollback(w), Active(w)
    PROVE  Counted(w)' /\ Progress(w)'
<1>1. CASE tx[w].pc = "sweep"
  BY <1>1, SweepEnds DEF Rollback, GiveUp
<1>2. CASE tx[w].pc # "sweep"
  BY <1>2, PostingEnds DEF Rollback, GiveUp
<1> QED
  BY <1>1, <1>2

\* The rows of t that are turned off.
LEMMA DeactivateFacts ==
    ASSUME NEW t \in Tables, NEW rows
    PROVE  /\ DOMAIN Deactivate(t, rows) = DOMAIN t
           /\ \A v \in DOMAIN t \ rows : Deactivate(t, rows)[v] = t[v]
           /\ rows = {} => Deactivate(t, rows) = t
BY DEF Deactivate, Tables

\* The sweep begins, at the time of the clock.
LEMMA SweepScanProgress ==
    ASSUME TInv, NEW w \in Workers, Counted(w), SweepScan(w)
    PROVE  Counted(w)' /\ Progress(w)'
<1> DEFINE todo == Stale(db, clock + 1)
           s == [IdleTx EXCEPT !.pc = "sweep", !.start = clock + 1, !.todo = todo]
<1>1. /\ tx[w].pc = "idle" /\ handled[w] = MaxItems /\ clock' = clock + 1
      /\ UNCHANGED <<db, local, handled>> /\ tx' = [tx EXCEPT ![w] = s]
  BY DEF SweepScan
<1>2. /\ Types /\ DOMAIN local[w] = {} /\ db \in Tables /\ clock \in Nat
      /\ tx \in [Workers -> TxState] /\ handled[w] \in Nat
  BY <1>1, SmallerTables, MaxItemsAssumption DEF TInv, Types, Placed
<1>3. clock = handled[w]
  BY <1>1, <1>2 DEF Counted
<1>4. todo = Stale(db', clock') /\ todo \subseteq Stale(db', clock')
  BY <1>1
<1> HIDE DEF todo
<1>5. s.pc = "sweep" /\ s.start = clock + 1 /\ s.todo = todo
  BY IdleFacts DEF TxState
<1> HIDE DEF s
<1>6. tx'[w] = s
  BY <1>1, <1>2
<1>7. View(w)' = db
  <2>1. View(w) = db
    BY <1>2, FreshView
  <2> QED
    BY <1>1, <2>1 DEF View
<1>8. Deactivate(db, Stale(db', clock') \ todo) = db
  BY <1>2, <1>4, DeactivateFacts
<1>9. Counted(w)'
  BY <1>1, <1>2, <1>3, <1>5, <1>6 DEF Counted, Active
<1> QED
  BY <1>1, <1>4, <1>5, <1>6, <1>7, <1>8, <1>9 DEF Progress, Merging

\* One of the rows is turned off: nobody can have refreshed it.
LEMMA SweepRowProgress ==
    ASSUME TInv, NEW w \in Workers, Counted(w), Progress(w), SweepRow(w)
    PROVE  Counted(w)' /\ Progress(w)'
<1> DEFINE stale == Stale(db, clock)
<1>1. tx[w].pc = "sweep" /\ UNCHANGED <<db, clock, handled, countedNew>>
  BY DEF SweepRow
<1>2. PICK v \in tx[w].todo \ LockedByOthers(w) :
        /\ IF StillStale(w, v)
           THEN Write(w, v, [Newest(w, v) EXCEPT !.active = FALSE])
           ELSE UNCHANGED local
        /\ tx' = [tx EXCEPT ![w].todo = @ \ {v}]
  BY DEF SweepRow
<1> DEFINE todo == tx[w].todo \ {v}
           s == [tx[w] EXCEPT !.todo = todo]
           row == [db[v] EXCEPT !.active = FALSE]
<1>3. /\ Types /\ tx \in [Workers -> TxState] /\ tx[w] \in TxState /\ db \in Tables
  BY DEF TInv, Types
<1>4. /\ tx[w].start = clock /\ handled[w] = MaxItems /\ clock = handled[w] + 1
      /\ tx[w].todo \subseteq stale
      /\ View(w) = Deactivate(db, stale \ tx[w].todo)
  BY <1>1 DEF Counted, Progress, Active
<1>5. v \in stale /\ v \in DOMAIN db /\ v \in Urls /\ db[v] \in Row
  BY <1>2, <1>3, <1>4 DEF Stale, Tables
<1>6. Newest(w, v) = db[v]
  BY <1>2, <1>3, <1>4, <1>5, DeactivateFacts DEF Newest
<1>7. Write(w, v, row) /\ row \in Row
  <2>1. StillStale(w, v)
    BY <1>4, <1>5 DEF StillStale
  <2> QED
    BY <1>2, <1>5, <1>6, <2>1 DEF Row
<1>8. View(w)' = Deactivate(db, stale \ todo)
  <2> DEFINE t == View(w)'
             r == Deactivate(db, stale \ todo)
  <2>1. /\ r = [x \in DOMAIN r |-> r[x]] /\ DOMAIN r = DOMAIN db /\ r[v] = row
        /\ \A x \in DOMAIN db : x # v => r[x] = View(w)[x]
    BY <1>2, <1>4, <1>5 DEF Deactivate
  <2>2. t = [x \in DOMAIN t |-> t[x]]
    BY DEF View
  <2> HIDE DEF row
  <2>3. /\ DOMAIN t = DOMAIN View(w) \cup {v} /\ t[v] = row
        /\ \A x \in DOMAIN View(w) : x # v => t[x] = View(w)[x]
    BY <1>1, <1>2, <1>5, <1>7, ViewAfterWrite
  <2>4. DOMAIN View(w) = DOMAIN db
    BY <1>3, <1>4, DeactivateFacts
  <2> HIDE DEF t, r
  <2>5. t = r
    BY <1>5, <2>1, <2>2, <2>3, <2>4, SameTable
  <2> QED
    BY <2>5 DEF t, r
<1>9. tx' = [tx EXCEPT ![w] = s]
  BY <1>2, <1>3
<1>10. todo \subseteq Urls /\ todo \subseteq stale
  BY <1>3, <1>4 DEF TxState
<1> HIDE DEF todo
<1>11. s \in TxState
  BY <1>3, <1>10, SetField
<1>12. s.pc = "sweep" /\ s.todo = todo /\ s.start = tx[w].start
  BY <1>1, <1>3 DEF TxState
<1> HIDE DEF s
<1>13. tx'[w] = s
  BY <1>9, <1>11, MovesTo
<1>14. Counted(w)'
  BY <1>1, <1>4, <1>12, <1>13 DEF Counted, Active
<1> QED
  BY <1>1, <1>8, <1>10, <1>12, <1>13, <1>14 DEF Progress, Merging

\* Every step of the one run keeps AInv.
LEMMA NextKeepsAInv ==
    ASSUME OneRun
    PROVE  TInv /\ TInv' /\ AInv /\ [Next]_vars => AInv'
<1> SUFFICES ASSUME TInv, TInv', AInv, [Next]_vars PROVE AInv'
  OBVIOUS
<1>1. ASSUME NEW w \in Workers, Counted(w)', Progress(w)' PROVE AInv'
  BY <1>1 DEF AInv, OneRun
<1>2. ASSUME NEW w \in Workers, Step(w) PROVE AInv'
  <2>1. Counted(w) /\ Progress(w)
    BY DEF AInv
  <2>2. CASE Commit(w)
    BY <1>1, <2>1, <2>2, CommitProgress DEF Commit
  <2>3. CASE SweepCommit(w)
    BY <1>1, <2>1, <2>3, SweepEnds DEF SweepCommit
  <2> QED
    BY <1>1, <1>2, <2>1, <2>2, <2>3, BeginProgress, UpsertStatementProgress,
       FindCandidatesProgress, MarkLoserProgress, ReparentScanProgress,
       ReparentRowProgress, SweepScanProgress, SweepRowProgress DEF Step
<1>3. ASSUME NEW w \in Workers, CommitUnacknowledged(w) PROVE AInv'
  <2>1. Counted(w)
    BY DEF AInv
  <2> QED
    BY <1>1, <1>3, <2>1, CommitProgress DEF CommitUnacknowledged
<1>4. ASSUME NEW w \in Workers, Fail(w) \/ DeadlockVictim(w) PROVE AInv'
  <2>1. Rollback(w) /\ Active(w)
    BY <1>4, BlockedIsActive DEF Fail, DeadlockVictim, Active, Deadlocked
  <2>2. Counted(w)
    BY DEF AInv
  <2> QED
    BY <1>1, <2>1, <2>2, RollbackProgress
<1>5. ASSUME UNCHANGED vars PROVE AInv'
  <2>1. /\ db' = db /\ clock' = clock /\ tx' = tx /\ handled' = handled
        /\ \A w \in Workers : View(w)' = View(w)
    BY <1>5 DEF vars, View
  <2>2. ASSUME NEW w \in Workers PROVE Counted(w)' /\ Progress(w)'
    <3>1. Counted(w) /\ Progress(w) /\ View(w)' = View(w)
      BY <2>1 DEF AInv
    <3>2. /\ Upserted(w)' = Upserted(w) /\ Group(w)' = Group(w)
          /\ Marked(w)' = Marked(w)
      BY <2>1, BaseStays DEF Marked
    <3>3. Deciding(w)' <=> Deciding(w)
      BY <2>1, <3>2 DEF Deciding
    <3> QED
      BY <2>1, <3>1, <3>2, <3>3 DEF Counted, Active, Progress, Merging
  <2> QED
    BY <2>2 DEF AInv
<1> QED
  BY <1>2, <1>3, <1>4, <1>5 DEF Next, Finished

LEMMA InitAInv == Init => AInv
<1> SUFFICES ASSUME Init, NEW w \in Workers PROVE Counted(w) /\ Progress(w)
  BY DEF AInv
<1>1. clock = 0 /\ handled[w] = 0 /\ tx[w] = IdleTx /\ tx[w].pc = "idle"
  BY IdleFacts DEF Init
<1> QED
  BY <1>1 DEF Counted, Progress, Active, Merging

----------------------------------------------------------------------------
(* The statements of one run and the steps of Dedup *)

\* What is committed is what one UpsertJob makes of the table.
LEMMA CommitIsUpsertJob ==
    ASSUME TInv, NEW w \in Workers, Progress(w), Publish(w)
    PROVE  Atomic!Next
<1> DEFINE u == tx[w].url
           l == tx[w].listing
           U == Upserted(w)
<1>1. tx[w].pc = "commit" /\ db' = View(w) /\ UNCHANGED clock
  BY DEF Publish
<1>2. u \in Urls /\ l \in Serves[u]
  BY <1>1, UpsertedFacts DEF Active
<1>3. \/ U[u].canonical # NULL /\ db' = U
      \/ U[u].canonical = NULL /\ db' \in ResolveDuplicates(U, u)
  BY <1>1 DEF Progress
<1>4. U = Atomic!UpsertRow(db, u, l, clock)
  BY DEF Upserted, UpsertRow, Atomic!UpsertRow, Refresh, Atomic!Refresh,
         RowFrom, Atomic!RowFrom
<1>5. ResolveDuplicates(U, u) = Atomic!ResolveDuplicates(U, u)
  BY DEF ResolveDuplicates, Atomic!ResolveDuplicates, Candidates, Atomic!Candidates,
         CanonicalOf, Atomic!CanonicalOf, PointAllAt, Atomic!PointAllAt,
         PostedBefore, Atomic!PostedBefore, Matches, Atomic!Matches
<1>6. Atomic!UpsertJob(u, l)
  BY <1>1, <1>3, <1>4, <1>5 DEF Atomic!UpsertJob
<1> QED
  BY <1>2, <1>6 DEF Atomic!Next

\* A sweep commits what one DeactivateStaleJobs makes of it.
LEMMA SweepCommitIsDeactivate ==
    ASSUME TInv, NEW w \in Workers, Progress(w), SweepCommit(w)
    PROVE  Atomic!Next
<1>1. /\ tx[w].pc = "sweep" /\ tx[w].todo = {} /\ db' = View(w) /\ UNCHANGED clock
  BY DEF SweepCommit
<1>2. Stale(db, clock) \ {} = Stale(db, clock)
  OBVIOUS
<1>3. db' = Deactivate(db, Stale(db, clock))
  BY <1>1, <1>2 DEF Progress
<1>4. db' = Atomic!Deactivate(db, Atomic!Stale(db, clock))
  BY <1>3 DEF Deactivate, Atomic!Deactivate, Stale, Atomic!Stale
<1> QED
  BY <1>1, <1>4 DEF Atomic!DeactivateStaleJobs, Atomic!Next

\* The clock ticks when a transaction begins; the bound on it is not met.
LEMMA BeginIsTick ==
    ASSUME TInv, NEW w \in Workers, Counted(w), Begin(w) \/ SweepScan(w)
    PROVE  Atomic!Next
<1>1. /\ tx[w].pc = "idle" /\ clock' = clock + 1 /\ UNCHANGED db
  BY DEF Begin, SweepScan
<1>2. handled[w] \in Nat /\ handled[w] <= MaxItems
  BY MaxItemsAssumption DEF TInv, Types
<1>3. clock = handled[w]
  BY <1>1, <1>2 DEF Counted
<1>4. clock < MaxItems + 1
  BY <1>2, <1>3, MaxItemsAssumption
<1> QED
  BY <1>1, <1>4 DEF Atomic!Tick, Atomic!Next

\* Every step of the one run is a step of Dedup or changes nothing it knows of.
LEMMA NextIsAtomicNext ==
    TInv /\ AInv /\ [Next]_vars => [Atomic!Next]_(Atomic!vars)
<1> SUFFICES ASSUME TInv, AInv, [Next]_vars PROVE [Atomic!Next]_(Atomic!vars)
  OBVIOUS
<1>1. ASSUME UNCHANGED <<db, clock>> PROVE [Atomic!Next]_(Atomic!vars)
  BY <1>1 DEF Atomic!vars
<1>2. ASSUME NEW w \in Workers, Step(w) \/ CommitUnacknowledged(w)
      PROVE  [Atomic!Next]_(Atomic!vars)
  <2>1. Counted(w) /\ Progress(w)
    BY DEF AInv
  <2>2. CASE Begin(w) \/ SweepScan(w)
    BY <2>1, <2>2, BeginIsTick
  <2>3. CASE Commit(w) \/ CommitUnacknowledged(w)
    BY <2>1, <2>3, CommitIsUpsertJob DEF Commit, CommitUnacknowledged
  <2>4. CASE SweepCommit(w)
    BY <2>1, <2>4, SweepCommitIsDeactivate, SMTT(30)
  <2>5. CASE \/ UpsertStatement(w) \/ FindCandidates(w) \/ MarkLoser(w)
             \/ ReparentScan(w) \/ ReparentRow(w) \/ SweepRow(w)
    BY <1>1, <2>5 DEF UpsertStatement, WriteListing, FindCandidates, MarkLoser,
                      ReparentScan, ReparentRow, SweepRow
  <2> QED
    BY <1>2, <2>2, <2>3, <2>4, <2>5 DEF Step
<1>3. ASSUME NEW w \in Workers, Fail(w) \/ DeadlockVictim(w)
      PROVE  [Atomic!Next]_(Atomic!vars)
  BY <1>1, <1>3 DEF Fail, DeadlockVictim, Rollback
<1> QED
  BY <1>1, <1>2, <1>3 DEF Next, Finished, vars

\* With one scrape run at a time the statements of a transaction, any of which
\* may fail, add up to the atomic UpsertJob and DeactivateStaleJobs of Dedup:
\* what is proved of Dedup holds of the statements the code sends.
THEOREM TxIsAtomic ==
    ASSUME OneRun
    PROVE  Spec => AtomicSpec
<1>1. OneRun
  OBVIOUS
<1>2. TInv /\ TInv' /\ AInv /\ [Next]_vars => AInv'
  BY <1>1, NextKeepsAInv
<1>3. Init => Atomic!Init
  BY DEF Init, Atomic!Init, NoRows
<1> QED
  BY <1>2, <1>3, InitAInv, TInvAlways, NextIsAtomicNext, PTL
     DEF Spec, AtomicSpec, Atomic!Spec

\* The theorems about Dedup, read of the committed table and the clock.
DP == INSTANCE DedupProofs WITH jobs <- db, now <- clock, MaxTime <- MaxItems + 1

LEMMA AtomicIsDedup == AtomicSpec => DP!Spec
<1>1. Atomic!Init => DP!Init
  BY DEF Atomic!Init, DP!Init
<1>2. [Atomic!Next]_(Atomic!vars) => [DP!Next]_(DP!vars)
  BY DEF Atomic!Next, DP!Next, Atomic!vars, DP!vars, Atomic!UpsertJob, DP!UpsertJob,
         Atomic!DeactivateStaleJobs, DP!DeactivateStaleJobs, Atomic!Tick, DP!Tick,
         Atomic!UpsertRow, DP!UpsertRow, Atomic!Refresh, DP!Refresh,
         Atomic!RowFrom, DP!RowFrom, Atomic!ResolveDuplicates, DP!ResolveDuplicates,
         Atomic!Candidates, DP!Candidates, Atomic!Matches, DP!Matches,
         Atomic!CanonicalOf, DP!CanonicalOf, Atomic!PostedBefore, DP!PostedBefore,
         Atomic!PointAllAt, DP!PointAllAt, Atomic!Deactivate, DP!Deactivate,
         Atomic!Stale, DP!Stale
<1> QED
  BY <1>1, <1>2, PTL DEF AtomicSpec, Atomic!Spec, DP!Spec

\* One run at a time leaves no two canonical rows that look like the same
\* posting, at any point of any transaction: what two runs can do to each
\* other (the race of MCDedupTxRace) is the only way to miss a duplicate.
THEOREM TxAloneMissesNone ==
    ASSUME OneRun
    PROVE  Spec => []NoMissedDuplicate
<1>1. OneRun
  OBVIOUS
<1>2. DP!MaxTimeAssumption
  BY MaxItemsAssumption DEF DP!MaxTimeAssumption
<1>3. DP!ServesAssumption
  BY ServesAssumption DEF DP!ServesAssumption, DP!Listing, Listing
<1>4. DP!Spec => []DP!NoMissedDuplicate
  BY <1>2, <1>3, DP!NullAssumption, DP!SimilarAssumption, DP!StaleAssumption,
     DP!NoDuplicateMissed
<1>5. DP!NoMissedDuplicate => NoMissedDuplicate
  BY DEF DP!NoMissedDuplicate, NoMissedDuplicate, DP!Matches, Matches
<1>6. Spec => AtomicSpec
  BY <1>1, TxIsAtomic
<1> QED
  BY <1>4, <1>5, <1>6, AtomicIsDedup, PTL

\* One run at a time leaves no chain of duplicates either: it takes two runs
\* (MCDedupTxChain) to point a duplicate at a duplicate.
THEOREM TxAloneIsFlat ==
    ASSUME OneRun
    PROVE  Spec => []Flat
<1>1. OneRun
  OBVIOUS
<1>2. DP!MaxTimeAssumption
  BY MaxItemsAssumption DEF DP!MaxTimeAssumption
<1>3. DP!ServesAssumption
  BY ServesAssumption DEF DP!ServesAssumption, DP!Listing, Listing
<1>4. DP!Spec => []DP!Flat
  BY <1>2, <1>3, DP!NullAssumption, DP!SimilarAssumption, DP!StaleAssumption,
     DP!DuplicatesAreFlat
<1>5. DP!Flat => Flat
  BY DEF DP!Flat, Flat
<1>6. Spec => AtomicSpec
  BY <1>1, TxIsAtomic
<1> QED
  BY <1>4, <1>5, <1>6, AtomicIsDedup, PTL
=============================================================================
