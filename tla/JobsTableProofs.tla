-------------------------- MODULE JobsTableProofs --------------------------
(***************************************************************************)
(* What the statements of JobsTable do to a table, for every table of the   *)
(* right type: the lemmas on which the proofs about Dedup, DedupTx and      *)
(* Pipeline rest.                                                           *)
(***************************************************************************)
EXTENDS JobsTable, TLAPS

\* Flat and NoMissedDuplicate of a table, the second leaving out row x,
\* which is what holds between UpsertRow and ResolveDuplicates.
FlatTable(t) ==
    \A u \in DOMAIN t : t[u].canonical # NULL =>
        /\ t[u].canonical \in DOMAIN t
        /\ t[t[u].canonical].canonical = NULL

ResolvedBut(t, x) ==
    \A u, v \in DOMAIN t \ {x} :
        (u # v /\ t[u].canonical = NULL /\ t[v].canonical = NULL)
            => ~Matches(t[u], t[v])

----------------------------------------------------------------------------
(* The table operations *)

\* Matching does not depend on which of the two rows is asked about.
LEMMA MatchesSymmetric ==
    ASSUME NEW a \in Row, NEW b \in Row, Matches(a, b)
    PROVE  Matches(b, a)
BY SimilarAssumption DEF Matches, Row

\* UpsertRow leaves a well-typed, flat table in which only the refreshed row
\* can match another canonical one.
LEMMA UpsertRowKeeps ==
    ASSUME NEW t, IsTable(t), NEW u \in Urls, NEW l \in Listing, NEW n \in Nat
    PROVE  LET r == UpsertRow(t, u, l, n)
           IN  /\ IsTable(r)
               /\ DOMAIN r = DOMAIN t \cup {u}
               /\ \A v \in DOMAIN t : r[v].canonical = t[v].canonical
               /\ \A v \in DOMAIN t : v # u => r[v] = t[v]
               /\ r[u].posted = l.posted
               /\ u \in DOMAIN t \/ r[u].canonical = NULL
               /\ u \in DOMAIN t => r[u].firstSeen = t[u].firstSeen
<1> DEFINE r == UpsertRow(t, u, l, n)
<1>1. DOMAIN r = DOMAIN t \cup {u}
  BY DEF UpsertRow
<1>2. \A v \in DOMAIN t : v # u => r[v] = t[v]
  BY DEF UpsertRow
<1>3. CASE u \in DOMAIN t
  <2>1. r[u] = RowFrom(l, t[u].firstSeen, n, t[u].canonical)
    BY <1>3 DEF UpsertRow, Refresh
  <2>2. t[u] \in Row
    BY <1>3 DEF IsTable
  <2>3. r[u] \in Row
    BY <2>1, <2>2 DEF RowFrom, Row, Listing
  <2>4. /\ r[u].canonical = t[u].canonical
        /\ r[u].posted = l.posted
        /\ r[u].firstSeen = t[u].firstSeen
    BY <2>1 DEF RowFrom
  <2>5. IsTable(r)
    BY <1>1, <1>2, <1>3, <2>3 DEF IsTable, UpsertRow
  <2> QED
    BY <1>1, <1>2, <1>3, <2>4, <2>5
<1>4. CASE u \notin DOMAIN t
  <2>1. r[u] = RowFrom(l, n, n, NULL)
    BY <1>4 DEF UpsertRow
  <2>2. r[u] \in Row /\ r[u].canonical = NULL /\ r[u].posted = l.posted
    BY <2>1 DEF RowFrom, Row, Listing
  <2>3. IsTable(r)
    BY <1>1, <1>2, <2>2 DEF IsTable, UpsertRow
  <2> QED
    BY <1>1, <1>2, <1>4, <2>2, <2>3
<1> QED
  BY <1>3, <1>4

\* What the loop of resolveDuplicates does to a row.
LEMMA PointAllAtKeeps ==
    ASSUME NEW t, IsTable(t), NEW losers, NEW w \in DOMAIN t
    PROVE  LET r == PointAllAt(t, losers, w)
           IN  /\ IsTable(r)
               /\ DOMAIN r = DOMAIN t
               /\ \A v \in DOMAIN t :
                    /\ r[v].canonical =
                         IF v \in losers \/ t[v].canonical \in losers
                         THEN w ELSE t[v].canonical
                    /\ r[v].fingerprint = t[v].fingerprint
                    /\ r[v].company = t[v].company
                    /\ r[v].title = t[v].title
                    /\ r[v].posted = t[v].posted
                    /\ r[v].firstSeen = t[v].firstSeen
                    /\ r[v].active = t[v].active
                    /\ r[v].lastSeen = t[v].lastSeen
<1> DEFINE r == PointAllAt(t, losers, w)
<1>1. DOMAIN r = DOMAIN t
  BY DEF PointAllAt
<1>2. \A v \in DOMAIN t : t[v] \in Row
  BY DEF IsTable
<1>3. w \in Urls
  BY DEF IsTable
<1>4. \A v \in DOMAIN t :
        r[v] = IF v \in losers \/ t[v].canonical \in losers
               THEN [t[v] EXCEPT !.canonical = w] ELSE t[v]
  BY DEF PointAllAt
<1>5. \A v \in DOMAIN t : r[v] \in Row
  <2> SUFFICES ASSUME NEW v \in DOMAIN t PROVE r[v] \in Row
    OBVIOUS
  <2>1. t[v] \in Row /\ [t[v] EXCEPT !.canonical = w] \in Row
    BY <1>2, <1>3 DEF Row
  <2> HIDE DEF r
  <2> QED
    BY <1>4, <2>1
<1>6. IsTable(r)
  BY <1>1, <1>5 DEF IsTable, PointAllAt
<1> QED
  BY <1>1, <1>2, <1>4, <1>6 DEF Row

\* The chosen row is canonical, in the group, and nothing in the group is
\* preferred over it; the group is u and the canonical rows that match it.
LEMMA WinnerFacts ==
    ASSUME NEW t, NEW u \in DOMAIN t, t[u].canonical = NULL,
           NEW w \in CanonicalOf(t, {u} \cup Candidates(t, u), u)
    PROVE  /\ w \in {u} \cup Candidates(t, u)
           /\ w \in DOMAIN t
           /\ t[w].canonical = NULL
           /\ \A v \in {u} \cup Candidates(t, u) : ~PostedBefore(t[v], t[w])
BY DEF CanonicalOf, Candidates

\* The group, the losers and the winner of one resolution, and what it does
\* to every row.
LEMMA ResolveEffect ==
    ASSUME NEW t, IsTable(t), NEW u \in DOMAIN t, t[u].canonical = NULL,
           NEW r \in ResolveDuplicates(t, u)
    PROVE  /\ IsTable(r)
           /\ DOMAIN r = DOMAIN t
           /\ \E w \in {u} \cup Candidates(t, u) :
                /\ w \in DOMAIN t
                /\ t[w].canonical = NULL
                /\ \A v \in {u} \cup Candidates(t, u) : ~PostedBefore(t[v], t[w])
                /\ \A v \in DOMAIN t :
                     /\ r[v].canonical =
                          IF \/ v \in ({u} \cup Candidates(t, u)) \ {w}
                             \/ t[v].canonical \in ({u} \cup Candidates(t, u)) \ {w}
                          THEN w ELSE t[v].canonical
                     /\ r[v].fingerprint = t[v].fingerprint
                     /\ r[v].company = t[v].company
                     /\ r[v].title = t[v].title
                     /\ r[v].posted = t[v].posted
                     /\ r[v].firstSeen = t[v].firstSeen
                     /\ r[v].active = t[v].active
                     /\ r[v].lastSeen = t[v].lastSeen
<1> DEFINE group == {u} \cup Candidates(t, u)
<1>1. PICK w \in CanonicalOf(t, group, u) : r = PointAllAt(t, group \ {w}, w)
  BY DEF ResolveDuplicates
<1>2. /\ w \in group /\ w \in DOMAIN t /\ t[w].canonical = NULL
      /\ \A v \in group : ~PostedBefore(t[v], t[w])
  BY WinnerFacts
<1> QED
  BY <1>1, <1>2, PointAllAtKeeps

\* Resolving the one row that may match others makes a flat table with no
\* missed duplicate out of a flat table.
LEMMA ResolveKeeps ==
    ASSUME NEW t, IsTable(t), FlatTable(t), NEW u \in DOMAIN t,
           t[u].canonical = NULL, ResolvedBut(t, u),
           NEW r \in ResolveDuplicates(t, u)
    PROVE  /\ IsTable(r)
           /\ DOMAIN r = DOMAIN t
           /\ FlatTable(r)
           /\ \A x, y \in DOMAIN r :
                (x # y /\ r[x].canonical = NULL /\ r[y].canonical = NULL)
                    => ~Matches(r[x], r[y])
<1> DEFINE group == {u} \cup Candidates(t, u)
<1>1. PICK w \in group :
        /\ w \in DOMAIN t
        /\ t[w].canonical = NULL
        /\ \A v \in DOMAIN t :
             /\ r[v].canonical =
                  IF v \in group \ {w} \/ t[v].canonical \in group \ {w}
                  THEN w ELSE t[v].canonical
             /\ r[v].fingerprint = t[v].fingerprint
             /\ r[v].company = t[v].company
             /\ r[v].title = t[v].title
  BY ResolveEffect
<1> DEFINE losers == group \ {w}
<1>2. IsTable(r) /\ DOMAIN r = DOMAIN t
  BY ResolveEffect
<1>3. /\ IsTable(r) /\ DOMAIN r = DOMAIN t
      /\ \A v \in DOMAIN t :
           /\ r[v].canonical = IF v \in losers \/ t[v].canonical \in losers
                               THEN w ELSE t[v].canonical
           /\ r[v].fingerprint = t[v].fingerprint
           /\ r[v].company = t[v].company
           /\ r[v].title = t[v].title
  BY <1>1, <1>2
<1>4. NULL \notin losers /\ \A v \in losers : v \in DOMAIN t
  BY NullAssumption DEF IsTable, Candidates
<1>5. r[w].canonical = NULL
  BY <1>1, <1>3, <1>4
<1>6. FlatTable(r)
  <2> SUFFICES ASSUME NEW v \in DOMAIN r, r[v].canonical # NULL
               PROVE  r[v].canonical \in DOMAIN r /\ r[r[v].canonical].canonical = NULL
    BY DEF FlatTable
  <2>1. CASE v \in losers \/ t[v].canonical \in losers
    BY <1>1, <1>3, <1>5, <2>1
  <2>2. CASE ~(v \in losers \/ t[v].canonical \in losers)
    <3> DEFINE c == t[v].canonical
    <3>1. r[v].canonical = c /\ c # NULL
      BY <1>3, <2>2
    <3>2. c \in DOMAIN t /\ t[c].canonical = NULL
      BY <1>3, <3>1 DEF FlatTable
    <3>3. c \notin losers /\ t[c].canonical \notin losers
      BY <1>4, <2>2, <3>2
    <3> QED
      BY <1>3, <3>1, <3>2, <3>3
  <2> QED
    BY <2>1, <2>2
<1>7. ASSUME NEW x \in DOMAIN r, NEW y \in DOMAIN r, x # y,
             r[x].canonical = NULL, r[y].canonical = NULL
      PROVE  ~Matches(r[x], r[y])
  <2>1. w # NULL
    BY <1>1, NullAssumption DEF IsTable
  <2>2. \A v \in {x, y} : v \notin losers /\ t[v].canonical = NULL
    BY <1>3, <1>7, <2>1
  <2>3. \A v \in {x, y} : v # u => v = w \/ ~Matches(t[v], t[u])
    BY <1>3, <2>2 DEF Candidates
  <2>4. t[x] \in Row /\ t[y] \in Row /\ t[u] \in Row
    BY <1>3 DEF IsTable
  <2>5. ~Matches(t[x], t[y])
    <3>1. CASE x # u /\ y # u
      BY <1>3, <1>7, <2>2, <3>1 DEF ResolvedBut
    <3>2. CASE x = u
      <4>1. u \notin losers
        BY <2>2, <3>2
      <4>2. w = u
        BY <4>1
      <4> QED
        BY <1>7, <2>3, <2>4, <3>2, <4>2, MatchesSymmetric
    <3>3. CASE y = u
      <4>1. w = u
        BY <2>2, <3>3
      <4> QED
        BY <1>7, <2>3, <3>3, <4>1
    <3> QED
      BY <3>1, <3>2, <3>3
  <2> QED
    BY <1>3, <2>5 DEF Matches
<1> QED
  BY <1>3, <1>6, <1>7

\* DeactivateStaleJobs touches nothing but is_active.
LEMMA DeactivateKeeps ==
    ASSUME NEW t, IsTable(t), NEW rows
    PROVE  LET r == Deactivate(t, rows)
           IN  /\ IsTable(r)
               /\ DOMAIN r = DOMAIN t
               /\ \A v \in DOMAIN t :
                    /\ r[v].canonical = t[v].canonical
                    /\ r[v].fingerprint = t[v].fingerprint
                    /\ r[v].company = t[v].company
                    /\ r[v].title = t[v].title
                    /\ r[v].posted = t[v].posted
                    /\ r[v].firstSeen = t[v].firstSeen
                    /\ r[v].lastSeen = t[v].lastSeen
                    /\ r[v].active = (t[v].active /\ v \notin rows)
<1> DEFINE r == Deactivate(t, rows)
<1>1. DOMAIN r = DOMAIN t
  BY DEF Deactivate
<1>2. ASSUME NEW v \in DOMAIN t
      PROVE  /\ r[v] \in Row
             /\ r[v].canonical = t[v].canonical
             /\ r[v].fingerprint = t[v].fingerprint
             /\ r[v].company = t[v].company
             /\ r[v].title = t[v].title
             /\ r[v].posted = t[v].posted
             /\ r[v].firstSeen = t[v].firstSeen
             /\ r[v].lastSeen = t[v].lastSeen
             /\ r[v].active = (t[v].active /\ v \notin rows)
  <2>1. t[v] \in Row
    BY DEF IsTable
  <2>2. r[v] = IF v \in rows THEN [t[v] EXCEPT !.active = FALSE] ELSE t[v]
    BY DEF Deactivate
  <2> QED
    BY <2>1, <2>2 DEF Row
<1>3. IsTable(r)
  BY <1>1, <1>2 DEF IsTable, Deactivate
<1> QED
  BY <1>1, <1>2, <1>3

\* postedBefore looks at posted_at and first_seen_at only, and "not preferred
\* over" is transitive.
LEMMA NotBeforeTransitive ==
    ASSUME NEW a \in Row, NEW b \in Row, NEW c \in Row,
           ~PostedBefore(a, b), ~PostedBefore(b, c)
    PROVE  ~PostedBefore(a, c)
BY NullAssumption DEF PostedBefore, Row

\* The tables a whole UpsertJob can leave behind.
UpsertJobTables(t, u, l, n) ==
    LET s == UpsertRow(t, u, l, n)
    IN  IF s[u].canonical = NULL THEN ResolveDuplicates(s, u) ELSE {s}

\* What a whole UpsertJob does: its row is seen and active, the others keep
\* their company, their time and their state, and no duplicate becomes canonical.
UpsertEffect(t, u, l, n, r) ==
    /\ IsTable(r)
    /\ DOMAIN r = DOMAIN t \cup {u}
    /\ r[u].lastSeen = n /\ r[u].company = l.company
    /\ r[u].active
    /\ \A v \in DOMAIN t : v # u =>
         /\ r[v].lastSeen = t[v].lastSeen
         /\ r[v].company = t[v].company
         /\ r[v].active = t[v].active
    /\ \A v \in DOMAIN t : t[v].canonical # NULL => r[v].canonical # NULL

\* Each table UpsertJob can leave is so.
LEMMA UpsertJobEffect ==
    ASSUME NEW t, IsTable(t), NEW u \in Urls, NEW l \in Listing, NEW n \in Nat,
           NEW r \in UpsertJobTables(t, u, l, n)
    PROVE  UpsertEffect(t, u, l, n, r)
<1> DEFINE s == UpsertRow(t, u, l, n)
<1>1. /\ IsTable(s)
      /\ DOMAIN s = DOMAIN t \cup {u}
      /\ \A v \in DOMAIN t : s[v].canonical = t[v].canonical
  BY UpsertRowKeeps
<1>2. /\ s[u].lastSeen = n /\ s[u].company = l.company
      /\ s[u].active
      /\ \A v \in DOMAIN t : v # u => s[v] = t[v]
  <2>1. \E first, canonical : s[u] = RowFrom(l, first, n, canonical)
    BY DEF UpsertRow, Refresh
  <2>2. PICK first, canonical : s[u] = RowFrom(l, first, n, canonical)
    BY <2>1
  <2>3. \A v \in DOMAIN t : v # u => s[v] = t[v]
    BY DEF UpsertRow
  <2> HIDE DEF s
  <2> QED
    BY <2>2, <2>3 DEF RowFrom
<1>3. r = s \/ (s[u].canonical = NULL /\ r \in ResolveDuplicates(s, u))
  BY DEF UpsertJobTables
<1> HIDE DEF s
<1>4. CASE r = s
  BY <1>1, <1>2, <1>4 DEF UpsertEffect
<1>5. CASE s[u].canonical = NULL /\ r \in ResolveDuplicates(s, u)
  <2>1. u \in DOMAIN s
    BY <1>1
  <2>2. /\ IsTable(r)
        /\ DOMAIN r = DOMAIN s
        /\ \E w \in DOMAIN s :
             \A v \in DOMAIN s :
               /\ r[v].canonical = t[v].canonical \/ r[v].canonical = w \/ v \notin DOMAIN t
               /\ r[v].company = s[v].company
               /\ r[v].active = s[v].active
               /\ r[v].lastSeen = s[v].lastSeen
    <3>1. PICK w \in {u} \cup Candidates(s, u) :
            /\ w \in DOMAIN s
            /\ \A v \in DOMAIN s :
                 /\ r[v].canonical =
                      IF \/ v \in ({u} \cup Candidates(s, u)) \ {w}
                         \/ s[v].canonical \in ({u} \cup Candidates(s, u)) \ {w}
                      THEN w ELSE s[v].canonical
                 /\ r[v].company = s[v].company
                 /\ r[v].active = s[v].active
                 /\ r[v].lastSeen = s[v].lastSeen
      <4>1. IsTable(s) /\ u \in DOMAIN s /\ s[u].canonical = NULL /\ r \in ResolveDuplicates(s, u)
        BY <1>1, <1>5, <2>1
      <4> QED
        BY <4>1, ResolveEffect
    <3>2. IsTable(r) /\ DOMAIN r = DOMAIN s
      BY <1>1, <1>5, <2>1, ResolveEffect
    <3> QED
      BY <1>1, <3>1, <3>2
  <2>3. \A w \in DOMAIN s : w # NULL
    BY <1>1, NullAssumption DEF IsTable
  <2> QED
    BY <1>1, <1>2, <2>1, <2>2, <2>3 DEF UpsertEffect
<1> QED
  BY <1>3, <1>4, <1>5

=============================================================================
