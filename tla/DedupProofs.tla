---------------------------- MODULE DedupProofs ----------------------------
(***************************************************************************)
(* Theorems about Dedup, for every set of urls, every matching relation     *)
(* that is symmetric, every clock bound and every content a url may serve.  *)
(* The inductive invariant is TypeOK, Flat and NoMissedDuplicate together:  *)
(* each of the last two is kept by a step of resolveDuplicates only because *)
(* the table it starts from is flat.                                        *)
(***************************************************************************)
EXTENDS Dedup, JobsTableProofs, TLAPS

IInv == TypeOK /\ Flat /\ NoMissedDuplicate

----------------------------------------------------------------------------
(* The inductive invariant *)

\* IInv holds of the empty table.
LEMMA InitEstablishesIInv == Init => IInv
BY DEF Init, IInv, TypeOK, IsTable, Flat, NoMissedDuplicate

\* Store.UpsertJob keeps IInv.
LEMMA UpsertJobKeepsIInv ==
    ASSUME IInv, NEW u \in Urls, NEW l \in Serves[u], UpsertJob(u, l)
    PROVE  IInv'
<1> DEFINE tab == UpsertRow(jobs, u, l, now)
<1>1. l \in Listing /\ IsTable(jobs) /\ now \in Nat
  BY ServesAssumption DEF IInv, TypeOK
<1>2. /\ IsTable(tab)
      /\ DOMAIN tab = DOMAIN jobs \cup {u}
      /\ \A v \in DOMAIN jobs : tab[v].canonical = jobs[v].canonical
      /\ \A v \in DOMAIN jobs : v # u => tab[v] = jobs[v]
      /\ u \in DOMAIN jobs \/ tab[u].canonical = NULL
  <2>1. u \in DOMAIN jobs \/ tab[u].canonical = NULL
    BY DEF UpsertRow, RowFrom
  <2> QED
    BY <1>1, <2>1, UpsertRowKeeps, ZenonT(40)
<1> HIDE DEF tab
<1>3. FlatTable(tab)
  BY <1>2 DEF FlatTable, IInv, Flat
<1>4. ResolvedBut(tab, u)
  BY <1>2 DEF ResolvedBut, IInv, NoMissedDuplicate
<1>5. now' \in Nat
  BY DEF UpsertJob, IInv, TypeOK
<1>6. CASE tab[u].canonical # NULL /\ jobs' = tab
  BY <1>2, <1>3, <1>4, <1>5, <1>6
     DEF IInv, TypeOK, FlatTable, Flat, ResolvedBut, NoMissedDuplicate
<1>7. CASE tab[u].canonical = NULL /\ jobs' \in ResolveDuplicates(tab, u)
  <2>1. u \in DOMAIN tab
    BY <1>2
  <2> QED
    BY <1>2, <1>3, <1>4, <1>5, <1>7, <2>1, ResolveKeeps
       DEF IInv, TypeOK, FlatTable, Flat, NoMissedDuplicate
<1> QED
  BY <1>6, <1>7 DEF UpsertJob, tab

\* Every step of the specification keeps IInv.
LEMMA NextKeepsIInv == IInv /\ [Next]_vars => IInv'
<1> SUFFICES ASSUME IInv, [Next]_vars PROVE IInv'
  OBVIOUS
<1>1. ASSUME NEW u \in Urls, NEW l \in Serves[u], UpsertJob(u, l)
      PROVE  IInv'
  BY <1>1, UpsertJobKeepsIInv
<1>2. CASE DeactivateStaleJobs
  <2>1. IsTable(jobs) /\ jobs' = Deactivate(jobs, Stale(jobs, now)) /\ now' = now
    BY <1>2 DEF DeactivateStaleJobs, IInv, TypeOK
  <2>2. /\ IsTable(jobs')
        /\ DOMAIN jobs' = DOMAIN jobs
        /\ \A v \in DOMAIN jobs :
             /\ jobs'[v].canonical = jobs[v].canonical
             /\ jobs'[v].fingerprint = jobs[v].fingerprint
             /\ jobs'[v].company = jobs[v].company
             /\ jobs'[v].title = jobs[v].title
    BY <2>1, DeactivateKeeps
  <2>3. Flat'
    BY <2>2 DEF IInv, Flat
  <2>4. NoMissedDuplicate'
    BY <2>2 DEF IInv, NoMissedDuplicate, Matches
  <2> QED
    BY <2>1, <2>2, <2>3, <2>4 DEF IInv, TypeOK
<1>3. CASE Tick
  BY <1>3 DEF Tick, IInv, TypeOK, Flat, NoMissedDuplicate
<1>4. CASE UNCHANGED vars
  BY <1>4 DEF vars, IInv, TypeOK, Flat, NoMissedDuplicate
<1> QED
  BY <1>1, <1>2, <1>3, <1>4 DEF Next

\* The inductive invariant holds throughout.
LEMMA IInvAlways == Spec => []IInv
<1> QED
  BY InitEstablishesIInv, NextKeepsIInv, PTL DEF Spec

----------------------------------------------------------------------------
(* Theorems *)

\* The jobs table is well typed after any sequence of scrapes and sweeps.
THEOREM TypeCorrect == Spec => []TypeOK
BY IInvAlways, PTL DEF IInv

\* Duplicates never have duplicates of their own: whatever the order in
\* which UpsertJob displaces canonical rows, every canonical_job_id leads in
\* one hop to a canonical row.
THEOREM DuplicatesAreFlat == Spec => []Flat
BY IInvAlways, PTL DEF IInv

\* UpsertJob never leaves two canonical rows that look like the same
\* posting, even though matching is not transitive and contents change.
THEOREM NoDuplicateMissed == Spec => []NoMissedDuplicate
BY IInvAlways, PTL DEF IInv

----------------------------------------------------------------------------
(* Merges are never undone *)

\* Resolution sends a whole group to the winner: the row a reader is sent to
\* afterwards depends only on the one it was sent to before.
LEMMA ResolveMovesGroups ==
    ASSUME NEW t, IsTable(t), FlatTable(t), NEW u \in DOMAIN t,
           t[u].canonical = NULL, NEW r \in ResolveDuplicates(t, u),
           NEW a \in DOMAIN t, NEW b \in DOMAIN t,
           Canonical(t, a) = Canonical(t, b)
    PROVE  /\ Canonical(r, a) = Canonical(r, b)
           /\ t[a].canonical # NULL => r[a].canonical # NULL
<1> DEFINE group == {u} \cup Candidates(t, u)
<1>1. PICK w \in group :
        /\ w \in DOMAIN t
        /\ t[w].canonical = NULL
        /\ \A v \in DOMAIN t :
             r[v].canonical =
                  IF v \in group \ {w} \/ t[v].canonical \in group \ {w}
                  THEN w ELSE t[v].canonical
  BY ResolveEffect
<1>2. w # NULL /\ NULL \notin group
  BY <1>1, NullAssumption DEF IsTable, Candidates
<1>3. \A v \in group : v \in DOMAIN t /\ t[v].canonical = NULL
  BY DEF Candidates
<1>4. ASSUME NEW v \in DOMAIN t
      PROVE  /\ Canonical(r, v) = IF Canonical(t, v) \in group \ {w} THEN w
                                  ELSE Canonical(t, v)
             /\ t[v].canonical # NULL => r[v].canonical # NULL
  <2> HIDE DEF group
  <2>1. CASE t[v].canonical = NULL
    BY <1>1, <1>2, <2>1 DEF Canonical
  <2>2. CASE t[v].canonical # NULL
    <3>1. v \notin group
      BY <1>3, <2>2
    <3> QED
      BY <1>1, <1>2, <2>2, <3>1 DEF Canonical
  <2> QED
    BY <2>1, <2>2
<1> QED
  BY <1>4

\* A step never separates two rows of one group, nor makes a duplicate
\* canonical again.
LEMMA NextMovesGroups ==
    IInv /\ [Next]_vars =>
        [\A u, v \in DOMAIN jobs :
            Canonical(jobs, u) = Canonical(jobs, v) =>
                /\ Canonical(jobs', u) = Canonical(jobs', v)
                /\ jobs[u].canonical # NULL => jobs'[u].canonical # NULL]_vars
<1> SUFFICES ASSUME IInv, Next,
                    NEW a \in DOMAIN jobs, NEW b \in DOMAIN jobs,
                    Canonical(jobs, a) = Canonical(jobs, b)
             PROVE  /\ Canonical(jobs', a) = Canonical(jobs', b)
                    /\ jobs[a].canonical # NULL => jobs'[a].canonical # NULL
  OBVIOUS
<1>1. ASSUME NEW u \in Urls, NEW l \in Serves[u], UpsertJob(u, l)
      PROVE  /\ Canonical(jobs', a) = Canonical(jobs', b)
             /\ jobs[a].canonical # NULL => jobs'[a].canonical # NULL
  <2> DEFINE tab == UpsertRow(jobs, u, l, now)
  <2>1. l \in Listing /\ IsTable(jobs) /\ now \in Nat
    BY ServesAssumption DEF IInv, TypeOK
  <2>2. /\ IsTable(tab)
        /\ DOMAIN tab = DOMAIN jobs \cup {u}
        /\ \A v \in DOMAIN jobs : tab[v].canonical = jobs[v].canonical
        /\ u \in DOMAIN jobs \/ tab[u].canonical = NULL
    <3>1. u \in DOMAIN jobs \/ tab[u].canonical = NULL
      BY DEF UpsertRow, RowFrom
    <3> QED
      BY <2>1, <3>1, UpsertRowKeeps
  <2> HIDE DEF tab
  <2>3. FlatTable(tab)
    BY <2>2 DEF FlatTable, IInv, Flat
  <2>4. /\ Canonical(tab, a) = Canonical(tab, b)
        /\ tab[a].canonical = jobs[a].canonical
    BY <2>2 DEF Canonical
  <2>5. CASE tab[u].canonical # NULL /\ jobs' = tab
    BY <2>4, <2>5
  <2>6. CASE tab[u].canonical = NULL /\ jobs' \in ResolveDuplicates(tab, u)
    <3>1. u \in DOMAIN tab /\ a \in DOMAIN tab /\ b \in DOMAIN tab
      BY <2>2
    <3> QED
      BY <2>2, <2>3, <2>4, <2>6, <3>1, ResolveMovesGroups
  <2> QED
    BY <1>1, <2>5, <2>6 DEF UpsertJob, tab
<1>2. CASE DeactivateStaleJobs
  <2>1. IsTable(jobs) /\ jobs' = Deactivate(jobs, Stale(jobs, now))
    BY <1>2 DEF DeactivateStaleJobs, IInv, TypeOK
  <2>2. \A v \in DOMAIN jobs : jobs'[v].canonical = jobs[v].canonical
    BY <2>1, DeactivateKeeps
  <2> QED
    BY <2>2 DEF Canonical
<1>3. CASE Tick
  BY <1>3 DEF Tick
<1> QED
  BY <1>1, <1>2, <1>3 DEF Next

\* A dedup decision is never clobbered: rows merged by any scrape stay merged
\* through every later scrape, merge and sweep.
THEOREM MergesAreNeverUndone == Spec => MergesAreForever
BY IInvAlways, NextMovesGroups, PTL DEF Spec, MergesAreForever

----------------------------------------------------------------------------
(* The canonical posting is the earliest one, if dates stay put *)

\* Every listing a url serves carries the same posted_at.
FixedDates ==
    \A u \in Urls : \A k, l \in Serves[u] : k.posted = l.posted

\* A row carries the date its url serves.
DatesServed ==
    \A u \in DOMAIN jobs : \A l \in Serves[u] : jobs[u].posted = l.posted

EInv == IInv /\ DatesServed /\ CanonicalIsEarliest

\* Resolution points each loser, and each row that pointed at one, at a row
\* none of them is preferred over.
LEMMA ResolveKeepsEarliest ==
    ASSUME NEW t, IsTable(t), FlatTable(t), NEW u \in DOMAIN t,
           t[u].canonical = NULL, NEW r \in ResolveDuplicates(t, u),
           \A v \in DOMAIN t : t[v].canonical # NULL =>
               ~PostedBefore(t[v], t[t[v].canonical]),
           NEW v \in DOMAIN r, r[v].canonical # NULL
    PROVE  ~PostedBefore(r[v], r[r[v].canonical])
<1> DEFINE group == {u} \cup Candidates(t, u)
<1>1. PICK w \in group :
        /\ w \in DOMAIN t
        /\ \A x \in group : ~PostedBefore(t[x], t[w])
        /\ \A x \in DOMAIN t :
             /\ r[x].canonical =
                  IF x \in group \ {w} \/ t[x].canonical \in group \ {w}
                  THEN w ELSE t[x].canonical
             /\ r[x].posted = t[x].posted
             /\ r[x].firstSeen = t[x].firstSeen
  BY ResolveEffect
<1>2. DOMAIN r = DOMAIN t
  BY ResolveEffect
<1>3. \A x, y \in DOMAIN t : PostedBefore(r[x], r[y]) <=> PostedBefore(t[x], t[y])
  BY <1>1 DEF PostedBefore
<1>4. NULL \notin group /\ \A x \in group : x \in DOMAIN t
  BY NullAssumption DEF Candidates, IsTable
<1>5. \A x \in DOMAIN t : t[x] \in Row
  BY DEF IsTable
<1> HIDE DEF group
<1>6. CASE v \in group \ {w}
  BY <1>1, <1>2, <1>3, <1>6
<1>7. CASE v \notin group \ {w} /\ t[v].canonical \in group \ {w}
  <2> DEFINE x == t[v].canonical
  <2>1. ~PostedBefore(t[v], t[x]) /\ ~PostedBefore(t[x], t[w]) /\ x \in DOMAIN t
    BY <1>1, <1>2, <1>4, <1>7
  <2>2. ~PostedBefore(t[v], t[w])
    BY <1>1, <1>2, <1>5, <2>1, NotBeforeTransitive
  <2> QED
    BY <1>1, <1>2, <1>3, <1>7, <2>2
<1>8. CASE v \notin group \ {w} /\ t[v].canonical \notin group \ {w}
  <2>1. r[v].canonical = t[v].canonical /\ t[v].canonical # NULL
    BY <1>1, <1>2, <1>8
  <2>2. t[v].canonical \in DOMAIN t
    BY <1>2, <2>1 DEF FlatTable
  <2> QED
    BY <1>2, <1>3, <2>1, <2>2
<1> QED
  BY <1>6, <1>7, <1>8

\* Store.UpsertJob keeps EInv when dates stay put.
LEMMA UpsertJobKeepsEInv ==
    ASSUME FixedDates, EInv, NEW u \in Urls, NEW l \in Serves[u], UpsertJob(u, l)
    PROVE  DatesServed' /\ CanonicalIsEarliest'
<1> DEFINE tab == UpsertRow(jobs, u, l, now)
<1>1. l \in Listing /\ IsTable(jobs) /\ now \in Nat
  BY ServesAssumption DEF EInv, IInv, TypeOK
<1>2. /\ IsTable(tab)
      /\ DOMAIN tab = DOMAIN jobs \cup {u}
      /\ \A v \in DOMAIN jobs : tab[v].canonical = jobs[v].canonical
      /\ \A v \in DOMAIN jobs : v # u => tab[v] = jobs[v]
      /\ tab[u].posted = l.posted
      /\ u \in DOMAIN jobs \/ tab[u].canonical = NULL
      /\ u \in DOMAIN jobs => tab[u].firstSeen = jobs[u].firstSeen
  <2>1. u \in DOMAIN jobs \/ tab[u].canonical = NULL
    BY DEF UpsertRow, RowFrom
  <2> QED
    BY <1>1, <2>1, UpsertRowKeeps, ZenonT(40)
<1> HIDE DEF tab
<1>3. FlatTable(tab)
  BY <1>2 DEF FlatTable, EInv, IInv, Flat
<1>4. \A v \in DOMAIN jobs :
        /\ tab[v].posted = jobs[v].posted
        /\ tab[v].firstSeen = jobs[v].firstSeen
  BY <1>2 DEF EInv, DatesServed
<1>5. \A v \in DOMAIN tab : \A k \in Serves[v] : tab[v].posted = k.posted
  <2> SUFFICES ASSUME NEW v \in DOMAIN tab, NEW k \in Serves[v]
               PROVE  tab[v].posted = k.posted
    OBVIOUS
  <2>1. CASE v = u
    BY <1>2, <2>1 DEF FixedDates
  <2>2. CASE v # u
    BY <1>2, <2>2 DEF EInv, DatesServed
  <2> QED
    BY <2>1, <2>2
<1>6. \A v \in DOMAIN tab : tab[v].canonical # NULL =>
        ~PostedBefore(tab[v], tab[tab[v].canonical])
  <2> SUFFICES ASSUME NEW v \in DOMAIN tab, tab[v].canonical # NULL
               PROVE  ~PostedBefore(tab[v], tab[tab[v].canonical])
    OBVIOUS
  <2>1. /\ v \in DOMAIN jobs
        /\ jobs[v].canonical = tab[v].canonical
        /\ tab[v].canonical \in DOMAIN jobs
    BY <1>2 DEF EInv, IInv, Flat
  <2>2. ~PostedBefore(jobs[v], jobs[jobs[v].canonical])
    BY <2>1 DEF EInv, CanonicalIsEarliest
  <2> QED
    BY <1>4, <2>1, <2>2 DEF PostedBefore
<1>7. CASE tab[u].canonical # NULL /\ jobs' = tab
  BY <1>5, <1>6, <1>7 DEF DatesServed, CanonicalIsEarliest
<1>8. CASE tab[u].canonical = NULL /\ jobs' \in ResolveDuplicates(tab, u)
  <2>1. u \in DOMAIN tab
    BY <1>2
  <2>2. CanonicalIsEarliest'
    BY <1>2, <1>3, <1>6, <1>8, <2>1, ResolveKeepsEarliest DEF CanonicalIsEarliest
  <2>3. DOMAIN jobs' = DOMAIN tab /\ \A v \in DOMAIN tab : jobs'[v].posted = tab[v].posted
    BY <1>2, <1>8, <2>1, ResolveEffect
  <2> QED
    BY <1>5, <2>2, <2>3 DEF DatesServed
<1> QED
  BY <1>7, <1>8 DEF UpsertJob, tab

\* Every step keeps EInv when dates stay put.
LEMMA NextKeepsEInv ==
    ASSUME FixedDates
    PROVE  EInv /\ [Next]_vars => EInv'
<1> SUFFICES ASSUME EInv, [Next]_vars PROVE DatesServed' /\ CanonicalIsEarliest'
  BY NextKeepsIInv DEF EInv
<1>1. ASSUME NEW u \in Urls, NEW l \in Serves[u], UpsertJob(u, l)
      PROVE  DatesServed' /\ CanonicalIsEarliest'
  BY <1>1, UpsertJobKeepsEInv
<1>2. CASE DeactivateStaleJobs
  <2>1. IsTable(jobs) /\ jobs' = Deactivate(jobs, Stale(jobs, now))
    BY <1>2 DEF DeactivateStaleJobs, EInv, IInv, TypeOK
  <2>2. /\ DOMAIN jobs' = DOMAIN jobs
        /\ \A v \in DOMAIN jobs :
             /\ jobs'[v].canonical = jobs[v].canonical
             /\ jobs'[v].posted = jobs[v].posted
             /\ jobs'[v].firstSeen = jobs[v].firstSeen
    BY <2>1, DeactivateKeeps
  <2>3. \A v \in DOMAIN jobs : jobs[v].canonical # NULL => jobs[v].canonical \in DOMAIN jobs
    BY DEF EInv, IInv, Flat
  <2> QED
    BY <2>2, <2>3 DEF EInv, DatesServed, CanonicalIsEarliest, PostedBefore
<1>3. CASE Tick
  BY <1>3 DEF Tick, EInv, DatesServed, CanonicalIsEarliest
<1>4. CASE UNCHANGED vars
  BY <1>4 DEF vars, EInv, DatesServed, CanonicalIsEarliest
<1> QED
  BY <1>1, <1>2, <1>3, <1>4 DEF Next

\* If no source ever changes the date of a posting, the canonical row of every
\* group is always one that no duplicate of it precedes.  The hypothesis is
\* needed: a canonical row whose date UpsertJob moves forward is compared with
\* other canonical rows only, and stays canonical over its own duplicates.
THEOREM CanonicalStaysEarliest ==
    ASSUME FixedDates
    PROVE  Spec => []CanonicalIsEarliest
<1>1. Init => EInv
  BY InitEstablishesIInv DEF Init, EInv, DatesServed, CanonicalIsEarliest
<1>2. EInv /\ [Next]_vars => EInv'
  BY NextKeepsEInv
<1>3. EInv => CanonicalIsEarliest
  BY DEF EInv
<1> QED
  BY <1>1, <1>2, <1>3, PTL DEF Spec

----------------------------------------------------------------------------
(* Dedup implements Groups *)

\* Resolution merges the groups of u and its candidates under the winner, as
\* See does: a row follows its representative.
LEMMA ResolveMerges ==
    ASSUME NEW t, IsTable(t), FlatTable(t), NEW u \in DOMAIN t,
           t[u].canonical = NULL, NEW r \in ResolveDuplicates(t, u)
    PROVE  /\ DOMAIN r = DOMAIN t
           /\ \A v \in {u} \cup Candidates(t, u) : v \in DOMAIN t /\ Canonical(t, v) = v
           /\ \E w \in {u} \cup Candidates(t, u) : \A v \in DOMAIN t :
                Canonical(r, v) = IF Canonical(t, v) \in {u} \cup Candidates(t, u)
                                  THEN w ELSE Canonical(t, v)
<1> DEFINE group == {u} \cup Candidates(t, u)
<1>1. PICK w \in group :
        /\ w \in DOMAIN t
        /\ t[w].canonical = NULL
        /\ \A v \in DOMAIN t :
             r[v].canonical =
                  IF v \in group \ {w} \/ t[v].canonical \in group \ {w}
                  THEN w ELSE t[v].canonical
  BY ResolveEffect
<1>2. DOMAIN r = DOMAIN t
  BY ResolveEffect
<1>3. NULL \notin group /\ \A v \in group : v \in DOMAIN t /\ t[v].canonical = NULL
  BY NullAssumption DEF Candidates, IsTable
<1> HIDE DEF group
<1>4. \A v \in group : v \in DOMAIN t /\ Canonical(t, v) = v
  BY <1>3 DEF Canonical
<1>5. ASSUME NEW v \in DOMAIN t
      PROVE  Canonical(r, v) = IF Canonical(t, v) \in group THEN w ELSE Canonical(t, v)
  <2>1. CASE t[v].canonical = NULL
    BY <1>1, <1>3, <2>1 DEF Canonical
  <2>2. CASE t[v].canonical # NULL
    <3>1. v \notin group /\ Canonical(t, v) = t[v].canonical
      BY <1>3, <2>2 DEF Canonical
    <3>2. w # NULL
      BY <1>3
    <3> QED
      BY <1>1, <2>2, <3>1, <3>2 DEF Canonical
  <2> QED
    BY <2>1, <2>2
<1> QED
  BY <1>1, <1>2, <1>4, <1>5 DEF group

\* One call of UpsertJob is one posting seen.
LEMMA UpsertJobIsSee ==
    ASSUME IInv, NEW u \in Urls, NEW l \in Serves[u], UpsertJob(u, l)
    PROVE  G!See(u)
<1> DEFINE tab == UpsertRow(jobs, u, l, now)
           seen == G!Seen(u)
<1>1. l \in Listing /\ IsTable(jobs) /\ now \in Nat
  BY ServesAssumption DEF IInv, TypeOK
<1>2. /\ IsTable(tab)
      /\ DOMAIN tab = DOMAIN jobs \cup {u}
      /\ \A v \in DOMAIN jobs : tab[v].canonical = jobs[v].canonical
      /\ u \in DOMAIN jobs \/ tab[u].canonical = NULL
  <2>1. u \in DOMAIN jobs \/ tab[u].canonical = NULL
    BY DEF UpsertRow, RowFrom
  <2> QED
    BY <1>1, <2>1, UpsertRowKeeps, ZenonT(40)
<1> HIDE DEF tab
<1>3. FlatTable(tab)
  BY <1>2 DEF FlatTable, IInv, Flat
<1>4. seen = [q \in DOMAIN tab |-> Canonical(tab, q)]
  BY <1>2 DEF G!Seen, Representatives, Canonical
<1> HIDE DEF seen
<1>5. SUFFICES ASSUME NEW merged, NEW w \in merged,
                      merged \subseteq {seen[q] : q \in DOMAIN seen},
                      seen[u] \in merged,
                      DOMAIN jobs' = DOMAIN tab,
                      \A q \in DOMAIN tab : Canonical(jobs', q) =
                          IF Canonical(tab, q) \in merged THEN w ELSE Canonical(tab, q)
               PROVE  G!See(u)
  <2>1. CASE tab[u].canonical # NULL /\ jobs' = tab
    <3>1. \A q \in DOMAIN tab : Canonical(jobs', q) =
             IF Canonical(tab, q) \in {seen[u]} THEN seen[u] ELSE Canonical(tab, q)
      BY <2>1
    <3>2. {seen[u]} \subseteq {seen[q] : q \in DOMAIN seen}
      BY <1>2, <1>4
    <3> QED
      BY <1>5, <2>1, <3>1, <3>2
  <2>2. CASE tab[u].canonical = NULL /\ jobs' \in ResolveDuplicates(tab, u)
    <3> DEFINE group == {u} \cup Candidates(tab, u)
    <3>1. u \in DOMAIN tab
      BY <1>2
    <3>2. /\ DOMAIN jobs' = DOMAIN tab
          /\ \A v \in group : v \in DOMAIN tab /\ Canonical(tab, v) = v
          /\ \E w \in group : \A q \in DOMAIN tab : Canonical(jobs', q) =
               IF Canonical(tab, q) \in group THEN w ELSE Canonical(tab, q)
      BY <1>2, <1>3, <2>2, <3>1, ResolveMerges
    <3>3. u \in group
      OBVIOUS
    <3> HIDE DEF group
    <3>4. group \subseteq {seen[q] : q \in DOMAIN seen}
      BY <1>4, <3>2
    <3>5. seen[u] \in group
      BY <1>4, <3>1, <3>2, <3>3
    <3> QED
      BY <1>5, <3>2, <3>4, <3>5
  <2> QED
    BY <2>1, <2>2 DEF UpsertJob, tab
<1>6. Representatives' = [q \in DOMAIN seen |-> IF seen[q] \in merged THEN w ELSE seen[q]]
  BY <1>4, <1>5 DEF Representatives
<1>7. merged \in SUBSET {seen[q] : q \in DOMAIN seen}
  BY <1>5
<1> QED
  BY <1>5, <1>6, <1>7 DEF G!See, seen

\* Every step is one of Groups, or changes nothing a reader could notice.
LEMMA NextIsGroupsNext == IInv /\ [Next]_vars => [G!Next]_Representatives
<1> SUFFICES ASSUME IInv, [Next]_vars PROVE [G!Next]_Representatives
  OBVIOUS
<1>1. ASSUME NEW u \in Urls, NEW l \in Serves[u], UpsertJob(u, l)
      PROVE  G!Next
  BY <1>1, UpsertJobIsSee DEF G!Next
<1>2. CASE DeactivateStaleJobs
  <2>1. IsTable(jobs) /\ jobs' = Deactivate(jobs, Stale(jobs, now))
    BY <1>2 DEF DeactivateStaleJobs, IInv, TypeOK
  <2>2. /\ DOMAIN jobs' = DOMAIN jobs
        /\ \A v \in DOMAIN jobs : jobs'[v].canonical = jobs[v].canonical
    BY <2>1, DeactivateKeeps
  <2> QED
    BY <2>2 DEF Representatives, Canonical
<1>3. CASE Tick \/ UNCHANGED vars
  BY <1>3 DEF Tick, vars, Representatives, Canonical
<1> QED
  BY <1>1, <1>2, <1>3 DEF Next

\* Dedup implements the specification of groups that are merged and never
\* split: to whoever follows canonical_job_id, UpsertJob merges whole groups
\* under the representative of one of them, and nothing else changes groups.
THEOREM DedupImplementsGroups == Spec => KeepsGroups
<1>1. Init => G!Init
  BY DEF Init, G!Init, Representatives
<1> QED
  BY <1>1, IInvAlways, NextIsGroupsNext, PTL DEF Spec, KeepsGroups, G!Spec
=============================================================================
