----------------------------- MODULE JobsTable -----------------------------
(***************************************************************************)
(* The jobs table of loker-id and the SQL statements of db/queries/jobs.sql *)
(* the store runs against it.  There is no state here: a table is a value,  *)
(* a function from the keys it holds to rows, and each operator below is    *)
(* one statement.  Dedup composes them into whole transactions, DedupTx     *)
(* interleaves them statement by statement.                                 *)
(*                                                                          *)
(* A row is named by its unique key (source_id, source_url), here a member  *)
(* of Urls; the generated uuid is one-to-one with it.  Of a row's content   *)
(* only what dedup and the sweep read is kept: fingerprint, company,        *)
(* normalized title, posted_at and the two seen timestamps.                 *)
(***************************************************************************)
EXTENDS Integers

CONSTANTS
    Urls,           \* the (source_id, source_url) keys scrapers come across
    Fingerprints,   \* values of jobs.fingerprint
    Companies,      \* company ids
    Titles,         \* values of jobs.title_normalized
    SimilarTitles,  \* pairs of titles whose trigram similarity exceeds 0.7
    NULL,           \* SQL NULL
    StaleAfter      \* staleAfterDays, in ticks of the clock

ASSUME NullAssumption == NULL \notin Urls /\ NULL \notin Nat

\* pg_trgm's similarity() is symmetric, and 1 for equal strings.
ASSUME SimilarAssumption ==
    /\ SimilarTitles \subseteq Titles \X Titles
    /\ \A a, b \in Titles :
          /\ <<a, a>> \in SimilarTitles
          /\ <<a, b>> \in SimilarTitles => <<b, a>> \in SimilarTitles

ASSUME StaleAssumption == StaleAfter \in Nat

----------------------------------------------------------------------------
(* Rows and listings *)

\* What one scrape says of a posting: store.UpsertJobParams.
Listing ==
    [fingerprint : Fingerprints, company : Companies, title : Titles,
     posted : Nat \cup {NULL}]

\* A row of the jobs table.
Row ==
    [fingerprint : Fingerprints, company : Companies, title : Titles,
     posted : Nat \cup {NULL}, firstSeen : Nat, lastSeen : Nat,
     active : BOOLEAN, canonical : Urls \cup {NULL}]

IsTable(t) == DOMAIN t \subseteq Urls /\ t \in [DOMAIN t -> Row]

\* Two rows look like the same posting: an exact fingerprint match, or the
\* same company with a fuzzy-matching title.
Matches(a, b) ==
    \/ a.fingerprint = b.fingerprint
    \/ a.company = b.company /\ <<a.title, b.title>> \in SimilarTitles

\* Mutant of RowFrom: an unknown date stored as a zero timestamp.
RowWithZeroDate(l, first, now, canonical) ==
    [fingerprint |-> l.fingerprint, company |-> l.company, title |-> l.title,
     posted |-> IF l.posted = NULL THEN -1 ELSE l.posted, firstSeen |-> first,
     lastSeen |-> now, active |-> TRUE, canonical |-> canonical]

\* The row a listing becomes.
RowFrom(l, first, now, canonical) ==
    [fingerprint |-> l.fingerprint, company |-> l.company, title |-> l.title,
     posted |-> l.posted, firstSeen |-> first, lastSeen |-> now,
     active |-> TRUE, canonical |-> canonical]

----------------------------------------------------------------------------
(* Statements *)

\* Mutant of Refresh: the dedup decision is in the SET list after all.
RefreshForgetting(r, l, now) == RowFrom(l, r.firstSeen, now, NULL)

\* The ON CONFLICT branch of UpsertJob: every content column is overwritten,
\* the row is seen again and active again; canonical_job_id and
\* first_seen_at are not in the SET list.
Refresh(r, l, now) == RowFrom(l, r.firstSeen, now, r.canonical)

\* UpsertJob: INSERT ... ON CONFLICT (source_id, source_url) DO UPDATE.
UpsertRow(t, u, l, now) ==
    [v \in DOMAIN t \cup {u} |->
        IF v # u THEN t[v]
        ELSE IF u \in DOMAIN t THEN Refresh(t[u], l, now)
        ELSE RowFrom(l, now, now, NULL)]

\* Mutant of Candidates: filtered on is_active, as ListJobs is.
ActiveCandidates(t, u) ==
    {v \in DOMAIN t \ {u} :
        t[v].canonical = NULL /\ t[v].active /\ Matches(t[v], t[u])}

\* FindDuplicateCandidates: the other canonical rows that match row u,
\* active or not.
Candidates(t, u) ==
    {v \in DOMAIN t \ {u} : t[v].canonical = NULL /\ Matches(t[v], t[u])}

\* ReparentDuplicates, and the rows it touches.
PointingAt(t, old) == {v \in DOMAIN t : t[v].canonical = old}

ReparentDuplicates(t, new, old) ==
    [v \in DOMAIN t |->
        IF v \in PointingAt(t, old) THEN [t[v] EXCEPT !.canonical = new] ELSE t[v]]

\* Mutant of Stale: the borderline row is swept too.
StaleOrBorderline(t, now) ==
    {v \in DOMAIN t : t[v].active /\ t[v].lastSeen <= now - StaleAfter}

\* The rows DeactivateStaleJobs turns off: last_seen_at < NOW() - interval.
Stale(t, now) ==
    {v \in DOMAIN t : t[v].active /\ t[v].lastSeen < now - StaleAfter}

\* DeactivateStaleJobs.
Deactivate(t, rows) ==
    [v \in DOMAIN t |->
        IF v \in rows THEN [t[v] EXCEPT !.active = FALSE] ELSE t[v]]

----------------------------------------------------------------------------
(* The choice of a canonical row *)

\* postedBefore: a known posted_at beats an unknown one, then the earlier
\* posted_at wins, then the earlier first_seen_at.
PostedBefore(a, b) ==
    \/ a.posted # NULL /\ b.posted = NULL
    \/ a.posted # NULL /\ b.posted # NULL /\ a.posted < b.posted
    \/ a.posted = b.posted /\ a.firstSeen < b.firstSeen

\* Mutant of CanonicalOf: the incumbent wins whatever the dates.
IncumbentOf(t, group, u) == IF group = {u} THEN {u} ELSE group \ {u}

\* canonicalOf: the scan starts at u, the job just upserted, and moves only
\* to a strictly better one, so u wins a tie it is part of.  Which of several
\* tied candidates wins depends on the unspecified order SQL returns them in.
CanonicalOf(t, group, u) ==
    LET best == {v \in group : \A w \in group : ~PostedBefore(t[w], t[v])}
    IN  IF u \in best THEN {u} ELSE best

\* Mutant of PointAllAt: the losers' own duplicates are left behind.
MarkOnly(t, losers, w) ==
    [v \in DOMAIN t |->
        IF v \in losers THEN [t[v] EXCEPT !.canonical = w] ELSE t[v]]

\* The loop of resolveDuplicates, all losers done: each is marked as a
\* duplicate of the winner and what pointed at it is reparented.
PointAllAt(t, losers, w) ==
    [v \in DOMAIN t |->
        IF v \in losers \/ t[v].canonical \in losers
        THEN [t[v] EXCEPT !.canonical = w]
        ELSE t[v]]

\* resolveDuplicates: the tables it can leave behind.
ResolveDuplicates(t, u) ==
    LET group == {u} \cup Candidates(t, u)
    IN  {PointAllAt(t, group \ {w}, w) : w \in CanonicalOf(t, group, u)}
=============================================================================
