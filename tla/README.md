# loker-id in TLA+

loker-id scrapes job postings, normalises them, stores them in Postgres with
duplicates merged, and serves them over HTTP. These modules model the part of it
in which order, concurrency and failure matter (dedup, the transactions it runs
in, the reads over HTTP, the scrape pipeline and the scraper) and the text functions
between a posting and its row. TLC checks small instances; TLAPS proves,
for every instance, the invariants of dedup, of its transactions, of the reads, of the pipeline
and of the scraper, two refinements, and of the text functions what does not
hang on particular words.

## The system

| component | state | operations | what makes it correct |
|---|---|---|---|
| jobs table (`db/queries/jobs.sql`, `migrations/001_init.sql`) | rows keyed by (source_id, source_url): content, `canonical_job_id`, `posted_at`, `first_seen_at`, `last_seen_at`, `is_active` | the SQL statements | one row per key; a re-scrape keeps the dedup decision |
| dedup (`internal/store/jobs.go`, `dedup.go`) | none of its own | `UpsertJob`, `resolveDuplicates` | duplicates form flat groups round the earliest posting; no match is missed; merges last |
| sweep (`internal/store/maintenance.go`) | none | `DeactivateStaleJobs` | only rows unseen for longer than the threshold are turned off |
| pipeline (`internal/pipeline`) | `RunResult`, the `scrape_runs` row, `sources.last_run_at`, companies | `Run`, `processJob` | one bad posting costs only itself; totals add up; every run ends and says so |
| trigger (`internal/server/scrape.go`) | none: a goroutine per request | `handleTriggerScrape` | runs may overlap and must tolerate it |
| server process (`cmd/server`) | the goroutines | start, shutdown | no run is left dangling (it is, see the findings) |
| Kalibrr scraper (`internal/scraper/kalibrr.go`, `backoff.go`) | the shared field `result` | `Scrape`, `scrapeKeyword`, `fetchPage`, the colly callbacks, `withBackoff` | partial results, never a silent loss; bounded work |
| listing (`store.ListJobs`, `server/jobs.go`, `cursor.go`) | none; the client holds a cursor | list, detail | a walk shows each row that stays put, once, and ends |
| statistics (`internal/store/stats.go`, `internal/server/stats.go`) | none | three counts | add up as long as the table is at rest |
| normalizer (`internal/normalizer`) | none: pure text functions | `Normalize` and what it calls | a key no cosmetic edit changes; words, level, place, mode and technologies are those meant |
| salary parser (`internal/parser`) | none: pure | `ParseSalary` | right amounts, and none where none is stated |
| HTTP plumbing, configuration, pool, test database | none worth a model | | |

A trigger starts a goroutine on `context.Background()`; the goroutine calls the
one registered scraper, then, posting by posting, `UpsertCompany` and
`UpsertJob`, then three cleanup calls. Nothing keeps two runs apart: they share
the scraper object, the tables and the sweep. The behaviours that are hard to
test are the overlaps (of transactions, of fetches, of a sweep with an upsert),
what is left after a failure, a cancellation or an exit between two calls, and
long sequences of re-scrapes whose content changes. `PROJECT.json` lists them at
their lines under "hazards".

## The modules

| module | models | interacts with |
|---|---|---|
| `JobsTable` | the jobs table as a value and each statement, and `canonicalOf`/`postedBefore`, as operators | extended by `Dedup`, `DedupTx` and `Pipeline` |
| `Dedup` | whole store calls as atomic steps: what the store's comments promise | refined by `DedupTx` with one worker |
| `Groups` | what dedup promises whoever follows `canonical_job_id`: postings form groups that merge, never split, and keep their representative until they merge | implemented by `Dedup` |
| `JobsTableProofs` | what the statements and the resolution do to any table, as lemmas | used by the proofs of all that use `JobsTable` |
| `Sums` | sums over finite sets, flattened sequences, and induction by smallest counterexample | used by the proofs that count or fold |
| `DedupProofs` | the theorems about `Dedup` | extends `Dedup` and `JobsTableProofs` |
| `Paging` | `handleListJobs`, `ListJobs`, `NextCursor`: a client's walk over a table that `Dedup` goes on changing | extends `Dedup` and composes its steps with the client's |
| `Reads` | `handleGetJob` and `handleStats`, a step for each of their queries | extends `Paging`; composes both with the walk and with the steps of `Dedup` |
| `ReadsProofs` | the theorems about `Paging` and `Reads` | extends `Reads`, `DedupProofs` and `Sums` |
| `DedupTx` | the same calls statement by statement, for several runs, as Postgres interleaves them | `INSTANCE Dedup` in `AtomicSpec` |
| `DedupTxProofs` | the theorems about `DedupTx` | extends `DedupTx`; takes two theorems over from `DedupProofs` by `INSTANCE` |
| `Pipeline` | `Run` and `processJob` over the store, the trigger, cancellation and process exit | uses the statements of `JobsTable` |
| `PipelineProofs` | the theorems about `Pipeline` | extends `Pipeline`, `JobsTableProofs` and `Sums` |
| `KalibrrScraper` | the scraper and its backoff | its result is the `raws` of `Pipeline`'s `Scrape` |
| `KalibrrProofs` | the theorems about `KalibrrScraper` | extends `KalibrrScraper`, and `Sums` for induction |
| `Text` | what regular expressions see of a text: fragments, blanks, marks, `\b` | used by the next four |
| `DedupKeys` | `NormalizeTitle`, `NormalizeCompany`, `Fingerprint` | |
| `Description` | `SanitizeDescription` | |
| `Classify` | `DetectMode`, `DetectLevel`, `extractCity`, `ExtractStack` | |
| `Salary` | `ParseSalary`, `salaryBoundsToDB` | |
| `Ingest` | `toRawJob` and `Normalize` over a posting its employer keeps rewriting | extends `Classify` (and with it `DedupKeys`), `Description` and `Salary` |
| `IngestProofs` | the theorems about `Ingest` | extends `Ingest` and `Sums` |
| `MCDedup`, `MCPaging`, `MCIngest`, `MCDedupTx`, `MCPipeline`, `MCKalibrr` | the instances TLC runs | |

Correspondence, beyond what the comments in the modules say:

* **A row is named by its unique key.** The uuid `id` is generated once per key, so
  `canonical_job_id` is modelled as the key of the row it refers to. Rows are never
  deleted by this code. Of the content, dedup reads the fingerprint, the company, the
  normalized title and the date; the rest is left out.
* **Trigram similarity is a relation**, reflexive and symmetric and *not* assumed
  transitive. `posted_at` is a number or NULL; a NULL compares as `postedBefore` says.
* **`CanonicalOf` is a set.** `canonicalOf` scans from the new row and moves to a
  strictly better one only; when candidates tie, which one wins depends on an order SQL
  does not specify. The model allows each of them.
* **In `Paging` the listing is a set of entries**, key and date, in the order of the query:
  an unknown date counts as -1, below every known one, as `-infinity` does. A page is a
  subset that comes before the rest. The uuid matters here, as the tie-break, so each key
  gets one (`Id`). All filters together are one predicate on content (`Wanted`). The cursor
  string carries the date in full precision and leaves it out when there is none, so
  encoding and decoding it gives the cursor back. `steady` is a history variable: the
  entries listed, with the same date, ever since the first request.
* **In `Reads` a request is its queries.** `request` holds what they have returned so far; the
  table changes between any two and while the client looks at the answer. A row's
  technologies are those of its title. `quiet` is a history variable: the table has not
  changed since the first of the three queries of `handleStats`.
* **In the text modules a text is a sequence of atoms**: a word fragment, a blank, a mark or a
  tag. Fragments side by side are one word, so `Doc<b>ker</b>` is a fragment, a tag, a
  fragment and a tag, and a word boundary is where a fragment has no neighbour. Wording
  is immaterial beyond the words the code looks for. The figure-reading patterns of
  `classify.go` are sequences of required and optional words, matched leftmost; salary
  texts are numbers (groups of digits), units and words of the kinds `parser.go` tells apart.
* **In `Ingest` a posting is kept as it is meant**, and its texts are computed from that, so a
  property can compare what was meant with what the program reads back. The step is an edit
  and the scrape after it: `row` holds the columns.
* **In `DedupTx` the state of a transaction is its own row versions** (`local[w]`),
  whose domain is also the set of rows it has locked. A statement reads
  `local[w] @@ db` as it is when the statement starts. An update waits while another
  transaction holds the row, then works on the newest version and re-evaluates its
  condition, which is why `ReparentDuplicates` and the sweep are a scan step followed by a
  step per row. `NOW()` is the start of the transaction. Foreign-key checks take a lock
  that does not conflict with these updates and are left out.
  `unsettled` is a history variable, explained under "What the runs show".
* **In `Pipeline` a store call is one step** that succeeds, or returns an error, its statement having taken
  effect or not: an error says nothing of which. This holds of each call, also of `CreateScrapeRun`, whose
  row may then be left at "running" by a `Run` that has returned an error. What happens in memory between two calls is
  a step of its own (`BeginJob` after the context check, `Tally` after `processJob` has returned), so that a
  cancellation or an exit may come in between. Once the run's context is canceled every call on it
  fails; the cleanup calls are on `context.WithoutCancel`. The jobs table is changed by one atomic upsert at a
  time: what becomes of overlapping upserts is the subject of `DedupTx`, and no property of dedup is claimed of `Pipeline`.
* **In `KalibrrScraper` a fetch is three steps**: `Attempt` clears `result`, `Visit`
  runs the callbacks, `Read` takes it back. That is where the lock is released.

## The runs

| run | module | question | bounds |
|---|---|---|---|
| `dedup` | `Dedup` | Do whole calls keep dedup flat, complete, earliest-first and irreversible, and implement `Groups`? | 4 urls (a group of two can be displaced, and two groups can be joined by a fourth row), 3 titles with t1 ~ t2 ~ t3 but not t1 ~ t3, ties and a missing date, clock up to 2 |
| `paging` | `Reads` | Does a walk go down only, skip nothing that stays put, and end? Does the page of a job show one group? Do the statistics add up? | 3 urls: one whose date moves, one that gains a date, loses its wanted title and is merged, one without a date; default limit 1, maximum 2, an int32 of 4 bits, requests with no limit, 1, 7 (clamped) and 9 (wraps); 3 sources, one without jobs, and 2 technologies, one on every job |
| `ingest` | `Ingest` | Do the columns of a row say what the posting means? | every legal form, level, badge and spacing of 2 companies and 2 titles, both with names that begin like what is deleted; all figures, flags, currencies and intervals Kalibrr can send; 4 amounts as ranges and singles in each notation; 11 ways to ask for 4 numbers of years, with an age before or after; all pairs of 11 spellings of technologies in 3 layouts; every HTML body of up to 4 tokens |
| `dedup_tx` | `DedupTx` | What holds when two runs' transactions overlap, and can the runs always go on? | 2 workers, 2 postings each of 3, all matching, the first served with dates 1, 3 and none, the second with 2, the third with none: every order of arrival displaces somebody, and the first changes places with the second when its date moves; each transaction a tick and the threshold 2 ticks, so rows do go stale; the workers are interchangeable, so states that differ in their names only count once |
| `dedup_tx_serial` | `DedupTx` | Do the statements of one run at a time implement `Dedup`? | 1 worker, 3 postings, changing dates and companies, failures anywhere |
| `dedup_race` | `DedupTx` | Is no match missed between transactions? *No.* | 2 workers, 2 postings each of 3, each with one date |
| `dedup_ring` | `DedupTx` | Does every group keep a canonical row? *No.* | as `dedup_tx` |
| `pipeline` | `Pipeline` | Are data, totals and the rows of `scrape_runs` right under overlapping runs, a failing call, a cancellation, an exit? | 2 runs (2 and 1 postings, repeats allowed), 1 fault, 1 exit, 1 cancelable run, clock up to 1, threshold 0 |
| `pipeline_live` | `Pipeline` | Does every run end, and one that was given its row reach a terminal state, canceled or not, if no call fails of itself? | 1 run, 2 postings, 1 fault, 1 exit |
| `pipeline_stuck` | `Pipeline` | Does every run that reaches its loop reach a terminal state? *No.* | as `pipeline_live` |
| `kalibrr` | `KalibrrScraper` | Is each search walked correctly and completely, and does it end? | 4 searches: one that overstates its total and re-serves its last page, one with a job in common, one empty, one longer than 3 pages; 3 attempts |
| `kalibrr_shared` | `KalibrrScraper` | Does a fetch deliver its own page when two runs share the scraper? *No.* | 2 goroutines, 1 search of 2 pages |

Deadlock is checked in the `DedupTx` runs, where waiting is what the model is
about. The other models stop on purpose: the clock reaches its bound, all runs are
over.

**Bounds are constants**, apart from five of `Ingest`: `OneThingAtATime` lets a posting differ from the
plain one only in parts that some function reads together (company with title, title with
years), since the functions are pure; `LaidOut` is explained below; `OneLevel` keeps words that stand for a level out of the
name of a title (`DetectLevel` looks for them anywhere), `NoForm` a legal form from the beginning of a company's bare name and
the word tbk from all of it (the code deletes both); `EightDigits` is how many digits of a figure the model writes out. `MaxTokens` bounds a body: 4
tokens are enough for a word, two tags around part of it and its neighbour. `MaxTime` bounds the clocks, `MaxItems`, `MaxRaw`,
`MaxFaults` and `MaxExits` the work and the failures, `MaxPages` and `MaxRetries` are the program's
own. A third worker in `DedupTx` adds longer waiting cycles but no new kind of
conflict: every conflict is between a reader and one writer, or two writers of one row.

**Fairness** is weak fairness of what a single goroutine does next:
Go schedules a runnable goroutine, and every request and call has an end. In `Paging`
it is the client that goes on asking. Nothing is assumed of triggers, cancellations, faults, exits or the clock.
`DedupTx` needs no fairness: that its runs end follows from `NoStandstill`, since a run has a number of
postings, each step of it takes it further, and Postgres executes a statement that waits for nothing and looks for
deadlocks (`DeadlockVictim`).

## What the runs show

*Atomic calls.* With fixed dates everything the comments promise holds, also
when titles and companies change between scrapes and the similarity is not
transitive. `CanonicalIsEarliest` needs the dates fixed: the conflict branch of `UpsertJob`
overwrites `posted_at` (jobs.sql:50), and the row is then compared with other canonical rows
only, so that a canonical row whose source moves its date forward stays canonical over an
earlier duplicate, where the package comment (store.go:4-5) speaks of the earliest posting.
The moved dates are part of `paging` and of the `DedupTx` runs except `dedup_race`.

*Paging.* A page never goes back above an earlier one and never repeats an entry. A row
may be shown twice only if its date moved down between two requests, and missed only if it
moved up, was turned off, was merged or appeared behind the cursor. Absent, clamped and
wrapped limits give pages of another size than asked, but `NextCursor` is given the limit
that was used, so a nil cursor can be trusted. The walk ends even if the table never rests,
because the cursor only moves down.

*Reads.* The page of a job is made of two queries and still shows one group, because
merges are final. The statistics add up whenever the table did not change under them;
when it did, they need not, since the three queries share no transaction.

*Text.* For every posting enumerated the row says what was meant: legal forms, levels, badges and
spacing do not reach the fingerprint, the level taken out of the key is recorded, an age is not
taken for experience, a unit is shared by both sides of a range, figures that Kalibrr
hides or that are in another currency are not stored (nor is a zero shown alone, which `salaryRawText` and
`salaryBoundsToDB` take for "not stated"; beside another figure, or another zero, a shown zero is a bound and is stored), and markup neither splits nor
joins words. These texts are *not* read as a person would, and the enumeration leaves them out:

* a text node of white space alone between two inline tags, and text right after `</li>` or
  `</ul>`: the words on either side fuse (`LaidOut` excludes both from `MarkupKeepsWords`);
* a badge or a blank before the seniority word, which then stays in the key; `PT.X` without a blank;
* a second level in a title; a company called `CV ...` or `... tbk ...`, which loses that word;
* a city with a comma, or called after a work mode;
* an age before a bare `3+ years`, which hides it; `minimum 21 years old`, `usia minimal 18 tahun`,
  read as experience; `3-5 tahun pengalaman`, read by its upper bound;
* a unit on one side and the other number in full (`8jt - 12.000.000`); a currency other than the
  five in `foreignRe`, or one glued to its figure; `5.000.000,- - 8.000.000,-`;
* hourly and annual figures, stored as they are;
* flags for remote and hybrid work without a location, which are lost (`locationText`);
* an item `React` followed by an item that begins with `Native`.

*Overlapping transactions.* Two resolutions that do not see each other's
rows both keep theirs (`dedup_race`); the missed duplicate is
found again when either row is scraped next. One that decided on stale copies can point a row at a winner that has
itself been displaced: `Flat` does not hold of overlapping transactions either, and `ListDuplicatesOf` then
returns an incomplete set, which no later scrape repairs, since a row that is already a duplicate is never
resolved again.

The worst such decision takes a date that moves. `UpsertJob` overwrites `posted_at` (jobs.sql:50) while another
transaction may be deciding from the old one. With u1 and u2 both canonical after a race as above, one run
refreshes u2 and points it at u1, whose old date it sees, and the other refreshes u1 with a later date and points it
at u2; both commit (`dedup_ring`). The group has no canonical row then: `ListJobs` shows none of it, and no
later scrape resolves either row again.

What still holds, whatever the interleaving: no decision is lost, no fresh row is swept, no posting is counted as new
twice, and a deadlock costs a posting and not a run. No ring, and no duplicate pointing at a row it
would be preferred over, hold of *settled* rows only. A row is unsettled (`unsettled`, a history
variable no step reads) once its date has been overwritten with another one, or once it has been moved away from a row
that was unsettled then; the second clause is needed, since without it TLC finds a ring of rows that all kept their own dates.
If sources never move a date every row is settled, and races alone can then make chains, but neither
rings nor groups in the wrong order.

*Pipeline.* A failing call costs its posting, whichever half of `processJob` it is
in. A run whose row is finished without an error message has stored every posting it found
(`CleanRunsAreComplete`): a cancellation that cuts the loop short, or a failed posting, always leaves a message. `JobsNew`, over
all runs, is never more than the rows there are; it falls short of the canonical rows by no more
than the failures (an upsert may have committed though it returned an error) and one posting for each run cut off between
an upsert's commit and its count. A run whose `CreateScrapeRun` has returned finishes, also when canceled, as long as no call fails
of itself. A run whose process exits stays at "running" for good, as does one whose `FinishScrapeRun`
fails, and as does a row that `CreateScrapeRun` inserted while it returned an error: `Run` is left at pipeline.go:106-109 without
the row's id. This last case needs only a context canceled while the INSERT is in flight, and is why
`CanceledRunsFinish` and `NoRunStaysRunning` start where `CreateScrapeRun` has returned.

*Scraper.* Alone it gathers exactly the first pages of each search and
reports whatever it could not fetch. Shared by two runs it can take the other's page
for its own; colly serialises the requests of one collector, which leaves only the window between
`Visit` and the read.

## What is proved

Every theorem is for all values of the constants: every set of urls, titles, companies and
fingerprints, every similarity relation that is reflexive and symmetric, every assignment of
listings to urls and every threshold; of a walk, every filter, limit and choice of uuids; of
transactions and runs, any number of them; of a scraper, any site; of an ingest, any names, cities, figures and HTML
of any length that meet the assumptions below.

| theorem | property |
|---|---|
| `TypeCorrect` | `TypeOK` of `Dedup` |
| `DuplicatesAreFlat` | `Flat` |
| `NoDuplicateMissed` | `NoMissedDuplicate` |
| `MergesAreNeverUndone` | `MergesAreForever` |
| `CanonicalStaysEarliest` | `CanonicalIsEarliest`, assuming each url keeps its date |
| `DedupImplementsGroups` | `KeepsGroups`: `Dedup` refines `Groups` |
| `WalkGoesDown`, `WalkIsComplete` | `PagesInOrder`, `NothingSkipped` |
| `WalkAmongReads` | `WalkTypeOK`, and the walk's two promises, with the other reads in between |
| `DetailAgrees` | `DetailIsOneGroup` |
| `StatsAgree` | `StatsAddUp` |
| `TxTypeOK` | `TypeOK` of `DedupTx` |
| `TxKeepsDecisions` | `DecisionsAreKept` |
| `TxCountsNewOnce` | `NewOnce` |
| `TxSweepsStaleOnly` | `InactiveOnlyIfStale` |
| `TxKeepsOrder`, `TxHasNoRing` | `CanonicalIsEarlier`, `NoRing` (of settled rows) |
| `TxIsAtomic` | `AtomicSpec`, assuming one run at a time: `DedupTx` refines `Dedup` |
| `TxAloneMissesNone`, `TxAloneIsFlat` | `NoMissedDuplicate`, `Flat` of `DedupTx`, assuming one run at a time |
| `RunsTypeOK` | `TypeOK` of `Pipeline` |
| `RunsCompanyFirst` | `CompanyComesFirst` |
| `RunsSweepStaleOnly` | `InactiveOnlyIfStale` of `Pipeline` |
| `RunsHandleEveryPosting` | `EveryPostingHandled` |
| `RunsCountOnce` | `NewCountsDistinctPostings` |
| `CleanRunsStoreAll` | `CleanRunsAreComplete` |
| `ScraperTypeOK` | `TypeOK` of `KalibrrScraper` |
| `ScraperGathersOwnPages` | `GathersOwnPages`, assuming one `Scrape` at a time |
| `ScraperLosesNothing` | `NoSilentLoss`, assuming one `Scrape` at a time and pages that advance |
| `IngestPresentationKeepsKey` | `PresentationKeepsKey` |
| `IngestStrippedLevelIsRecorded` | `StrippedLevelIsRecorded` |
| `IngestMarkupKeepsWords` | `MarkupKeepsWords` |
| `IngestPlaceSurvives` | `PlaceSurvives` |
| `IngestShownFiguresAreStored` | `ShownFiguresAreStored` |

**Assumptions on constants**, all evaluated by TLC in a run that passes: `NullAssumption` (NULL is
neither a url nor a number), `SimilarAssumption`, `StaleAssumption`, `ServesAssumption`,
`MaxTimeAssumption` (`dedup`, `pipeline`), `MaxItemsAssumption` (`dedup_tx`), `RunsAssumption` (finitely
many runs, each with a number of postings; `pipeline`), `KalibrrAssumption` (`kalibrr`), `IdAssumption`,
`NoEntryIsNull`, `LimitAssumption`, `StackAssumption` and `SourceAssumption` (finitely many sources, which a
sum over them needs; `paging`); and in `ingest`, of what employers write, `TextAssumption` (names of technologies and
demands are typed without tags; the body may hold any), `TitleAssumption` (one level, set apart by a mark; the
bound `OneLevel`), `CompanyAssumption` (what legal forms and suffixes look like; the bound `NoForm`), `CityAssumption` (no
comma, no word for a work mode, single blanks) and `FigureAssumption` (the bound `EightDigits`).

**Hypotheses of single theorems**, and instances that meet them:

* `FixedDates`, a posting keeps its date from one scrape to the next (`CanonicalStaysEarliest` only): the instance of
  `MCDedup` does. Without it a canonical row can get a date later than its duplicate's.
* `OneRun`, one worker: `dedup_tx_serial`. With two, `dedup_race` is a
  counterexample to `NoMissedDuplicate`, and `dedup_ring` to `Flat`: nothing in a ring points at a canonical row.
* `OneCaller`, one goroutine inside `Scrape`: `kalibrr`. With two, `kalibrr_shared` is the counterexample.
* `PagesAdvance`, every page of a listing has a job the page before it has not: `kalibrr`. A page without one
  stops the walk by design (the "re-served last page" test of `scrapeKeyword`), whatever follows it.

### Dedup

The argument goes through one lemma on what a resolution does: after
`ResolveDuplicates(t, u)` the group of `u` (itself and the canonical rows
that match it) points at one winner of that group, together with everything that
pointed at a loser. `Flat` is inductive with `TypeOK`. `NoMissedDuplicate` is not
inductive by itself: between the upsert statement and the resolution the content of
`u` is new, so the lemma is about a table in which all pairs *other than those
with u* are fine; the resolution then removes from the canonical rows either `u` or
all that matched it. `CanonicalIsEarliest` needs the order `PostedBefore` to be a
strict weak order on rows of the right type, which is proved first, and that a
refresh changes neither date of a row.

`DedupImplementsGroups` maps a table to the representative of each of its rows. An `UpsertJob`
is `Groups!See`: what merges are the groups of the candidates' representatives, and the winner
is one of these (`ResolveMerges`); a sweep and a tick are stuttering steps. It needs `Flat`, so
that a representative represents itself.

### Reads

The walk's invariant (`WInv`) says where the cursor stands: nothing shown so far comes
after it (`CursorIsLast`), and what is steady and not yet shown does (`SteadyIsAhead`).
`NothingSkipped` is not inductive without these: it speaks of the end only. A request keeps
them because `Before` is transitive and because a page after which no cursor is returned is
all there was (`NoCursorMeansAll`), which is where the limit must be positive and the
same in `ListJobs` and `NextCursor`. A change of the table can only take entries out of `steady`.

`DetailIsOneGroup` is inductive with three facts: what the first query found stays in
the table, a row found to be a duplicate stays one (`JobStays`), and so do the rows of the
second (`DuplicatesStay`). Between the queries they are kept by the lemma behind
`MergesAreNeverUndone`, at the second query by `Flat`.

`StatsAddUp` is inductive with the counts of the queries already sent (`Counted`), which stay what they would be
now while the table is quiet. That the three agree on one table is `PartsAddUp` of `Sums`: a finite set has as
many members as its parts together. The table is finite because every step adds at most one row.

### Transactions

`TInv` holds for any postings. Two transactions never hold the same row; what a transaction may have written to a
row is related to the committed version of it (`VersionOf`: same `first_seen_at`, no duplicate made canonical,
inactive only if stale); a transaction with `inserted` set is the only one that can be inserting its row. These are what
`NewOnce`, `DecisionsAreKept` and `InactiveOnlyIfStale` need when a commit publishes versions other transactions did
not see coming. A worker's step that commits nothing cannot disturb the others (`OwnStepKeepsTInv`), a
commit disturbs none of the rows they hold (`PublishKeepsTInv`), and each action is an instance of one of the two.

`OInv` is about the window between reading the candidates without a lock and writing the decision. The rank of
a settled row never changes once it is first seen, so a winner chosen from stale copies is still not outranked by the
losers when they are marked (`DecisionHolds`), whatever was displaced in between, unless winner or loser
has been given another date by then, or is being given one by the transaction itself (`Dated`). Times of first sight differ
because each transaction begins at its own tick (`TimesDiffer`), so that rows never tie. `Ordered` says this of
the committed table, but for the rows in `unsettled`, and of each transaction's view, but for what its commit
will unsettle (`Unsettling`). The hard step is another transaction's commit, after which a view is a mixture of rows
written before and after it: a row this transaction has not written keeps the committed pointer, one it has written
points where it did or at its winner (`Pointers`), and a row that was moved away from an unsettled one is unsettled
itself, which is what the second clause of `unsettled` is for. `NoRing` follows: among the settled rows
of a ring the first in the order would point at one it comes before.

`AInv` is the simulation relation of the refinement. It says what the statements sent so far have made of the committed
table: after the first one, `UpsertRow`; in the loop, the losers marked so far and the rows that pointed at them
repointed, less the ones the current reparenting still has to do; in the sweep, the stale rows turned off, less those to
come. When the loop is over this is `PointAllAt`, so that the commit is `Dedup!UpsertJob` and the sweep's commit
`Dedup!DeactivateStaleJobs`; beginning is a `Tick`; every other statement, and every failure, changes nothing `Dedup` knows
of. `TxAloneMissesNone` and `TxAloneIsFlat` then are theorems of `DedupProofs`, read of the committed table.

### Pipeline

`PInv` relates each run's place in the code to what it must have done by then: which postings it was given, which
it has handled, that a posting counted and not failed is in the table and seen since the run began, that the
company of the posting being upserted is there, and what the `scrape_runs` row says. Steps of other runs only let
tables and clock grow (`Grows`), which keeps all of it. `CountInv` adds the totals: an upsert that creates a row makes a duplicate, or leaves a run that is about to count a
new posting or a failure, and a run that dies then is itself one of those cut off; the two inequalities of `NewCountsDistinctPostings` are
kept one step at a time, with the cardinalities of `FiniteSetTheorems` and the sums of `Sums`.

`RowsAreTrue` says of a row at "success" or "failed" that it holds the totals of its run, with an error message if the
scrape, a posting or the context check left one. With `PInv` this gives `CleanRunsAreComplete`: without a message the run was through its
postings, none failed, and what a run has stored stays seen (`Grows`).

### Scraper

`KInv` bounds keyword, page and attempt for any number of callers. For one caller, `GInv` says that what it has of
each keyword is some of its first pages (`Gathered`), that it is at the page after the last of them (`AtPage`), and that the
shared `result` holds nothing or the page asked for (`OwnResult`), which is what the second caller breaks. `LInv` adds that
each keyword done without an error was walked to the end: a stop on `count` is right unless the site
understates its total, a stop on a page without news because pages advance.

### Ingest

`IngInv` says that a posting stays within its kinds, that no script is opened within a script (the tokenizer takes a
tag there for text), and that the row is what one scrape makes of the posting as it stands. The rest are lemmas on
the text functions, for texts of any length:

* *Markup.* `SanitizeDescription` is a loop over the tokens, and so is reading words off a text (`Scan`, which looks at
  the last word and whether it can still grow). `LoopInv` relates the two: after `i` tokens the lines
  written read like what a browser has displayed, or lack just a blank (`Hold`), and then nothing but a
  block can follow, by `LaidOut`. `skipDepth` is 1 exactly inside a script, which needs scripts not to nest. What
  the end of the function does, collapsing blanks and dropping empty lines, changes no word (`CleanLinesHaveTheWords`).
* *Place.* The text up to the first comma is the city, or the country if there is no city; around it there is no word of a
  mode, so that the badge is the first one found (`ModeIsTheFirstSaid`), and the empty description says none.
* *Salary.* `salaryRawText` writes few shapes: one figure after a word, or two and a dash. The figure
  is read back digit by digit (`DecimalIsParsed`), and of each shape the parser finds the range or the single bound
  (`StripWorded`, `StripRange`).
* *Level and keys.* What a name is dressed up in is set apart by marks, so that no word of the name is completed by it
  or taken for it (`SaysBetweenMarks`); the legal form is the first word (`FormGoes`); what is deleted leaves
  marks, which go from a title's key altogether (`BareMarks`) and from a company's as blanks that are
  trimmed and collapsed (`NamesKept`).

### Only model-checked

* Liveness, which is out of TLAPS's reach here: that walks, runs and scrapes end; and `NoStandstill`, which
  speaks of ENABLED.
* `YearsDecideLevel`, `StatedSalaryIsParsed` and `StackSurvivesMarkup` of `Ingest`. What their texts mean is part of the
  instance (`years`, `min` and `max`, `skill`), and they hold because of the particular words and patterns the functions
  know: an assumption that made them provable for any instance would be the claim itself, or the same list of cases that TLC goes
  through.

Where a claim takes induction over data (a sum, a flattened sequence of pages), the induction theorems of the library
cannot be used, since they take an operator as a parameter. `Sums` does without: the set of the counterexamples
has a smallest member (`LeastNat`, by `WFMin`), or a set that holds 0 and the successors of its members
holds all numbers (`InductiveSet`), or one that holds the empty sequence and what an element is appended to holds all sequences
(`InductiveSeq`, which `IngestProofs` rests on).

## Not modelled

* `Store.MarkAsDuplicate`, for merges by hand: only tests call it. It does not reparent, so a
  caller would have to.
* Digests: equal fingerprints are equal pairs of keys written one after the other. Without a separator two
  pairs can share one; dedup then takes them for a match, which `Dedup` covers, fingerprints being arbitrary.
* The character level of text: glued tokens, accents, the wording of phrases. Of the table of
  technologies there is one row for each way its matchers are combined.
* The values of the listing's filters and full-text search: one predicate on content.
* The company's display name, which the last upsert of it wins; the company's row is its id.
* Token check and parameter parsing of the trigger, HTTP rendering, configuration, logging.
* Connections as a resource: a call holds at most one, so the pool's cap delays calls and cannot deadlock them.
* The table `alerts` and the enums of the migration: no code uses them.

## Plan

1. *Proofs.* Of the safety properties the three of `Ingest` named above are left: a grammar of demands and of
   salaries in words, in place of their lists, would let two of them be stated, and then proved, for any text of it.
2. *Reads over `DedupTx`.* The page of a job over the chains that overlapping transactions can leave.
3. *Hidden duplicates.* What becomes of active duplicates whose canonical row goes inactive, once the
   code or its documentation says what should.
