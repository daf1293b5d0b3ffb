--------------------------- MODULE KalibrrScraper ---------------------------
(***************************************************************************)
(* internal/scraper's Kalibrr scraper: Scrape, scrapeKeyword, fetchPage and *)
(* withBackoff, run by one or several goroutines on the one KalibrrScraper  *)
(* main registers.  A fetch hands its outcome over through the scraper's    *)
(* field result: fetchPage clears it, the colly callbacks fill it while     *)
(* Visit runs, fetchPage reads it back.  The mutex covers each of the three *)
(* accesses, not the fetch.                                                 *)
(*                                                                          *)
(* The site is fixed while it is being walked; each request may fail in any *)
(* of the ways fetchPage tells apart.                                       *)
(***************************************************************************)
EXTENDS Integers, Sequences, SequencesExt

CONSTANTS
    Callers,    \* goroutines inside Scrape
    Keywords,   \* the searches, in order
    Jobs,       \* the ids of the site's jobs
    Pages,      \* Pages[k]: the listing of keyword k, a sequence of pages,
                \*   each a sequence of job ids
    Count,      \* Count[k]: the total the site reports for keyword k
    MaxPages,   \* maxPages, after ClampMaxPages
    MaxRetries  \* maxRetries: attempts per page

ASSUME KalibrrAssumption ==
    /\ Keywords \in Seq(DOMAIN Pages)
    /\ \A k \in DOMAIN Pages : Pages[k] \in Seq(Seq(Jobs))
    /\ Count \in [DOMAIN Pages -> Nat]
    /\ MaxPages \in Nat \ {0} /\ MaxRetries \in Nat \ {0}

VARIABLES
    result,     \* s.result, shared by all callers
    caller,     \* caller[c]: the local state of goroutine c
    canceled    \* callers whose context is done

vars == <<result, caller, canceled>>

NoResult == [found |-> FALSE, jobs |-> << >>, count |-> 0, err |-> FALSE, retryable |-> FALSE]
Found(jobs, count) == [NoResult EXCEPT !.found = TRUE, !.jobs = jobs, !.count = count]
Failed(retryable) == [NoResult EXCEPT !.err = TRUE, !.retryable = retryable]

TypeOK ==
    \A c \in Callers :
        /\ caller[c].pc \in {"keyword", "page", "attempt", "visit", "read", "backoff", "done"}
        /\ caller[c].k \in 1..Len(Keywords) + 1
        /\ caller[c].page \in 1..MaxPages + 1
        /\ caller[c].attempt \in 0..MaxRetries - 1
        /\ caller[c].errs \subseteq 1..Len(Keywords)

Init ==
    /\ result = NoResult
    /\ caller = [c \in Callers |->
          [pc |-> "keyword", k |-> 1, page |-> 1, attempt |-> 0, visitErr |-> FALSE,
           prev |-> << >>, got |-> [k \in DOMAIN Keywords |-> << >>], errs |-> {}]]
    /\ canceled = {}

Keyword(c) == Keywords[caller[c].k]
At(c, label) == caller[c].pc = label
Goto(c, label) == caller' = [caller EXCEPT ![c].pc = label]

----------------------------------------------------------------------------
(* The keyword and page loops *)

\* scrapeKeyword returns, with or without an error; either way what it
\* gathered is kept and the next keyword's turn comes.
EndKeyword(c, failed) ==
    caller' = [caller EXCEPT ![c].pc = "keyword", ![c].k = @ + 1,
                             ![c].errs = IF failed THEN @ \cup {caller[c].k} ELSE @]

\* Scrape's loop over keywords.  A done context ends it, with an error.
NextKeyword(c) ==
    /\ At(c, "keyword")
    /\ IF caller[c].k > Len(Keywords) THEN Goto(c, "done")
       ELSE IF c \in canceled
       THEN caller' = [caller EXCEPT ![c].pc = "done", ![c].errs = @ \cup {caller[c].k}]
       ELSE caller' = [caller EXCEPT ![c].pc = "page", ![c].page = 1, ![c].prev = << >>]
    /\ UNCHANGED <<result, canceled>>

\* scrapeKeyword's loop over pages.
NextPage(c) ==
    /\ At(c, "page")
    /\ IF caller[c].page > MaxPages THEN EndKeyword(c, FALSE)
       ELSE IF c \in canceled THEN EndKeyword(c, TRUE)
       ELSE caller' = [caller EXCEPT ![c].pc = "attempt", ![c].attempt = 0]
    /\ UNCHANGED <<result, canceled>>

\* Mutant of RepeatsPrevious: only an empty page ends the walk.
NeverRepeats(c, jobs) == FALSE

\* Every job of the page was on the previous page (on the first page there is
\* no previous page, and jobs is not empty).
RepeatsPrevious(c, jobs) == Range(jobs) \subseteq Range(caller[c].prev)

\* The listing is complete; a missing count decodes as 0 and completes it too.
ReachedTotal(jobs, count) == Len(jobs) >= count

\* What scrapeKeyword does with a fetched page.
HandlePage(c, jobs, count) ==
    LET k == caller[c].k
        got == caller[c].got[k] \o jobs
    IN  IF jobs = << >> \/ RepeatsPrevious(c, jobs) THEN EndKeyword(c, FALSE)
        ELSE IF ReachedTotal(got, count)
        THEN caller' = [caller EXCEPT ![c].got[k] = got, ![c].pc = "keyword", ![c].k = @ + 1]
        ELSE caller' = [caller EXCEPT ![c].got[k] = got, ![c].prev = jobs,
                                      ![c].pc = "page", ![c].page = @ + 1]

----------------------------------------------------------------------------
(* fetchPage under withBackoff *)

\* An attempt begins: a done context ends the fetch, else result is cleared.
Attempt(c) ==
    /\ At(c, "attempt")
    /\ IF c \in canceled THEN EndKeyword(c, TRUE) /\ UNCHANGED result
                         ELSE Goto(c, "visit") /\ result' = NoResult
    /\ UNCHANGED canceled

\* The site's answer to a request past the last page: nothing, or the last
\* page once more.
PastEnd(k) == {<< >>} \cup (IF Pages[k] = << >> THEN {} ELSE {Last(Pages[k])})

Served(k, p) == IF p <= Len(Pages[k]) THEN {Pages[k][p]} ELSE PastEnd(k)

\* collector.Visit: the callbacks run before it returns.
Visit(c) ==
    /\ At(c, "visit")
    /\ \E visitErr \in BOOLEAN :
         /\ \/ /\ ~visitErr                          \* a listing page
               /\ \E jobs \in Served(Keyword(c), caller[c].page) :
                    result' = Found(jobs, Count[Keyword(c)])
            \/ ~visitErr /\ result' = Failed(FALSE)  \* __NEXT_DATA__ does not parse
            \/ visitErr /\ result' = Failed(TRUE)    \* 429 or 5xx
            \/ visitErr /\ result' = Failed(FALSE)   \* another status, or no connection
            \/ UNCHANGED result                      \* no __NEXT_DATA__, or not sent at all
         /\ caller' = [caller EXCEPT ![c].pc = "read", ![c].visitErr = visitErr]
    /\ UNCHANGED canceled

\* Mutant of FetchFailed: a page without __NEXT_DATA__ is an empty page.
FailsOnErrorOnly(c) == result.err \/ caller[c].visitErr

\* The attempt failed; a missing script is an error, not an empty page.
FetchFailed(c) == result.err \/ caller[c].visitErr \/ ~result.found

\* Mutant of MayRetry: one attempt too many.
MayRetryOnceMore(c) == result.err /\ result.retryable /\ caller[c].attempt < MaxRetries

\* withBackoff tries again.
MayRetry(c) == result.err /\ result.retryable /\ caller[c].attempt < MaxRetries - 1

\* The outcome is read back, from the shared field, and acted on.
Read(c) ==
    /\ At(c, "read")
    /\ \/ FetchFailed(c) /\ MayRetry(c) /\ Goto(c, "backoff")
       \/ FetchFailed(c) /\ ~MayRetry(c) /\ EndKeyword(c, TRUE)
       \/ ~FetchFailed(c) /\ HandlePage(c, result.jobs, result.count)
    /\ UNCHANGED <<result, canceled>>

\* Mutant of Backoff: the attempt number is not advanced.
BackoffSameAttempt(c) ==
    /\ At(c, "backoff")
    /\ IF c \in canceled THEN EndKeyword(c, TRUE) ELSE Goto(c, "attempt")
    /\ UNCHANGED <<result, canceled>>

\* The sleep between two attempts, cut short by a done context.
Backoff(c) ==
    /\ At(c, "backoff")
    /\ IF c \in canceled THEN EndKeyword(c, TRUE)
       ELSE caller' = [caller EXCEPT ![c].pc = "attempt", ![c].attempt = @ + 1]
    /\ UNCHANGED <<result, canceled>>

----------------------------------------------------------------------------

Step(c) ==
    \/ NextKeyword(c) \/ NextPage(c) \/ Attempt(c) \/ Visit(c) \/ Read(c) \/ Backoff(c)

Cancel(c) ==
    /\ c \notin canceled /\ ~At(c, "done")
    /\ canceled' = canceled \cup {c}
    /\ UNCHANGED <<result, caller>>

Next == \E c \in Callers : Step(c) \/ Cancel(c)

\* Requests time out, sleeps end, and goroutines are scheduled.
Fairness == \A c \in Callers : WF_vars(Step(c))

Spec == Init /\ [][Next]_vars /\ Fairness

----------------------------------------------------------------------------
(* Properties *)

\* The pages of keyword k up to page n, one after the other.
Upto(k, n) == FlattenSeq(SubSeq(Pages[k], 1, n))

Min2(a, b) == IF a < b THEN a ELSE b

\* What is gathered for a keyword is always some number of its first pages,
\* whole, in order, each once: a fetch delivers the page it asked for, a
\* retried page is not taken twice, and a page the site serves again past the
\* end is not taken at all.
GathersOwnPages ==
    \A c \in Callers, k \in DOMAIN Keywords :
        \E n \in 0..Len(Pages[Keywords[k]]) :
            caller[c].got[k] = Upto(Keywords[k], n)

\* Nothing is lost silently: a keyword that Scrape is through with and reports
\* no error for was walked to the end of its listing or to maxPages, unless
\* the site understates its total ("partial results, not a silent loss",
\* Scrape; "never mistake something broke for no more results", fetchPage).
NoSilentLoss ==
    \A c \in Callers, k \in DOMAIN Keywords :
        LET kw == Keywords[k]
        IN  /\ k < caller[c].k \/ At(c, "done")
            /\ caller[c].errs = {} \/ (k < caller[c].k /\ k \notin caller[c].errs)
            /\ Count[kw] >= Len(FlattenSeq(Pages[kw]))
            => caller[c].got[k] = Upto(kw, Min2(MaxPages, Len(Pages[kw])))

\* Scrape always returns: retries and pages are bounded however the site
\* answers.
ScrapeEnds == \A c \in Callers : <>At(c, "done")
=============================================================================
