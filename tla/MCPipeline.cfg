SPECIFICATION Spec
CONSTANTS
    r1 = r1  r2 = r2
    u1 = u1  u2 = u2
    t1 = t1
    c1 = c1  c2 = c2
    f1 = f1
    NULL = NULL
    Urls = {u1, u2}
    Fingerprints = {f1}
    Companies = {c1, c2}
    Titles = {t1}
    SimilarTitles <- MCSimilar
    Serves <- MCServes
    StaleAfter = 0
    Runs = {r1, r2}
    Cancelable = {r1}
    MaxRaw <- MCMaxRaw
    MaxTime = 1
    MaxFaults = 1
    MaxExits = 1
INVARIANTS
    TypeOK
    EveryPostingHandled
    NewCountsDistinctPostings
    CompanyComesFirst
    InactiveOnlyIfStale
    CleanRunsAreComplete
CHECK_DEADLOCK FALSE
