SPECIFICATION Spec
CONSTANTS
    Callers = {c1}
    Keywords <- MCKeywords
    Jobs <- MCJobs
    Pages <- MCPages
    Count <- MCCount
    MaxPages = 3
    MaxRetries = 3
INVARIANTS
    TypeOK
    GathersOwnPages
    NoSilentLoss
PROPERTIES
    ScrapeEnds
CHECK_DEADLOCK FALSE
