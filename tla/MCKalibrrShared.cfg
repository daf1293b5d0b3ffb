SPECIFICATION Spec
CONSTANTS
    Callers = {c1, c2}
    Keywords <- MCSharedKeywords
    Jobs <- MCJobs
    Pages <- MCPages
    Count <- MCCount
    MaxPages = 3
    MaxRetries = 3
INVARIANT GathersOwnPages
CHECK_DEADLOCK FALSE
