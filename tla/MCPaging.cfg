SPECIFICATION ReadSpec
CONSTANTS
    u1 = u1  u2 = u2  u3 = u3
    t1 = t1  t2 = t2
    c1 = c1  c2 = c2  c3 = c3
    f1 = f1  f2 = f2  f3 = f3
    s1 = s1  s2 = s2  s3 = s3
    k1 = k1  k2 = k2
    NULL = NULL
    Urls = {u1, u2, u3}
    Fingerprints = {f1, f2, f3}
    Companies = {c1, c2, c3}
    Titles = {t1, t2}
    SimilarTitles <- MCSimilar
    Serves <- MCServes
    StaleAfter = 0
    MaxTime = 1
    Id <- MCId
    Wanted = {t1}
    Requests = {0, 1, 7, 9}
    DefaultLimit = 1
    MaxLimit = 2
    Int32Half = 8
    Sources = {s1, s2, s3}
    SourceOf <- MCSourceOf
    Stacks = {k1, k2}
    StackOf <- MCStackOf
INVARIANTS
    WalkTypeOK
    PagesInOrder
    NothingSkipped
    DetailIsOneGroup
    StatsAddUp
PROPERTIES
    WalkEnds
CHECK_DEADLOCK FALSE
