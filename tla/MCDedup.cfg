SPECIFICATION Spec
CONSTANTS
    u1 = u1  u2 = u2  u3 = u3  u4 = u4
    t1 = t1  t2 = t2  t3 = t3
    c1 = c1  c2 = c2
    f1 = f1  f2 = f2  f3 = f3  f4 = f4
    NULL = NULL
    Urls = {u1, u2, u3, u4}
    Fingerprints = {f1, f2, f3, f4}
    Companies = {c1, c2}
    Titles = {t1, t2, t3}
    SimilarTitles <- MCSimilar
    Serves <- MCServesFixedDate
    StaleAfter = 1
    MaxTime = 2
INVARIANTS
    TypeOK
    Flat
    NoMissedDuplicate
    CanonicalIsEarliest
PROPERTIES
    MergesAreForever
    KeepsGroups
CHECK_DEADLOCK FALSE
