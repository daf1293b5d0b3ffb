SPECIFICATION Spec
CONSTANTS
    u1 = u1  u2 = u2  u3 = u3
    t1 = t1
    c1 = c1  c2 = c2
    f1 = f1  f2 = f2
    NULL = NULL
    Urls = {u1, u2, u3}
    Fingerprints = {f1, f2}
    Companies = {c1, c2}
    Titles = {t1}
    SimilarTitles <- MCSimilar
    Serves <- MCServes
    StaleAfter = 1
    Workers = {w1, w2}
    MaxItems = 2
INVARIANT NoMissedDuplicate
