CONSTANTS
    t1 = t1
    t2 = t2
    s1 = s1
    q1 = q1
    e1 = e1
    None = None
    c1 = c1
    c2 = c2
    Tracks = {t1, t2}
    Reports <- MCReports
    Threads = {c1, c2}
    MaxEvents = 3
    MaxOthers = 1
SYMMETRY SameThreads
SPECIFICATION Spec
INVARIANTS TypeOK ListensAreDerived OneEventPerReport NavidromeCountsOnce PlaysAreReal
