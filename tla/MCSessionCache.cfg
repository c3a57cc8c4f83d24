SPECIFICATION Spec
CONSTANTS
    t1 = t1
    t2 = t2
    s1 = s1
    s2 = s2
    s3 = s3
    i1 = i1
    i2 = i2
    i3 = i3
    Threads <- MCThreads
    Structs <- MCStructs
    Ids <- MCIds
    NULL = NULL
    Limits = {0, 1}
    Settings <- MCSettings
SYMMETRY MCSymmetry
VIEW StateView
INVARIANTS TypeOK RefsExact CacheConsistent NoDeadSessionCached SingleUse
PROPERTY LimitKept
