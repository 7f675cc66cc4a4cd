SPECIFICATION FairSpec
CONSTANTS
    p1 = p1 p2 = p2 p3 = p3 p4 = p4
    NULL = NULL
    Threads = {t1, t2}
    Pointers = {p1, p2, p3, p4}
    Hash <- MCHash
    Ops <- MCOps
    Unprotected = {}
    AutoResize = TRUE
    QHT_BUCKET_ENTRIES = 1
    InitElems = 2
    Preset <- MCPreset
    MaxMaps = 3
    MaxCalls = 3
INVARIANTS
    BucketsExact
    NoFreedMapUsed
PROPERTIES
    ImplementsQhtSet
    OperationsReturn
CHECK_DEADLOCK FALSE
