SPECIFICATION MCSpec
CONSTANTS
    Threads = {t1, t2}
    OneThread = {t1}
    NPages = 2
    HostSize = 2
    Calls = {"mmap", "mprotect", "munmap"}
    Ranges <- MCRanges
    Registered = TRUE
    OverHoles = TRUE
    NULL = NULL
    Cpus = {c1}
    PageSize = 4
    TCG_MAX_INSNS = 3
    MaxBlocks = 3
    BufSize = 2
    JmpCacheSize = 1
    WordBits = 8
    GroupBits = 3
    MaxTBs = 3
    Highwater = 48
    MaxRestores = 1
INVARIANTS
    NoStaleTB
    CodePagesMarked
    RestoresExactly
PROPERTIES
    InvalidationEnds
    RestoreEnds
