SPECIFICATION Spec
CONSTANTS
    NULL = NULL
    Keys <- Run
    Kind <- RunKind
    BranchDest <- NoBranch
    ThumbFlags <- Thumb
    PageSize = 6
    TCG_MAX_INSNS = 2
    Cpus = {0, 1}
    MaxBlocks = 4
    BufSize = 16
    JmpCacheSize = 2
    Threads = {t1, t2}
    MaxCalls = 2
SYMMETRY Sym
INVARIANTS
    RunsItsState
    ChainsFollowGuest
    FullRunTranslated
PROPERTY
    ReturnsPastNeon
