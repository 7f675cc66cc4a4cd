SPECIFICATION Spec
CONSTANTS
    NULL = NULL
    Keys <- Vmsr
    Kind <- VmsrKind
    BranchDest <- NoBranch
    ThumbFlags <- Thumb
    PageSize = 8
    TCG_MAX_INSNS = 3
    Cpus = {0, 1}
    MaxBlocks = 2
    BufSize = 2
    JmpCacheSize = 2
    Threads = {t1, t2}
    MaxCalls = 3
INVARIANT
    OnlyGeneratedJumps
