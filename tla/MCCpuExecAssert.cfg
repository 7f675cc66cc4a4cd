SPECIFICATION Spec
CONSTANTS
    NULL = NULL
    Keys <- One
    Kind <- OneKind
    BranchDest <- NoBranch
    ThumbFlags <- Thumb
    PageSize = 4
    TCG_MAX_INSNS = 3
    Cpus = {0, 1}
    MaxBlocks = 1
    BufSize = 1
    JmpCacheSize = 1
    Threads = {t1, t2}
    MaxCalls = 1
INVARIANT
    TbLockAssertion
