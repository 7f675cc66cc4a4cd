SPECIFICATION Spec
CONSTANTS
    NULL = NULL
    Keys <- MCKeys
    Kind <- MCKind
    BranchDest <- MCBranchDest
    ThumbFlags <- MCThumbFlags
    PageSize = 4
    TCG_MAX_INSNS = 3
    Cpus = {c1}
    MaxBlocks = 3
    BufSize = 3
    JmpCacheSize = 1
    Ranges <- MCRanges
INVARIANTS
    NoJumpToInvalidated
    JmpListsExact
    PagesExact
    CodeLayout
PROPERTIES
    RangeInvalidated
