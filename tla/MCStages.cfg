SPECIFICATION MCSpec
CONSTANTS
    Calls <- MCCalls
    Words <- MCWords
    MaxInsns = 2
    Globals = {"g"}
    Locals = {"l"}
    Plain = {"t"}
    CallFlags = {"read_write", "read", "none"}
INVARIANTS
    FpscrExact
    FpStatusCoherent
    CpsrExact
    VfpEnabled
    ClassifierRight
    ValuesKept
    CodeRight
CHECK_DEADLOCK FALSE
