SPECIFICATION Spec
CONSTANTS
    Calls <- MCCalls
    Words <- MCWords
    MaxInsns = 2
INVARIANT
    SaturationReturned
