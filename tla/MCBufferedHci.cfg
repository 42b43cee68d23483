CONSTANTS
    Wants <- MCWants
    MaxFrags = 7
    MaxEvents = 3
    BufSize = 6
    StraySize = 4
SPECIFICATION Spec
CHECK_DEADLOCK FALSE
INVARIANTS
    HciTypeOK
    ReadyIsWhole
PROPERTY
    NothingSkipped
