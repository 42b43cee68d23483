CONSTANTS
    Plates <- MCPlates
    TagLevels <- MCTagLevels
    FASTEST_PER_FULL = 3
    MaxTimeout = 3
    MaxResetFail = 1
    MaxBoot = 2
SPECIFICATION Spec
INVARIANTS
    TypeOK
    DriverInStep
    BaselineIsGlass
