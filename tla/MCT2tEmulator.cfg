CONSTANTS
    Empty = Empty
    Erased = Erased
    Mixed = Mixed
    old = old
    new = new
    Msg <- MCMsg
    InitMsg = old
    Programs <- MCPrograms
    MaxField = 2
    MaxReinit = 1
    MaxBle = 1
SPECIFICATION FairSpec
INVARIANTS
    TypeOK
    ChipFollowsState
    WritesAreReportedOnce
    PlateNotTorn
PROPERTY
    WritesAreAdopted
