CHECK_DEADLOCK FALSE
SPECIFICATION FairSpec
CONSTANTS
    Transports = {TRUE, FALSE}
    CAPACITY = 2
    PipeRoom = 2
    ReadRoom = 2
    MaxPieces = 5
INVARIANTS
    StreamIsIntact
    UnitsAreWhole
    StopIsExplicit
PROPERTIES
    StreamEnds
