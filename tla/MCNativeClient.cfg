CHECK_DEADLOCK FALSE
SPECIFICATION FairSpec
CONSTANTS
    CAPACITY = 2
    Fragments = 2
    MaxUnits = 3
    WireRoom = 3
    MaxSockets = 3
INVARIANTS
    DecoderNeverGuesses
    NothingUnexpected
PROPERTIES
    RecoveryIsOwn
    CloseEnds
    RecoveryEnds
