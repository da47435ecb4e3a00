SPECIFICATION FairSpec
CONSTANTS
    MAX_RECORD_PLAINTEXT = 2
    MAX_WRITE = 3
    MaxNonce = 3
    MaxMessage = 4
    MaxBytes = 4
    MaxWant = 2
    WireRoom = 3
    MaxDamage = 1
INVARIANTS
    HonestNeverFails
    CleanEofIsComplete
PROPERTIES
    ImplementsPipe
    AckedArrives
CHECK_DEADLOCK FALSE
