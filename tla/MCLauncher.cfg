SPECIFICATION FairSpec
CONSTANTS
    Modes = {"extend"}
    MaxAttempts = 2
    MaxEvents = 1
INVARIANTS
    HostEndsFirst
    NothingIsLeft
    PanelTellsTheEnd
PROPERTIES
    ShutdownEnds
CHECK_DEADLOCK FALSE
