SPECIFICATION FairSpec
CONSTANTS
    Routes = {"ffplay", "rgb332"}
    MaxFrames = 2
    WireRoom = 2
    MaxSockets = 3
INVARIANTS
    FailuresAreReal
    NoFrameIsForgotten
PROPERTIES
    CloseEnds
CHECK_DEADLOCK FALSE
