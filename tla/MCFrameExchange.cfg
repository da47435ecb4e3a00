SPECIFICATION FairSpec
CONSTANTS
    SlotCount = 2
    Routes = {"cpu", "gpu"}
    MaxFrames = 3
    MaxChains = 1
INVARIANTS
    PicturesAreWhole
    SlotsAreOwned
PROPERTIES
    CopiesLeave
    PublishedIsTaken
CHECK_DEADLOCK FALSE
