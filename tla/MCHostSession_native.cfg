CHECK_DEADLOCK FALSE
SPECIFICATION FairSpec
CONSTANTS
    c1 = c1
    o1 = o1
    Clients = {c1}
    Old = {}
    NoClient = NoClient
    Route = "native"
    Rounds = 2
    Burst = 2
    Window = 3
    MaxDials <- OneAgain
INVARIANTS
    StormIsHalted
PROPERTIES
    StopIsObeyed
    GoneClientFreesDisplay
