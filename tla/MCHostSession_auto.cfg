CHECK_DEADLOCK FALSE
SPECIFICATION Spec
CONSTANTS
    c1 = c1
    o1 = o1
    Clients = {c1, o1}
    Old = {o1}
    NoClient = NoClient
    Route = "auto"
    Rounds = 2
    Burst = 2
    Window = 3
    MaxDials <- TwoThenOld
INVARIANTS
    ActivationIsValidated
    DisplayCoversEncoder
    HonestEndsAgree
    
