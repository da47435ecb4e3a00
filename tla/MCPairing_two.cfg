SPECIFICATION Spec
CONSTANTS
    c1 = c1
    c2 = c2
    Clients = {c1, c2}
    NoConn = NoConn
    MaxFailed = 2
    MaxDials <- TwoDevices
    MaxClicks = 1
INVARIANTS
    TrustNeedsBoth
    RejectionIsFinal
