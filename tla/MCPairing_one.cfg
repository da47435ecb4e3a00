SPECIFICATION FairSpec
CONSTANTS
    c1 = c1
    c2 = c2
    Clients = {c1}
    NoConn = NoConn
    MaxFailed = 1
    MaxDials <- OneDevice
    MaxClicks = 1
INVARIANTS
    NoProtocolError
    FailureBudget
PROPERTIES
    RevocationLasts
    HostComesBack
    RequestWithdrawn
