CONSTANTS
    Folded <- MCFolded
    CIDR <- MCCIDR
    Loopback = {"lo"}
    Conns <- MCConns
    Attempts = {a1, a2}
    Setups <- MCSetups
    Static <- MCStatic
    Threshold = 2
    Base = 1
    LockMax = 2
    Capacity = 1
    TTL = 1
    FetchMax = 1
    MaxTime = 3
    MaxVersion = 2
SPECIFICATION Spec
SYMMETRY Symmetric
CHECK_DEADLOCK FALSE
INVARIANTS
    
    FailuresBounded
    OpensBounded
    StaleBounded
