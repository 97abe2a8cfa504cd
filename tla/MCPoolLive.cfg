CONSTANTS
    Clients = {p1, p2}
    Warmer = w
    Reaper = reaper
    Reconnectors = {r1}
    Closers = {k1}
    Conns = {c1, c2}
    NoConn = NoConn
    Limit = 1
    MinIdle = 1
    Expiry = FALSE
    MaxGen = 1
SPECIFICATION FairSpec
CHECK_DEADLOCK FALSE
PROPERTIES
    AcquireReturns
    ClosedPoolEmpties
    ImplementsContract
