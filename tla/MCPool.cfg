CONSTANTS
    Clients = {p1, p2}
    Warmer = w
    Reaper = reaper
    Reconnectors = {r1}
    Closers = {k1, k2}
    Conns = {c1, c2, c3}
    NoConn = NoConn
    Limit = 2
    MinIdle = 1
    Expiry = TRUE
    MaxGen = 1
SPECIFICATION Spec
SYMMETRY Symmetry
CHECK_DEADLOCK FALSE
INVARIANTS
    SlotsMatchHolders
    Exclusive
    NoSocketLeak
    BackendsBounded
