SPECIFICATION Spec
CONSTANTS
    Sessions = {s1, s2}
    Backends = {b1}
    Cancellers = {}
    None = None
    Modes = {"transaction", "session", "statement"}
    SkipSame = TRUE
    Tracked = {s1}
    ExtendedCopy = FALSE
    MaxMsgs = 3
CHECK_DEADLOCK FALSE
INVARIANTS
    BackendsAccounted
    NoForeignState
    
    IdleNotInTx
