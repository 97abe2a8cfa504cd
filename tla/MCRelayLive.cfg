SPECIFICATION FairSpec
CONSTANTS
    Sessions = {s1, s2}
    Backends = {b1}
    Cancellers = {k1}
    None = None
    Modes = {"transaction"}
    SkipSame = TRUE
    Tracked = {s1}
    ExtendedCopy = FALSE
    MaxMsgs = 2
CHECK_DEADLOCK FALSE
INVARIANTS
    OwnReplies

    
