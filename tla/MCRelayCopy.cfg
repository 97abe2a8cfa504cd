SPECIFICATION FairSpec
CONSTANTS
    Sessions = {s1, s2}
    Backends = {b1}
    Cancellers = {}
    None = None
    Modes = {"transaction"}
    SkipSame = TRUE
    Tracked = {s1}
    ExtendedCopy = TRUE
    MaxMsgs = 1
PROPERTY CycleEnds
CHECK_DEADLOCK FALSE
