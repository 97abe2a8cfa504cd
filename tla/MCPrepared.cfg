\* Two clients with three names on two backends that keep one statement each.
CONSTANTS
    Sessions = {s1, s2}
    Backends = {b1, b2}
    Names = {n1, n2, n3}
    Sqls = {q1, q2, Bad, Ddl}
    Bad = Bad
    Ddl = Ddl
    None = None
    Gone = Gone
    PSLimit = 1
    sessionPSCeilingFactor = 2
    SkipSame = TRUE
    Vocabulary <- OneBusy
    s1 = s1
    n1 = n1
    n2 = n2
    n3 = n3
    q1 = q1
    q2 = q2
    MaxBatch <- Lengths
    Habits = {"pipeline"}
SPECIFICATION Spec
SYMMETRY Symmetry
CHECK_DEADLOCK FALSE
INVARIANTS
    
    
    ResidentBounded
