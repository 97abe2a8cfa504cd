SPECIFICATION Spec
CONSTANTS
    Sessions = {s1, s2}
    NameOrder <- Order
    Databases = {"d"}
    Users = {u1}
    u1 = u1
    Keyed = {u1}
    NoUser = NoUser
    None = None
    Initial <- OnePool
    Files <- TwoFiles
    AdminAdds = {"c"}
    AdminChanges = {"a"}
    Limits = {1, 2}
    AdminLimits = {2}
    MaxPools = 4
    MaxReloads = 1
SYMMETRY Symmetry
CHECK_DEADLOCK FALSE
INVARIANTS
    Coherent
    
PROPERTIES
    EvictSparesRouted
