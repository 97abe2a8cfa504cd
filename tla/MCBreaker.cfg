\* Two acquirers and the warm-up goroutine, long enough for two probes.
CONSTANTS
    Acquirers = {p1, p2}
    Warmers = {w}
    Threshold = 2
    Cooldown = 2
    MaxTime = 6
SPECIFICATION Spec
INVARIANTS
    RejectsAtMostACooldown
PROPERTIES
    NoNewDialWhileOpen
    
