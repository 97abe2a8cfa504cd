\* Two pausers, two resumers and two acquirers: Pause, Resume and Close race.
CONSTANTS
    Acquirers = {a1, a2}
    Pausers = {x1, x2}
    Resumers = {y1, y2}
    MaxPauses = 2
SPECIFICATION FairSpec
INVARIANTS
    NoDoubleClose
    PauseHolds
PROPERTIES
    ResumeWakes
