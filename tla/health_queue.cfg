SPECIFICATION Spec
CONSTANTS
    Periods = {2, 3}
    Hour = 4
    Triggers = TRUE
    Handlers = {h1, h2}
    MaxTime = 14
SYMMETRY MCSymmetry
INVARIANT TypeOK
INVARIANT HealthyIsRecent
INVARIANT NeverDegraded
PROPERTY SilenceIsReal
CHECK_DEADLOCK FALSE
