SPECIFICATION Spec
CONSTANTS
    Periods = {2}
    Hour = 4
    Triggers = TRUE
    Handlers = {h1, h2}
    MaxTime = 12
SYMMETRY MCSymmetry
PROPERTY SilenceIsExact
CHECK_DEADLOCK FALSE
