SPECIFICATION Spec
CONSTANTS
    Periods = {3}
    Hour = 4
    Triggers = FALSE
    Handlers = {h1, h2}
    MaxTime = 14
SYMMETRY MCSymmetry
PROPERTY SilenceIsReal
CHECK_DEADLOCK FALSE
