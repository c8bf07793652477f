SPECIFICATION Spec
CONSTANTS
    Conn = {c1, c2, c3}
    Caller = caller
    Timer = timer
    Starts = 2
    nil = nil
PROPERTY OnlyServerCloses
CHECK_DEADLOCK FALSE
