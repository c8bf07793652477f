SPECIFICATION FairSpec
CONSTANTS
    Conn = {c1, c2, c3}
    Caller = caller
    Timer = timer
    Starts = 1
    nil = nil
INVARIANT TypeOK
INVARIANT OneConnection
INVARIANT NotLost
INVARIANT StopsForGood
PROPERTY OnlyServerCloses
PROPERTY Reconnects
PROPERTY ReachesSubscriber
CHECK_DEADLOCK FALSE
