SPECIFICATION FairSpec
CONSTANTS
    Schedules = {"often", "never"}
    Malformed = {}
    NeverOccurs = {"never"}
    Cycle = 4
    Occurrences <- MCOccurrences
    FallBackAt = 1
    FallBackBy = 1
    Keys = {k1, k2}
    Services = {}
    SpecServices = {"svc"}
    Blank = "blank"
    InitialPhases = {"AddedtoRedis"}
    SyncJobs = {s1}
    BusJobs = {b1}
    Objects = {1, 2, 3, 4}
    NoResource = NoResource
    MaxTime = 2
    MaxRevision = 2
    MaxCrashes = 1
INVARIANT NotEarly
INVARIANT NoRepublish
INVARIANT OverdueIsDue
PROPERTY OverdueServed
CHECK_DEADLOCK FALSE
