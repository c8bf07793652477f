SPECIFICATION FairSpec
CONSTANTS
    Schedules = {"often"}
    Malformed = {}
    NeverOccurs = {}
    Cycle = 4
    Occurrences <- MCOccurrences
    FallBackAt = 4
    FallBackBy = 2
    Keys = {k1}
    Services = {}
    SpecServices = {"svc"}
    Blank = "blank"
    InitialPhases = {"AddedtoRedis"}
    SyncJobs = {s1}
    BusJobs = {b1}
    Objects = {1, 2, 3, 4}
    NoResource = NoResource
    MaxTime = 7
    MaxRevision = 1
    MaxCrashes = 0
PROPERTY OverdueServed
CHECK_DEADLOCK FALSE
