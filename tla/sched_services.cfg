SPECIFICATION FairSpec
CONSTANTS
    Schedules = {"often", "bad"}
    Malformed = {"bad"}
    NeverOccurs = {}
    Cycle = 4
    Occurrences <- MCOccurrences
    FallBackAt = 0
    FallBackBy = 0
    Keys = {k1}
    Services = {"svc"}
    SpecServices = {"svc", "blank"}
    Blank = "blank"
    InitialPhases = {"", "AddedtoRedis"}
    SyncJobs = {s1}
    BusJobs = {}
    Objects = {1, 2, 3, 4, 5, 6}
    NoResource = NoResource
    MaxTime = 0
    MaxRevision = 3
    MaxCrashes = 1
PROPERTY RelationsConverge
CHECK_DEADLOCK FALSE
