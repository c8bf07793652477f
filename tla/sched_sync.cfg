SPECIFICATION Spec
CONSTANTS
    Schedules = {"often", "rare", "bad"}
    Malformed = {"bad"}
    NeverOccurs = {}
    Cycle = 4
    Occurrences <- MCOccurrences
    FallBackAt = 0
    FallBackBy = 0
    Keys = {k1, k2}
    Services = {}
    SpecServices = {"svc"}
    Blank = "blank"
    InitialPhases = {"AddedtoRedis"}
    SyncJobs = {s1, s2}
    BusJobs = {}
    Objects = {1, 2, 3, 4, 5, 6}
    NoResource = NoResource
    MaxTime = 0
    MaxRevision = 2
    MaxCrashes = 0
VIEW MCView
SYMMETRY MCSymmetry
INVARIANT TypeOK
INVARIANT UniqueUids
INVARIANT ScheduleCoherent
INVARIANT SyncApplied
INVARIANT RedisMirrorsItems
CHECK_DEADLOCK FALSE
