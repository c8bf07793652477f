SPECIFICATION FairSpec
CONSTANTS
    Keys = {k1}
    Answers <- MCAnswers
    NoInner = "noInner"
    NoResource = NoResource
    MaxChecks = 1
    MaxCalls = 2
    MaxRevision = 2
    MaxFailures = 1
INVARIANT TypeOK
INVARIANT NothingForgotten
INVARIANT MongoConsistent
PROPERTY ImplementsCheckStatus
PROPERTY ChecksSettle
PROPERTY UpdatesSettle
PROPERTY PhaseWritten
CHECK_DEADLOCK FALSE
