SPECIFICATION FairSpec
CONSTANTS
    IntMax = 5
    Numbers = {0, 1, 2, 3, 4}
    Everys = {0, 1, 2, 5}
    LastMinute = 1
    LastHour = 1
    LastDay = 3
    LastMonth = 2
    LastWeekday = 2
    LastYear = 3
    SureDays = 2
    DaysInMonth <- MCDaysInMonth
    DayOfWeek <- MCDayOfWeek
INVARIANT TypeOK
INVARIANT FieldsCoherent
INVARIANT NextIsFirst
INVARIANT ThrowsForNone
PROPERTY SearchAdvances
PROPERTY SearchEnds
CHECK_DEADLOCK FALSE
