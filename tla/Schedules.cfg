SPECIFICATION Spec
CONSTANTS
    c1 = c1
    c2 = c2
    s1 = s1
    s2 = s2
    j1 = j1
    j2 = j2
    j3 = j3
    j4 = j4
    Lanes = {0, 1, 2}
    maxPriorityLevel = 2
    MaxAttempts = 2
    Jobs = {j1, j2, j3, j4}
    Modes <- MCModes
    Crons = {c1, c2}
    Schedulers = {s1, s2}
    Exprs <- MCExprs
    Horizon = 50
    TicksPerMinute = 2
    MinutesPerHour = 2
    HoursPerDay = 2
    Year <- MCYear
    DomMax = 2
    MonthMax = 2
    WeekDays = 2
    cronMaxSearchDays = 6
INVARIANTS
    SemaphoreSound
    WorkAccounted
    NextIsFirst
    FiresOnce
PROPERTIES
    EverybodyServed
CHECK_DEADLOCK FALSE
