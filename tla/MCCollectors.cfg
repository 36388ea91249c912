SPECIFICATION Spec
CONSTANTS
    Threads = {t1, t2, t3}
    SearchPageSize = 1
    MaxPages = 3
    MaxThreads = 2
    StartDay = 0
    Start = 1
    MinAges = {0, 1}
    MaxLog = 4
    Queries = 2
    Limit = 2
    MaxRecords = 2
    WindowHour = 6
    SinceDays = 1
    SinceAfterWeekend = 3
    Moments = {101, 105, 125, 173, 177, 197}
    MaxItems = 3
    Checks = {1, 2}
    MinEvents = 2
    RollupSize = 1
    MaxHistory = 4
    Repos = {"a", "b"}
    Versions <- MCVersions
    Published = "Published"
    OtherPart = "Other"
    MaxParsed = 3
    MaxListed = 2
    MaxContainers = 2
    MaxLines = 4
    CalendarEvents <- MCEvents
    Lookahead = 3
    MaxResults = 3
    MaxEvents = 3
INVARIANTS
    TypeOK
    FitsTheSweep
    NoMailLost
    EachThreadOnce
    NothingFallsBetween
    WhatQualifiesIsListed
    RecordsAreTrue
    PartsAddUp
    DeployStatusIsTrue
    DayIsComplete
    ClashesAreMutual
SYMMETRY Symmetry
CHECK_DEADLOCK FALSE
