SPECIFICATION FairSpec
CONSTANTS
    Reports = {"pushed"}
    Swept = {"pushed"}
    Pull = {}
    Scheduled = {"pushed"}
    Callbacks = {TRUE}
    SweepSlots = 1
    MaxRuns = 3
    MaxCrashes = 1
PROPERTIES
    QueuedRunGetsItsTurn
    LockHeals
