SPECIFICATION Spec
CONSTANTS
    Reports = {"pushed", "plain", "pulled"}
    Swept = {"pushed", "pulled"}
    Pull = {"pulled"}
    Scheduled = {"pushed", "plain"}
    Callbacks = {FALSE}
    SweepSlots = 1
    MaxRuns = 3
    MaxCrashes = 1
INVARIANT OpenRunIsAttended
