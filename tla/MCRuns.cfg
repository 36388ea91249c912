SPECIFICATION Spec
CONSTANTS
    Reports = {r1}
    NoCall = NoCall
    LockTTL = 1
    SaveStatuses = {"ready", "gathering"}
    MaxTime = 1
    MaxRows = 3
    MaxBirths = 3
    MaxSaves = 2
    MaxKeep = 1
INVARIANTS
    TypeOK
    OneOpenRunPerReport
    IdsFollowTime
    SaveLandsOnce
PROPERTIES
    TerminalIsForever
    LatestMovesForward
    SaveReleasesLock
    PruneHitsWhatItSelected
    LifecycleSpec
SYMMETRY Symmetry
