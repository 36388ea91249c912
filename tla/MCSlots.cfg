SPECIFICATION Spec
CONSTANTS
    Periods = {2, 5}
    Poll = 1
    ListDelay = 1
    PostMax = 1
    MaxTime = 10
    MaxFires = 2
INVARIANTS
    TypeOK
    OnlyUnrecordedRefires
    EverySlotFires
