SPECIFICATION Spec
CONSTANTS
    Periods = {4, 5}
    Poll = 1
    ListDelay = 1
    PostMax = 1
    MaxTime = 12
    MaxFires = 2
INVARIANT AtMostOncePerSlot
