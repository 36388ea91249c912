SPECIFICATION Spec
CONSTANTS
    Steps = 2
    StepTime = 2
    SweepTimeout = 2
    MaxRuns = 2
    Outcomes <- MCOutcomes
    PageSizes = {1, 2}
INVARIANTS
    TypeOK
    PagesMakeTheSection
    ToldIsTrue
PROPERTIES
    NeverBack
    EverySweepIsStored
CHECK_DEADLOCK FALSE
