SPECIFICATION Spec
CONSTANTS
    MaxVersion = 4
    Nobody = Nobody
INVARIANTS
    TypeOK
    QuietBetweenCalls
    ServerSeesLatest
