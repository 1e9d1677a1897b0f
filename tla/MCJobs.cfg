SPECIFICATION Spec
CONSTANTS
    Analyst = {w1, w2}
    Item = {x1, x2}
    Client = {c1}
    Detection <- MCDetection
    MaxAttempts = 2
    MaxFaults = 1
    MaxCommands = 2
    MaxTroubles = 2
    Rematcher = {w1, w2}
    Focal = {x1, x2}
    Operator = {c1}
    MaxFocalAttempts = 2
    MaxLapses = 1
    MaxRequests = 2
CHECK_DEADLOCK FALSE
INVARIANTS
    TypeOK
    JobsAddUp
    ReadyMeansAnalysed
    RematchStatusIsTrue
PROPERTIES
    OutcomesStay
    ItemsSettle
