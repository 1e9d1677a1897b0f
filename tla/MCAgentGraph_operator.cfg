SPECIFICATION Spec
CONSTANTS
    school = school
    NoRun = NoRun
    NoWorker = NoWorker
    NoGroup = NoGroup
    Run = {r1}
    Worker = {w1}
    Tenant = {school}
    Group = {g1}
    Clarification = {k1, k2}
    version = "agent-sync-graph-v1"
    TenantOf <- MCTenantOf
    VersionOf <- MCVersionOf
    MaxFaults = 1
    MaxPreviews = 1
    MaxRounds = 0
    MaxAttempts = 40
    LegacyApprovals = TRUE
VIEW View
SYMMETRY Symmetry
CHECK_DEADLOCK FALSE
PROPERTIES
    OperatorsKeepTheOrder
