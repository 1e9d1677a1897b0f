SPECIFICATION Spec
CONSTANTS
    school = school
    NoRun = NoRun
    NoWorker = NoWorker
    NoGroup = NoGroup
    Run = {r1}
    Worker = {w1}
    Tenant = {school}
    Group = {}
    Clarification = {}
    version = "agent-rollback-graph-v1"
    TenantOf <- MCTenantOf
    VersionOf <- MCVersionOf
    MaxFaults = 0
    MaxPreviews = 1
    MaxRounds = 0
    MaxAttempts = 20
    LegacyApprovals = FALSE
CHECK_DEADLOCK FALSE
PROPERTIES
    TerminationWritesNothing
