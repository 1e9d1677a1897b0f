SPECIFICATION Spec
CONSTANTS
    school = school
    NoRun = NoRun
    NoWorker = NoWorker
    NoGroup = NoGroup
    Run = {r1}
    Worker = {w1}
    Tenant = {school}
    Group = {}
    Clarification = {k1, k2}
    version = "agent-sync-graph-v2"
    TenantOf <- MCTenantOf
    VersionOf <- MCVersionOf
    MaxFaults = 0
    MaxPreviews = 0
    MaxRounds = 0
    MaxAttempts = 40
    LegacyApprovals = FALSE
CHECK_DEADLOCK FALSE
INVARIANTS
    ConfirmedConflictsResume
