SPECIFICATION Spec
CONSTANTS
    school = school
    NoRun = NoRun
    NoWorker = NoWorker
    NoGroup = NoGroup
    Run = {r1}
    Worker = {w1, w2}
    Tenant = {school}
    Group = {g1}
    Clarification = {k1, k2}
    version = "agent-sync-graph-v2"
    TenantOf <- MCTenantOf
    VersionOf <- MCVersionOf
    MaxFaults = 1
    MaxPreviews = 0
    MaxRounds = 1
    MaxAttempts = 40
    LegacyApprovals = FALSE
VIEW View
SYMMETRY Symmetry
CHECK_DEADLOCK FALSE
INVARIANTS
    SyncRunIsSafe
    PlanOnlyApproved
