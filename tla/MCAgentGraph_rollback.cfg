SPECIFICATION Spec
CONSTANTS
    school = school
    NoRun = NoRun
    NoWorker = NoWorker
    NoGroup = NoGroup
    Run = {r1}
    Worker = {w1, w2}
    Tenant = {school}
    Group = {}
    Clarification = {}
    version = "agent-rollback-graph-v1"
    TenantOf <- MCTenantOf
    VersionOf <- MCVersionOf
    MaxFaults = 1
    MaxPreviews = 1
    MaxRounds = 0
    MaxAttempts = 16
    LegacyApprovals = FALSE
SYMMETRY Symmetry
CHECK_DEADLOCK FALSE
INVARIANTS
    TypeOK
    SchoolHeldWhileActive
    FencedWorkerIsCurrent
    SameActionPerCursor
    PausedRunHasGate
    RestoreWasApproved
    ReportPrecedesEnd
PROPERTIES
    TransitionsFollowDecisions
    EndedRunsStayEnded
    GatesAreWaitedFor
