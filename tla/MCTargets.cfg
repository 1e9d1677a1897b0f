INIT Init
NEXT Next
CONSTANTS
    Executor = {w1, w2}
    Key = {k1, k2}
    RunWorker = {w1, w2}
    Batch = {"b1"}
    Finding = {"f1", "f2", "f3"}
    BatchFor <- OnlyBatch
    KeyOf <- RiskKeys
    DependsOn <- DependencyChain
    MaxModelAttempts = 2
    MaxFaults = 1
    CredentialTask = {x1, x2}
    Connection = {p1, e1, e2}
    Ephemeral = {e1, e2}
    MaxRotations = 1
    PlanLength = 3
    KindOf <- OperationKinds
    Needs <- OperationNeeds
    MaxEdits = 1
    MaxCrashes = 2
    MaxCalls = 3
    CsvOperation = {1, 2, 3}
    CsvKindOf <- OperationKinds
    CsvNeeds <- OperationNeeds
    MaxLiveEdits = 2
    MaxCsvCrashes = 1
    MaxPublications = 3
    MaxTasks = 4
    DatabaseTarget = TRUE
    Sources = 3
    Targets = 2
    ParentOf <- Hierarchy
    Scores = {80, 90, 100}
    Analyst = {w1, w2}
    FirstItems = {1, 2}
    LateItems = {3}
    KindOfItem <- ItemKinds
    ProfileOf <- ItemProfiles
    BatchSize = 2
    Ingester = {w1, w2}
    TaskPairs <- EveryKindOfSource
    MaxDisturbances = 2
    MaxTries = 2
    MaxToolCalls = 1
    MaxMishaps = 1
SYMMETRY Symmetry
CHECK_DEADLOCK FALSE
INVARIANTS
    TypeOK
    RestoresKeepTheChain
    MappingsStayOneToOne
    AssignmentIsOptimal
    RecordedOutcomesAreReal
    ReplaysWriteOnce
    CsvRollbacksAreExact
    RollbacksUndoTheLatestSync
    PreviewStaysValid
    AnalysisIsComplete
    PlanRespectsReviews
    SecretsFollowTheirUses
    
    IngestedFromOneVersion
    BuiltFromCompleteInputs
    CrashesFailNothing
    EveryItemIsAnalysed
PROPERTIES
    OwnersEditsAreKept
    SettledFactsStay
