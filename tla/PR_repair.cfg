SPECIFICATION Spec
CONSTANTS
    r1 = r1
    r2 = r2
    r3 = r3
    runner = runner
    command = command
    command2 = command2
    shared = shared
    NoWorker = NoWorker
    Route <- OneRoute
    RouteRank <- OneRank
    RouteDeps <- NoDeps
    Worker <- TwoWorkers
    AutoRunner <- OneRunner
    WorkerId <- Ids
    IdOf <- OwnIds
    OwnBase <- OneCommand
    ResultStatus <- FailOrPass
    MaxAutoRepair <- RepairOnce
    RepairTarget <- Implementation
    RiskBlocked <- Never
    HumanApproval <- Always
    AutoCommit <- Always
    MaxRetries <- OnlyDefaultRetries
    Rerun <- OneCommand
    Pausing = TRUE
    Troubled <- InImplementation
INVARIANTS
    OneOpenStagePerRoute
    ClosedRunIsQuiet
CHECK_DEADLOCK FALSE
