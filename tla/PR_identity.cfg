SPECIFICATION ParallelSpec
CONSTANTS
    r1 = r1
    r2 = r2
    r3 = r3
    runner = runner
    command = command
    command2 = command2
    shared = shared
    NoWorker = NoWorker
    Route <- OneRoute
    RouteRank <- OneRank
    RouteDeps <- NoDeps
    Worker <- ThreeWorkers
    AutoRunner <- OneRunner
    WorkerId <- Ids
    IdOf <- SharedId
    OwnBase <- NoCommand
    ResultStatus <- Completed
    MaxAutoRepair <- NoRepair
    RepairTarget <- NoTarget
    RiskBlocked <- Never
    HumanApproval <- Always
    AutoCommit <- Always
    MaxRetries <- OneRetry
    Rerun <- TwoCommands
    Pausing = FALSE
    Troubled <- InEvaluation
INVARIANTS
    TypeOK
    RetriesAreExpiries
PROPERTIES
    ResultsCloseOwnAttempt
    LeasesAreFenced
CHECK_DEADLOCK FALSE
