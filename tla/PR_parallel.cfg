SPECIFICATION FairParallel
CONSTANTS
    r1 = r1
    r2 = r2
    r3 = r3
    runner = runner
    command = command
    command2 = command2
    shared = shared
    NoWorker = NoWorker
    Route <- TwoRoutes
    RouteRank <- TwoRanks
    RouteDeps <- NoDeps
    Worker <- TwoWorkers
    AutoRunner <- OneRunner
    WorkerId <- Ids
    IdOf <- OwnIds
    OwnBase <- OneCommand
    ResultStatus <- BlockedOnly
    MaxAutoRepair <- NoRepair
    RepairTarget <- NoTarget
    RiskBlocked <- Never
    HumanApproval <- Always
    AutoCommit <- Always
    MaxRetries <- FirstRetries
    Rerun <- NoCommand
    Pausing = FALSE
    Troubled <- InEvaluation
INVARIANTS
    RowMatchesLedger
PROPERTIES
    HeldTaskIsReleased
CHECK_DEADLOCK FALSE
