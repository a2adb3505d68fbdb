SPECIFICATION PromotionSpec
CONSTANTS
    r1 = r1
    r2 = r2
    r3 = r3
    runner = runner
    command = command
    command2 = command2
    shared = shared
    NoWorker = NoWorker
    Route <- ThreeRoutes
    RouteRank <- ThreeRanks
    RouteDeps <- ThirdNeedsBoth
    Worker <- TwoWorkers
    AutoRunner <- OneRunner
    WorkerId <- Ids
    IdOf <- OwnIds
    OwnBase <- OneCommand
    ResultStatus <- Completed
    MaxAutoRepair <- NoRepair
    RepairTarget <- NoTarget
    RiskBlocked <- Never
    HumanApproval <- Always
    AutoCommit <- Always
    MaxRetries <- OnlyDefaultRetries
    Rerun <- NoCommand
    Pausing = FALSE
    Troubled <- Nowhere
INVARIANT
    PromotionIsNotLost
CHECK_DEADLOCK FALSE
