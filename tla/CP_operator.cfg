SPECIFICATION OperatorSpec
CONSTANTS
    r1 = r1
    r2 = r2
    r3 = r3
    runner = runner
    command = command
    command2 = command2
    shared = shared
    NoWorker = NoWorker
    Route <- OneRoute
    RouteRank <- OneRank
    RouteDeps <- NoDeps
    Worker <- OneRunner
    AutoRunner <- OneRunner
    WorkerId <- Ids
    IdOf <- OwnIds
    OwnBase <- NoCommand
    ResultStatus <- Completed
    MaxAutoRepair <- NoRepair
    RepairTarget <- Execution
    RiskBlocked <- Never
    HumanApproval <- Never
    AutoCommit <- Always
    MaxRetries <- OnlyDefaultRetries
    Rerun <- NoCommand
    Pausing = TRUE
    Troubled <- Nowhere
    MaxActions = 2
    RerouteStage <- TestDesign
INVARIANTS
    AcceptedRouteHasNoTarget
    StalledRunCanBeMoved
    StalledRunAsksForAttention
    BlockedTaskHasAWayOn
PROPERTIES
    CancelIsNotUndone
CHECK_DEADLOCK FALSE
