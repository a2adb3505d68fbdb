SPECIFICATION FairSpec
CONSTANTS
    r1 = r1
    r2 = r2
    NoTask = NoTask
    NoRoute = NoRoute
    Route <- OneRoute
    RouteRank <- OneRank
    RouteDeps <- NoDeps
    ResultStatus <- Reports
    MaxAutoRepair <- RepairOnce
    RepairTarget <- Implementation
    RiskBlocked <- Never
    HumanApproval <- Always
    AutoCommit <- Always
    MaxCrashes = 1
INVARIANTS
    TypeOK
    OneActiveStagePerRoute
    CollaborationAfterDefect
    CompletedRunIsAccepted
    ClaimsWithinBudget
PROPERTIES
    LoopStops
CHECK_DEADLOCK FALSE
