SPECIFICATION Spec
CONSTANTS
    r1 = r1
    r2 = r2
    NoTask = NoTask
    NoRoute = NoRoute
    Route <- TwoRoutes
    RouteRank <- TwoRanks
    RouteDeps <- ChainDeps
    ResultStatus <- Reports
    MaxAutoRepair <- NoRepair
    RepairTarget <- EveryStage
    RiskBlocked <- Never
    HumanApproval <- OnlyFirst
    AutoCommit <- OnlySecond
    MaxCrashes = 0
INVARIANTS
    DependenciesStayAccepted
PROPERTIES
    AcceptedRouteIsFinal
CHECK_DEADLOCK FALSE
