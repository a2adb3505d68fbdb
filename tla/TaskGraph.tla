------------------------------ MODULE TaskGraph ------------------------------
(***************************************************************************)
(* The task graph a run is made of, as the planner builds it               *)
(* (planning/task-graph-service.ts).                                       *)
(*                                                                         *)
(* One workspace task, environment-preparation, is the root.  Every        *)
(* selected route then contributes a bundle of seven tasks, one per stage, *)
(* each depending on the stage before it; the first stage of a route       *)
(* depends on the root and on the evaluation of every route whose services *)
(* it consumes.                                                            *)
(*                                                                         *)
(* Abstracted: goals, target files, role profiles, commands and risk-rule  *)
(* matching.  What is left of a rule is the review policy of the route.    *)
(***************************************************************************)
EXTENDS Integers, FiniteSets

CONSTANTS
    Route,          \* the routes of the run
    RouteRank,      \* their order in the task graph
    RouteDeps       \* RouteDeps[r]: the routes whose services r consumes

ASSUME RouteAssumption ==
    /\ Route # {}
    /\ RouteRank \in [Route -> Nat]
    /\ \A q, r \in Route : RouteRank[q] = RouteRank[r] => q = r

\* The planner filters a route out of its own dependencies, and nothing else.
ASSUME RouteDepsAssumption ==
    /\ RouteDeps \in [Route -> SUBSET Route]
    /\ \A r \in Route : r \notin RouteDeps[r]

-----------------------------------------------------------------------------

RepairableStage == {"requirements-analysis", "code-implementation",
                    "test-design", "automated-execution"}

RouteStage == RepairableStage \cup {"defect-feedback", "collaboration", "evaluation"}

TaskStage == RouteStage \cup {"environment-preparation"}

\* The stages of a route in order, environment preparation before them all.
StageChain == <<"requirements-analysis", "code-implementation", "test-design",
                "automated-execution", "defect-feedback", "collaboration", "evaluation">>

StageOrder ==
    [s \in TaskStage |-> IF s = "environment-preparation" THEN 0
                        ELSE CHOOSE i \in 1..7 : StageChain[i] = s]

\* The id "<route>--<stage>" of a task is the pair; the root has no route.
EnvTask == <<"workspace", "environment-preparation">>

RouteTask == Route \X RouteStage

Task == RouteTask \cup {EnvTask}

RouteOf(t) == t[1]
StageOf(t) == t[2]

\* The task of stage s on the route of t (getRouteTaskId).
Sibling(t, s) == <<RouteOf(t), s>>

\* Mutant of LaterOnRoute: the route prefix of the task ids is not compared.
LaterOnAnyRoute(u, t, s) == StageOrder[StageOf(u)] > StageOrder[s]

\* Task u is on t's route, at a stage after s.
LaterOnRoute(u, t, s) ==
    RouteOf(u) = RouteOf(t) /\ StageOrder[StageOf(u)] > StageOrder[s]

\* Mutant of UpstreamOf: the collaboration is taken for the last stage of a route.
UpstreamHandover(r) == {<<d, "collaboration">> : d \in RouteDeps[r]}

\* What route r waits for: the last tasks of the routes it depends on.
UpstreamOf(r) == {<<d, "evaluation">> : d \in RouteDeps[r]}

DependsOn ==
    [t \in Task |->
        IF t = EnvTask THEN {}
        ELSE IF StageOf(t) = "requirements-analysis"
             THEN {EnvTask} \cup UpstreamOf(RouteOf(t))
             ELSE {Sibling(t, StageChain[StageOrder[StageOf(t)] - 1])}]

\* The position of a task in the graph's list of tasks.
Rank(t) == IF t = EnvTask THEN 0 ELSE 1 + 7 * RouteRank[RouteOf(t)] + StageOrder[StageOf(t)]

\* The task of set S that comes first in the graph.
FirstInGraph(S) == CHOOSE t \in S : \A u \in S : Rank(t) =< Rank(u)

TaskStatus == {"pending", "ready", "in-progress", "blocked",
               "completed", "failed", "skipped"}

\* The statuses the planner writes: the root is ready, the rest wait.
InitialStatus == [t \in Task |-> IF t = EnvTask THEN "ready" ELSE "pending"]
=============================================================================
