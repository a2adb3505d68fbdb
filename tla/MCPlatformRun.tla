---------------------------- MODULE MCPlatformRun ----------------------------
(* Instances of PlatformRun for model checking.                              *)
EXTENDS PlatformRun, TLC

CONSTANTS r1, r2, r3, runner, command, command2, shared

OneRoute == {r1}
TwoRoutes == {r1, r2}
ThreeRoutes == {r1, r2, r3}

OneRank == (r1 :> 0)
TwoRanks == (r1 :> 0) @@ (r2 :> 1)
ThreeRanks == (r1 :> 0) @@ (r2 :> 1) @@ (r3 :> 2)

NoDeps == [r \in Route |-> {}]
ThirdNeedsBoth == [r \in Route |-> IF r = r3 THEN {r1, r2} ELSE {}]

Never == [r \in Route |-> FALSE]
Always == [r \in Route |-> TRUE]

NoRepair == [r \in Route |-> 0]
RepairOnce == [r \in Route |-> 1]

\* Environment preparation has no review policy, so max_retries defaults to 3.
OnlyDefaultRetries == [t \in Task |-> IF t = EnvTask THEN 3 ELSE 0]
OneRetry == [t \in Task |-> IF t = EnvTask THEN 3 ELSE 1]

FirstRetries == [t \in Task |-> IF t = EnvTask THEN 3 ELSE IF RouteOf(t) = r1 THEN 1 ELSE 0]

TwoWorkers == {runner, command}
ThreeWorkers == {runner, command, command2}
Ids == ThreeWorkers \cup {shared}
OneRunner == {runner}
OneCommand == {command}
TwoCommands == {command, command2}
NoCommand == {}

\* Every worker goes by an id of its own, or the commands share one.
OwnIds == [w \in Worker |-> w]
SharedId == [w \in Worker |-> IF w \in AutoRunner THEN w ELSE shared]

Completed == {"completed"}
BlockedOnly == {"blocked"}
FailOrPass == {"completed", "failed"}

NoTarget == {}
Implementation == {"code-implementation"}
Execution == {"automated-execution"}

Nowhere == {}
InImplementation == {t \in Task : StageOf(t) = "code-implementation"}
InEvaluation == {t \in Task : StageOf(t) = "evaluation"}

-----------------------------------------------------------------------------
(* Runs that are under way: every stage before the one a route has reached is  *)
(* through at its first attempt, defect feedback skipped; nobody works.        *)

Before(t, s) == t = EnvTask \/ (s # NoStage /\ StageOrder[StageOf(t)] < StageOrder[s])

StatusAt(reached, t) ==
    IF Before(t, IF t = EnvTask THEN NoStage ELSE reached[RouteOf(t)])
    THEN IF StageOf(t) = "defect-feedback" THEN "skipped" ELSE "completed"
    ELSE IF StageOf(t) = reached[RouteOf(t)] THEN "ready" ELSE "pending"

UnderWay(reached) ==
    /\ ledger = [t \in Task |-> IF StatusAt(reached, t) = "completed"
                               THEN <<"completed">> ELSE <<>>]
    /\ row = [t \in Task |-> [status |-> StatusAt(reached, t), attempts |-> Len(ledger[t]),
                              retry |-> 0, lease |-> 0, owner |-> NoWorker,
                              live |-> FALSE]]
    /\ repairs = {}
    /\ runStatus = "running"
    /\ paused = FALSE
    /\ worker = [w \in Worker |-> Resting("idle")]

\* Every route is about to be evaluated.
ParallelSpec ==
    /\ UnderWay([r \in Route |-> "evaluation"])
    /\ [][Next]_vars

FairParallel == ParallelSpec /\ Fairness

\* The routes the third one depends on are about to be evaluated.
PromotionSpec ==
    /\ UnderWay([r \in Route |-> IF r = r3 THEN NoStage ELSE "evaluation"])
    /\ [][Next]_vars
=============================================================================
