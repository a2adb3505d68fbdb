--------------------------- MODULE MCWorkflowLoop ----------------------------
(* Instances of WorkflowLoop for model checking: one or two routes, the second *)
(* depending on the first, with the review policies a risk policy can give.   *)
EXTENDS WorkflowLoop, TLC

CONSTANTS r1, r2

OneRoute == {r1}
TwoRoutes == {r1, r2}

OneRank == (r1 :> 0)
TwoRanks == (r1 :> 0) @@ (r2 :> 1)

NoDeps == [r \in Route |-> {}]
ChainDeps == [r \in Route |-> IF r = r2 THEN {r1} ELSE {}]

Never == [r \in Route |-> FALSE]
Always == [r \in Route |-> TRUE]
OnlyFirst == [r \in Route |-> r = r1]
OnlySecond == [r \in Route |-> r = r2]

NoRepair == [r \in Route |-> 0]
RepairOnce == [r \in Route |-> 1]

Reports == {"completed", "failed", "blocked"}
Completed == {"completed"}
FailOrPass == {"completed", "failed"}

EveryStage == RepairableStage
Implementation == {"code-implementation"}
=============================================================================
