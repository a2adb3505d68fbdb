-------------------------- MODULE TaskRoutingProofs --------------------------
(***************************************************************************)
(* What the operators of TaskRouting return, for every task graph and      *)
(* every review policy: statuses for statuses, notes for notes; and the    *)
(* shape of a route while results are applied to it one at a time: one     *)
(* stage is open and the ones after it wait, whatever a result says and    *)
(* whatever is repaired or rerouted.  The proofs about the loop and about  *)
(* the platform rest on these lemmas.                                      *)
(***************************************************************************)
EXTENDS TaskRouting, RecursionProofs

Statuses == [Task -> TaskStatus]

Counts == [Task -> Nat]

\* What a result must be for the lemmas: any status, any target.
Result(o) ==
    /\ o.status \in TaskStatus
    /\ o.target \in RepairableStage \cup {NoStage}

\* The results adapters give are results.
LEMMA OutcomesAreResults ==
    ASSUME NEW s \in TaskStage, NEW o \in Outcomes[s]
    PROVE  Result(o)
<1>1. o.status \in ResultStatus
  BY DEF Outcomes
<1>2. o.target \in RepairTarget \cup {NoStage}
  BY DEF Outcomes
<1> QED
  BY <1>1, <1>2, PolicyAssumption DEF Result

-----------------------------------------------------------------------------
(* The task graph.                                                         *)

\* The graph is a set of pairs of a route and a stage, and the root.
LEMMA TaskIsPair ==
    ASSUME NEW t \in Task
    PROVE  /\ t = <<RouteOf(t), StageOf(t)>>
           /\ StageOf(t) \in TaskStage
           /\ t # EnvTask => RouteOf(t) \in Route /\ StageOf(t) \in RouteStage
BY DEF Task, RouteTask, EnvTask, RouteOf, StageOf, TaskStage

\* Every statuses' function the planner writes is one.
LEMMA InitialStatusType == InitialStatus \in Statuses
BY DEF InitialStatus, Statuses, TaskStatus

\* Every stage has a place on the chain, every task a place in the graph.
LEMMA StageOrderType ==
    ASSUME NEW s \in TaskStage
    PROVE  StageOrder[s] \in Nat
<1>1. s # "environment-preparation" => \E i \in 1..7 : StageChain[i] = s
  BY SMT DEF TaskStage, RouteStage, RepairableStage, StageChain
<1> QED
  BY <1>1 DEF StageOrder

\* The positions of tasks are naturals.
LEMMA RankType ==
    ASSUME NEW t \in Task
    PROVE  Rank(t) \in Nat
<1>1. CASE t # EnvTask
  <2>1. RouteRank[RouteOf(t)] \in Nat /\ StageOrder[StageOf(t)] \in Nat
    BY <1>1, TaskIsPair, StageOrderType, RouteAssumption
  <2> QED
    BY <2>1 DEF Rank
<1>2. CASE t = EnvTask
  BY <1>2 DEF Rank
<1> QED
  BY <1>1, <1>2

\* The first task of a set that is not empty is one of the set.
LEMMA FirstInGraphIsIn ==
    ASSUME NEW S \in SUBSET Task, S # {}
    PROVE  FirstInGraph(S) \in S
<1> DEFINE N == {Rank(t) : t \in S}
<1>1. N \in SUBSET Nat /\ N # {}
  BY RankType
<1>2. PICK n \in N : \A m \in N : n =< m
  BY <1>1, LeastNatural
<1>3. PICK t \in S : n = Rank(t)
  OBVIOUS
<1>4. \A u \in S : Rank(t) =< Rank(u)
  BY <1>2, <1>3
<1> QED
  BY <1>4 DEF FirstInGraph

-----------------------------------------------------------------------------
(* Statuses for statuses.                                                  *)

LEMMA PromoteType ==
    ASSUME NEW st \in Statuses
    PROVE  PromoteReadyTasks(st) \in Statuses
BY DEF PromoteReadyTasks, Statuses, TaskStatus

LEMMA SkipType ==
    ASSUME NEW st \in Statuses, NEW t \in Task
    PROVE  SkipBeforeDefect(st, t) \in Statuses
BY DEF SkipBeforeDefect, Statuses, TaskStatus

LEMMA RouteOutcomeType ==
    ASSUME NEW st \in Statuses, NEW t \in Task, NEW o
    PROVE  ApplyRouteOutcome(st, t, o) \in Statuses
<1>1. RouteStageOutcomeToDefect(st, t) \in Statuses
  <2> DEFINE skipped == SkipBeforeDefect(st, t)
  <2>1. skipped \in Statuses
    BY SkipType
  <2> HIDE DEF skipped
  <2>2. RouteStageOutcomeToDefect(st, t) =
          [skipped EXCEPT
            ![Sibling(t, "collaboration")] = IF @ = "ready" THEN "pending" ELSE @,
            ![Sibling(t, "defect-feedback")] =
                IF /\ StageOf(t) # "automated-execution"
                   /\ @ \in {"pending", "completed", "skipped", "blocked"}
                THEN "ready" ELSE @]
    BY DEF RouteStageOutcomeToDefect, skipped
  <2> QED
    BY <2>1, <2>2 DEF Statuses, TaskStatus
<1>2. [st EXCEPT ![Sibling(t, "defect-feedback")] =
            IF @ = "pending" THEN "skipped" ELSE @] \in Statuses
  BY DEF Statuses, TaskStatus
<1> QED
  BY <1>1, <1>2 DEF ApplyRouteOutcome

LEMMA CollaborationGateType ==
    ASSUME NEW st \in Statuses, NEW t \in Task, NEW o
    PROVE  CollaborationApprovalGate(st, t, o) \in Statuses
BY DEF CollaborationApprovalGate, Statuses, TaskStatus

LEMMA RerouteType ==
    ASSUME NEW st \in Statuses, NEW t \in Task, NEW target
    PROVE  RerouteEvaluation(st, t, target) \in Statuses
BY DEF RerouteEvaluation, Statuses, TaskStatus

LEMMA AcceptanceGateType ==
    ASSUME NEW st \in Statuses, NEW t \in Task, NEW o
    PROVE  EvaluationAcceptanceGate(st, t, o) \in Statuses
<1>1. BackToDefect(st, t) \in Statuses
  BY DEF BackToDefect, Statuses, TaskStatus
<1>2. [st EXCEPT ![t] = "blocked"] \in Statuses
  BY DEF Statuses, TaskStatus
<1> QED
  BY <1>1, <1>2, RerouteType DEF EvaluationAcceptanceGate

LEMMA PublicationGateType ==
    ASSUME NEW st \in Statuses, NEW t \in Task, NEW o
    PROVE  PublicationGate(st, t, o) \in Statuses
BY DEF PublicationGate, Statuses, TaskStatus

\* The statuses a result leaves behind are statuses again.
LEMMA JudgedType ==
    ASSUME NEW st \in Statuses, NEW t \in Task, NEW o, Result(o)
    PROVE  Judged(st, t, o) \in Statuses
<1> DEFINE reported == [st EXCEPT ![t] = o.status]
           routed == ApplyRouteOutcome(reported, t, o)
           handed == CollaborationApprovalGate(routed, t, o)
           accepted == EvaluationAcceptanceGate(handed, t, o)
<1>1. reported \in Statuses
  BY DEF Statuses, Result
<1> HIDE DEF reported
<1>2. routed \in Statuses
  BY <1>1, RouteOutcomeType
<1> HIDE DEF routed
<1>3. handed \in Statuses
  BY <1>2, CollaborationGateType
<1> HIDE DEF handed
<1>4. accepted \in Statuses
  BY <1>3, AcceptanceGateType
<1>5. Judged(st, t, o) = PublicationGate(accepted, t, o)
  BY DEF Judged, Gated, accepted, handed, routed, reported
<1> HIDE DEF accepted
<1> QED
  BY <1>4, <1>5, PublicationGateType

LEMMA AutoRepairType ==
    ASSUME NEW st \in Statuses, NEW t \in Task, NEW o, Result(o),
           NEW decision \in {"not-applicable", "escalated", "triggered"}
    PROVE  ApplyAutoRepair(st, decision, t, o) \in Statuses
BY DEF ApplyAutoRepair, Statuses, TaskStatus

LEMMA DecisionType ==
    ASSUME NEW st, NEW rep, NEW t, NEW o
    PROVE  RepairDecision(st, rep, t, o) \in {"not-applicable", "escalated", "triggered"}
BY DEF RepairDecision

LEMMA SettledType ==
    ASSUME NEW st \in Statuses, NEW t \in Task, NEW o, Result(o),
           NEW decision \in {"not-applicable", "escalated", "triggered"}
    PROVE  Settled(st, decision, t, o) \in Statuses
BY AutoRepairType, PromoteType DEF Settled

-----------------------------------------------------------------------------
(* Notes for notes.                                                        *)

\* A repair that is triggered has a target on the route of the defect.
LEMMA TriggeredHasTarget ==
    ASSUME NEW st \in Statuses, NEW rep \in Counts, NEW t \in Task, NEW o, Result(o),
           RepairDecision(st, rep, t, o) = "triggered"
    PROVE  /\ o.target \in RepairableStage
           /\ t \in RouteTask
           /\ Sibling(t, o.target) \in Task
           /\ rep[Sibling(t, o.target)] + 1 =< MaxAutoRepair[RouteOf(t)]
<1>1. /\ StageOf(t) = "defect-feedback"
      /\ o.target # NoStage
      /\ ~BudgetSpent(rep, t, o)
  BY DEF RepairDecision
<1>2. o.target \in RepairableStage /\ o.target \in RouteStage
  BY <1>1 DEF Result, RouteStage
<1>3. t \in RouteTask /\ RouteOf(t) \in Route
  BY <1>1, TaskIsPair DEF Task, EnvTask, StageOf
<1>4. Sibling(t, o.target) \in Task
  BY <1>2, <1>3 DEF Sibling, Task, RouteTask
<1>5. rep[Sibling(t, o.target)] \in Nat /\ MaxAutoRepair[RouteOf(t)] \in Nat
  BY <1>3, <1>4, PolicyAssumption DEF Counts
<1> QED
  BY <1>1, <1>2, <1>3, <1>4, <1>5 DEF BudgetSpent

LEMMA NoteRepairType ==
    ASSUME NEW st \in Statuses, NEW rep \in Counts, NEW t \in Task, NEW o, Result(o)
    PROVE  NoteRepair(rep, RepairDecision(st, rep, t, o), t, o) \in Counts
<1>1. CASE RepairDecision(st, rep, t, o) = "triggered"
  <2>1. rep[Sibling(t, o.target)] + 1 \in Nat
    BY <1>1, TriggeredHasTarget DEF Counts
  <2> QED
    BY <1>1, <2>1 DEF NoteRepair, Counts
<1>2. CASE RepairDecision(st, rep, t, o) # "triggered"
  BY <1>2 DEF NoteRepair
<1> QED
  BY <1>1, <1>2

-----------------------------------------------------------------------------
(* The shape of a route.                                                   *)

\* What an adapter can report of a task that is through.
FinalStatus == {"completed", "failed", "blocked", "skipped"}

\* An evaluation that asked for a repair waits blocked.
Waiting(st, r, u) ==
    \/ st[<<r, u>>] = "pending"
    \/ u = "evaluation" /\ st[<<r, u>>] = "blocked"

RestWaits(st, r, s) ==
    \A u \in RouteStage : StageOrder[u] > StageOrder[s] => Waiting(st, r, u)

Shaped(st, r) ==
    /\ \A s \in RouteStage : st[<<r, s>>] \in OpenStatus => RestWaits(st, r, s)
    /\ st[<<r, "requirements-analysis">>] = "pending" =>
            \A u \in RouteStage : st[<<r, u>>] = "pending"
    /\ st[<<r, "collaboration">>] \in OpenStatus => st[<<r, "defect-feedback">>] \in Passed

Previous(u) == StageChain[StageOrder[u] - 1]

\* Promotion would make this stage ready.
Ripe(st, r, u) ==
    /\ u # "requirements-analysis"
    /\ st[<<r, u>>] = "pending"
    /\ st[<<r, Previous(u)>>] \in Passed

\* The shape of a route between two results ...
RouteInv(st, r) == Shaped(st, r) /\ \A u \in RouteStage : ~Ripe(st, r, u)

\* ... and before promotion: what is about to be made ready is alone.
RoutePre(st, r) ==
    /\ Shaped(st, r)
    /\ \A u \in RouteStage : Ripe(st, r, u) =>
            /\ \A s \in RouteStage : st[<<r, s>>] \notin OpenStatus
            /\ RestWaits(st, r, u)

-----------------------------------------------------------------------------
(* The task graph, spelled out.                                            *)

\* The stages of a route are numbered one to seven.
LEMMA StageOrderValues ==
    /\ StageOrder["requirements-analysis"] = 1
    /\ StageOrder["code-implementation"] = 2
    /\ StageOrder["test-design"] = 3
    /\ StageOrder["automated-execution"] = 4
    /\ StageOrder["defect-feedback"] = 5
    /\ StageOrder["collaboration"] = 6
    /\ StageOrder["evaluation"] = 7
<1>1. \A i, j \in 1..7 : StageChain[i] = StageChain[j] => i = j
  BY SMTT(30) DEF StageChain
<1>2. ASSUME NEW i \in 1..7
      PROVE  StageOrder[StageChain[i]] = i
  <2>1. StageChain[i] \in TaskStage /\ StageChain[i] # "environment-preparation"
    BY SMTT(30) DEF StageChain, TaskStage, RouteStage, RepairableStage
  <2> QED
    BY <1>1, <2>1 DEF StageOrder
<1> QED
  BY <1>2, SMTT(30) DEF StageChain

\* Every stage but the first has one before it.
LEMMA PreviousValues ==
    /\ Previous("code-implementation") = "requirements-analysis"
    /\ Previous("test-design") = "code-implementation"
    /\ Previous("automated-execution") = "test-design"
    /\ Previous("defect-feedback") = "automated-execution"
    /\ Previous("collaboration") = "defect-feedback"
    /\ Previous("evaluation") = "collaboration"
BY StageOrderValues DEF Previous, StageChain

\* A stage after the first depends on the one before it, and on nothing else.
LEMMA DependsOnPrevious ==
    ASSUME NEW r \in Route, NEW u \in RouteStage, u # "requirements-analysis"
    PROVE  DependsOn[<<r, u>>] = {<<r, Previous(u)>>}
<1>1. <<r, u>> \in Task /\ <<r, u>> # EnvTask
  BY DEF Task, RouteTask, EnvTask, RouteStage, RepairableStage
<1> QED
  BY <1>1 DEF DependsOn, StageOf, RouteOf, Sibling, Previous

-----------------------------------------------------------------------------
(* Promotion.                                                              *)

LEMMA PromotedRoute ==
    ASSUME NEW st \in Statuses, NEW r \in Route, NEW u \in RouteStage
    PROVE  /\ u # "requirements-analysis" =>
                PromoteReadyTasks(st)[<<r, u>>] = IF Ripe(st, r, u) THEN "ready" ELSE st[<<r, u>>]
           /\ \/ PromoteReadyTasks(st)[<<r, u>>] = st[<<r, u>>]
              \/ st[<<r, u>>] = "pending" /\ PromoteReadyTasks(st)[<<r, u>>] = "ready"
<1>1. <<r, u>> \in Task
  BY DEF Task, RouteTask
<1>2. u # "requirements-analysis" =>
        (DependenciesPassed(st, <<r, u>>) <=> st[<<r, Previous(u)>>] \in Passed)
  BY DependsOnPrevious DEF DependenciesPassed
<1>3. u # "requirements-analysis" => DependsOn[<<r, u>>] # {}
  BY DependsOnPrevious
<1> QED
  BY <1>1, <1>2, <1>3 DEF PromoteReadyTasks, Ripe

\* Promotion gives a route its shape back.
LEMMA PromoteShape ==
    ASSUME NEW st \in Statuses, NEW r \in Route, RoutePre(st, r)
    PROVE  RouteInv(PromoteReadyTasks(st), r)
<1> DEFINE p == PromoteReadyTasks(st)
<1>1. ASSUME NEW u \in RouteStage
      PROVE  /\ u # "requirements-analysis" =>
                  p[<<r, u>>] = IF Ripe(st, r, u) THEN "ready" ELSE st[<<r, u>>]
             /\ \/ p[<<r, u>>] = st[<<r, u>>]
                \/ st[<<r, u>>] = "pending" /\ p[<<r, u>>] = "ready"
  BY PromotedRoute
<1> HIDE DEF p
<1>2. \A u \in RouteStage : ~Ripe(p, r, u)
  BY <1>1, PreviousValues, SMTT(30) DEF Ripe, RouteStage, RepairableStage, Passed
<1>3. CASE st[<<r, "requirements-analysis">>] = "pending"
  <2>1. \A u \in RouteStage : st[<<r, u>>] = "pending"
    BY <1>3 DEF RoutePre, Shaped
  <2>2. \A u \in RouteStage : u # "requirements-analysis" => p[<<r, u>>] = "pending"
    BY <1>1, <2>1, PreviousValues, SMTT(30) DEF Ripe, RouteStage, RepairableStage, Passed
  <2> QED
    BY <1>1, <1>2, <2>1, <2>2, StageOrderValues, SMTT(30)
       DEF RouteInv, Shaped, RestWaits, Waiting, OpenStatus, RouteStage, RepairableStage, p
<1>4. CASE st[<<r, "requirements-analysis">>] # "pending"
  <2>1. p[<<r, "requirements-analysis">>] = st[<<r, "requirements-analysis">>]
    BY <1>1, <1>4 DEF RouteStage, RepairableStage
  <2>2. CASE \E u \in RouteStage : Ripe(st, r, u)
    <3>1. PICK u \in RouteStage : Ripe(st, r, u)
      BY <2>2
    <3>2. /\ \A s \in RouteStage : st[<<r, s>>] \notin OpenStatus
          /\ RestWaits(st, r, u)
      BY <3>1 DEF RoutePre
    <3>3. \A v \in RouteStage : Ripe(st, r, v) => v = u
      <4>1. \A v \in RouteStage : Ripe(st, r, v) => RestWaits(st, r, v)
        BY DEF RoutePre
      <4> QED
        BY <3>1, <3>2, <4>1, StageOrderValues, PreviousValues, SMTT(60)
           DEF RestWaits, Waiting, Ripe, Passed, RouteStage, RepairableStage
    <3>4. \A v \in RouteStage : v # u => p[<<r, v>>] = st[<<r, v>>]
      BY <1>1, <2>1, <3>3
    <3>5. p[<<r, u>>] = "ready"
      BY <1>1, <3>1 DEF Ripe
    <3>6. \A s \in RouteStage : p[<<r, s>>] \in OpenStatus => s = u
      BY <3>2, <3>4
    <3>7. RestWaits(p, r, u)
      BY <3>2, <3>4, StageOrderValues, SMTT(30)
         DEF RestWaits, Waiting, RouteStage, RepairableStage
    <3>8. p[<<r, "collaboration">>] \in OpenStatus => p[<<r, "defect-feedback">>] \in Passed
      BY <3>1, <3>4, <3>6, PreviousValues, SMT DEF Ripe, RouteStage
    <3>9. Shaped(p, r)
      BY <1>4, <2>1, <3>6, <3>7, <3>8, Zenon DEF Shaped
    <3> QED
      BY <1>2, <3>9 DEF RouteInv, p
  <2>3. CASE \A u \in RouteStage : ~Ripe(st, r, u)
    <3>1. \A v \in RouteStage : p[<<r, v>>] = st[<<r, v>>]
      BY <1>1, <2>1, <2>3
    <3> QED
      BY <1>2, <3>1
         DEF RouteInv, RoutePre, Shaped, RestWaits, Waiting, RouteStage, RepairableStage, p
  <2> QED
    BY <2>2, <2>3
<1> QED
  BY <1>3, <1>4 DEF p

-----------------------------------------------------------------------------
(* What a result does to the route of a task that is in progress: nothing  *)
(* else on the route is open, and every way the result is settled leaves   *)
(* the route in a shape promotion can be applied to.                       *)

\* A route whose stage s is in progress.
AtWork(st, r, s) == RouteInv(st, r) /\ st[<<r, s>>] = "in-progress"

\* What a result can make of the route of its task: the task is through, with
\* status x, and nothing else changes; ...
Through(st, new, r, s, x) ==
    \A u \in RouteStage : new[<<r, u>>] = IF u = s THEN x ELSE st[<<r, u>>]

\* ... an execution is through and defect feedback is skipped; ...
DefectSkipped(st, new, r, x) ==
    \A u \in RouteStage : new[<<r, u>>] =
        CASE u = "automated-execution" -> x
          [] u = "defect-feedback"     -> "skipped"
          [] OTHER                     -> st[<<r, u>>]

\* ... a stage before the execution is through and the route goes to defect
\* feedback; ...
ToDefect(st, new, r, s, x) ==
    \A u \in RouteStage : new[<<r, u>>] =
        CASE u = s                 -> x
          [] u = "defect-feedback" -> "ready"
          [] OTHER -> IF u \in RepairableStage /\ StageOrder[u] > StageOrder[s]
                      THEN "skipped" ELSE st[<<r, u>>]

\* ... a defect is through and handed over to collaboration; ...
Escalated(st, new, r) ==
    \A u \in RouteStage : new[<<r, u>>] =
        CASE u = "defect-feedback" -> "completed"
          [] u = "collaboration"   -> "ready"
          [] OTHER                 -> st[<<r, u>>]

\* ... or an earlier stage is taken up again and those after it wait, the
\* evaluation with status x.
TakenUp(st, new, r, target, x) ==
    \A u \in RouteStage : new[<<r, u>>] =
        IF u = target THEN "ready"
        ELSE IF StageOrder[u] > StageOrder[target]
             THEN IF u = "evaluation" THEN x ELSE "pending"
        ELSE st[<<r, u>>]

\* The result of an evaluation that ends its route.
Accepts(o) == ~RerouteRequested(o) /\ ~Unmet(o) /\ o.decision = "accepted"

\* What the result o of stage s and the repair decision on it make of a route.
Moved(st, new, r, s, o, decision) ==
    \/ \E x \in {o.status, "blocked"} :
            /\ Through(st, new, r, s, x)
            /\ s = "evaluation" /\ x = "completed" => Accepts(o)
    \/ s = "automated-execution" /\ DefectSkipped(st, new, r, o.status)
    \/ s \in RepairableStage \ {"automated-execution"} /\ ToDefect(st, new, r, s, o.status)
    \/ s = "defect-feedback" /\ Escalated(st, new, r)
    \/ /\ s = "defect-feedback" /\ decision = "triggered"
       /\ o.target \in RepairableStage
       /\ TakenUp(st, new, r, o.target, "pending")
    \/ /\ s = "evaluation"
       /\ \E target \in RepairableStage \cup {"defect-feedback"} :
            TakenUp(st, new, r, target, "blocked")

LEMMA NothingElseOpen ==
    ASSUME NEW st \in Statuses, NEW r \in Route, NEW s \in RouteStage, AtWork(st, r, s)
    PROVE  /\ \A u \in RouteStage : u # s => st[<<r, u>>] \notin OpenStatus
           /\ RestWaits(st, r, s)
           /\ st[<<r, "requirements-analysis">>] # "pending"
           /\ \A u \in RouteStage : ~Ripe(st, r, u)
<1>1. RestWaits(st, r, s)
  BY DEF AtWork, RouteInv, Shaped, OpenStatus
<1>2. ASSUME NEW u \in RouteStage, u # s, st[<<r, u>>] \in OpenStatus
      PROVE  FALSE
  <2>1. RestWaits(st, r, u)
    BY <1>2 DEF AtWork, RouteInv, Shaped
  <2> QED
    BY <1>1, <1>2, <2>1, StageOrderValues, SMTT(30)
       DEF AtWork, RestWaits, Waiting, OpenStatus, RouteStage, RepairableStage
<1>3. st[<<r, "requirements-analysis">>] # "pending"
  BY DEF AtWork, RouteInv, Shaped
<1> QED
  BY <1>1, <1>2, <1>3 DEF AtWork, RouteInv

\* The task is through, and nothing else changes.
LEMMA ThroughShape ==
    ASSUME NEW st \in Statuses, NEW r \in Route, NEW s \in RouteStage, AtWork(st, r, s),
           NEW x \in FinalStatus, NEW new \in Statuses, Through(st, new, r, s, x)
    PROVE  RoutePre(new, r)
<1> USE DEF Through
<1>1. \A u \in RouteStage : new[<<r, u>>] \notin OpenStatus
  BY NothingElseOpen DEF FinalStatus, OpenStatus
<1>2. new[<<r, "requirements-analysis">>] # "pending"
  BY NothingElseOpen DEF FinalStatus, RouteStage, RepairableStage
<1>3. ASSUME NEW u \in RouteStage, Ripe(new, r, u)
      PROVE  RestWaits(new, r, u)
  <2>1. ~Ripe(st, r, u) /\ RestWaits(st, r, s)
    BY NothingElseOpen
  <2>2. Previous(u) = s
    BY <1>3, <2>1, PreviousValues, SMTT(30)
       DEF Ripe, FinalStatus, RouteStage, RepairableStage
  <2> QED
    BY <1>3, <2>1, <2>2, StageOrderValues, PreviousValues, SMTT(30)
       DEF Ripe, RestWaits, Waiting, RouteStage, RepairableStage
<1>4. Shaped(new, r)
  BY <1>1, <1>2 DEF Shaped, RouteStage
<1> QED
  BY <1>1, <1>3, <1>4 DEF RoutePre

\* An execution is through and defect feedback is skipped.
LEMMA DefectSkippedShape ==
    ASSUME NEW st \in Statuses, NEW r \in Route, AtWork(st, r, "automated-execution"),
           NEW x \in FinalStatus, NEW new \in Statuses, DefectSkipped(st, new, r, x)
    PROVE  RoutePre(new, r)
<1> USE DEF DefectSkipped
<1>1. "automated-execution" \in RouteStage
  BY DEF RouteStage, RepairableStage
<1>2. \A u \in RouteStage : new[<<r, u>>] \notin OpenStatus
  BY <1>1, NothingElseOpen DEF FinalStatus, OpenStatus
<1>3. new[<<r, "requirements-analysis">>] # "pending"
  BY <1>1, NothingElseOpen DEF RouteStage, RepairableStage
<1>4. ASSUME NEW u \in RouteStage, Ripe(new, r, u)
      PROVE  RestWaits(new, r, u)
  <2>1. ~Ripe(st, r, u) /\ RestWaits(st, r, "automated-execution")
    BY <1>1, NothingElseOpen
  <2>2. u \in {"collaboration", "evaluation"}
    BY <1>4, <2>1, PreviousValues, SMTT(30)
       DEF Ripe, FinalStatus, RouteStage, RepairableStage
  <2> QED
    BY <2>1, <2>2, StageOrderValues, SMTT(30)
       DEF RestWaits, Waiting, RouteStage, RepairableStage
<1>5. Shaped(new, r)
  BY <1>2, <1>3 DEF Shaped, RouteStage
<1> QED
  BY <1>2, <1>4, <1>5 DEF RoutePre

\* A stage before the execution is through and the route goes to defect feedback.
LEMMA ToDefectShape ==
    ASSUME NEW st \in Statuses, NEW r \in Route, NEW s \in RepairableStage,
           s # "automated-execution", AtWork(st, r, s),
           NEW x \in FinalStatus, NEW new \in Statuses, ToDefect(st, new, r, s, x)
    PROVE  RoutePre(new, r)
<1> USE DEF ToDefect
<1>1. s \in RouteStage
  BY DEF RouteStage
<1>2. \A u \in RouteStage : new[<<r, u>>] \in OpenStatus => u = "defect-feedback"
  BY <1>1, NothingElseOpen DEF FinalStatus, OpenStatus
<1>3. RestWaits(new, r, "defect-feedback")
  <2>1. RestWaits(st, r, s)
    BY <1>1, NothingElseOpen
  <2>2. /\ new[<<r, "collaboration">>] = st[<<r, "collaboration">>]
        /\ new[<<r, "evaluation">>] = st[<<r, "evaluation">>]
    BY DEF RouteStage, RepairableStage
  <2> QED
    BY <2>1, <2>2, StageOrderValues, SMTT(30)
       DEF RestWaits, Waiting, RouteStage, RepairableStage
<1>4. new[<<r, "requirements-analysis">>] # "pending"
  <2>1. st[<<r, "requirements-analysis">>] # "pending"
    BY <1>1, NothingElseOpen
  <2>2. new[<<r, "requirements-analysis">>] \in {st[<<r, "requirements-analysis">>], x, "skipped"}
    BY DEF RouteStage, RepairableStage
  <2> QED
    BY <2>1, <2>2 DEF FinalStatus
<1>5. ASSUME NEW u \in RouteStage, Ripe(new, r, u)
      PROVE  FALSE
  <2>1. ~Ripe(st, r, u) /\ RestWaits(st, r, s)
    BY <1>1, NothingElseOpen
  <2>2. CASE u \in RepairableStage
    BY <1>5, <2>1, <2>2, StageOrderValues, PreviousValues, SMTT(30)
       DEF Ripe, FinalStatus, RepairableStage, RouteStage
  <2>3. CASE u \notin RepairableStage
    BY <1>5, <2>1, <2>3, StageOrderValues, PreviousValues, SMTT(30)
       DEF Ripe, RestWaits, Waiting, Passed, RouteStage, RepairableStage
  <2> QED
    BY <2>2, <2>3
<1>6. Shaped(new, r)
  BY <1>2, <1>3, <1>4 DEF Shaped, RouteStage
<1> QED
  BY <1>5, <1>6 DEF RoutePre

\* A defect is through and handed over to collaboration.
LEMMA EscalatedShape ==
    ASSUME NEW st \in Statuses, NEW r \in Route, AtWork(st, r, "defect-feedback"),
           NEW new \in Statuses, Escalated(st, new, r)
    PROVE  RoutePre(new, r)
<1> USE DEF Escalated
<1>1. "defect-feedback" \in RouteStage
  BY DEF RouteStage
<1>2. \A u \in RouteStage : new[<<r, u>>] \in OpenStatus => u = "collaboration"
  BY <1>1, NothingElseOpen DEF OpenStatus
<1>3. RestWaits(new, r, "collaboration")
  <2>1. RestWaits(st, r, "defect-feedback")
    BY <1>1, NothingElseOpen
  <2>2. new[<<r, "evaluation">>] = st[<<r, "evaluation">>]
    BY DEF RouteStage
  <2> QED
    BY <2>1, <2>2, StageOrderValues, SMTT(30)
       DEF RestWaits, Waiting, RouteStage, RepairableStage
<1>4. new[<<r, "requirements-analysis">>] # "pending"
  BY <1>1, NothingElseOpen DEF RouteStage, RepairableStage
<1>5. ASSUME NEW u \in RouteStage, Ripe(new, r, u)
      PROVE  FALSE
  <2>1. ~Ripe(st, r, u)
    BY <1>1, NothingElseOpen
  <2> QED
    BY <1>5, <2>1, PreviousValues, SMTT(30)
       DEF Ripe, Passed, RouteStage, RepairableStage
<1>6. new[<<r, "defect-feedback">>] \in Passed
  BY <1>1 DEF Passed
<1>7. Shaped(new, r)
  BY <1>2, <1>3, <1>4, <1>6 DEF Shaped, RouteStage
<1> QED
  BY <1>5, <1>7 DEF RoutePre

\* An earlier stage is taken up again, and the ones after it wait.
LEMMA RepairedShape ==
    ASSUME NEW st \in Statuses, NEW r \in Route,
           NEW s \in {"defect-feedback", "evaluation"}, AtWork(st, r, s),
           NEW target \in RepairableStage \cup {"defect-feedback"}, target # s,
           NEW x \in {"pending", "blocked"},
           NEW new \in Statuses, TakenUp(st, new, r, target, x)
    PROVE  RoutePre(new, r)
<1>0. \A u \in RouteStage :
        /\ u = target => new[<<r, u>>] = "ready"
        /\ StageOrder[u] < StageOrder[target] => new[<<r, u>>] = st[<<r, u>>]
        /\ StageOrder[u] > StageOrder[target] => Waiting(new, r, u)
  BY StageOrderValues, SMTT(30) DEF TakenUp, Waiting, RouteStage, RepairableStage
<1>1. s \in RouteStage /\ target \in RouteStage
  BY DEF RouteStage
<1>2. StageOrder[target] < StageOrder[s]
  BY StageOrderValues, SMTT(30) DEF RepairableStage
<1>3. \A u \in RouteStage :
        \/ u = target
        \/ StageOrder[u] < StageOrder[target]
        \/ StageOrder[u] > StageOrder[target]
  BY <1>1, StageOrderValues, SMTT(30) DEF RouteStage, RepairableStage
<1>4. \A u \in RouteStage : StageOrder[u] < StageOrder[target] => u # s
  BY <1>1, <1>2, StageOrderValues, SMTT(30) DEF RouteStage, RepairableStage
<1>5. ASSUME NEW u \in RouteStage, new[<<r, u>>] \in OpenStatus
      PROVE  u = target
  <2>1. ~Waiting(new, r, u)
    BY <1>5 DEF Waiting, OpenStatus
  <2>2. ~(StageOrder[u] > StageOrder[target])
    BY <1>0, <2>1
  <2>3. u # s => st[<<r, u>>] \notin OpenStatus
    BY <1>1, NothingElseOpen
  <2> QED
    BY <1>0, <1>3, <1>4, <1>5, <2>2, <2>3
<1>6. RestWaits(new, r, target)
  BY <1>0 DEF RestWaits
<1>7. new[<<r, "requirements-analysis">>] # "pending"
  <2>1. st[<<r, "requirements-analysis">>] # "pending"
    BY <1>1, NothingElseOpen
  <2>2. \/ "requirements-analysis" = target
        \/ StageOrder["requirements-analysis"] < StageOrder[target]
    BY StageOrderValues, SMTT(30) DEF RepairableStage
  <2> QED
    BY <1>0, <2>1, <2>2 DEF RouteStage, RepairableStage
<1>8. ASSUME NEW u \in RouteStage, Ripe(new, r, u)
      PROVE  FALSE
  <2>1. ~Ripe(st, r, u)
    BY <1>1, NothingElseOpen
  <2>2. StageOrder[u] > StageOrder[target]
    BY <1>0, <1>1, <1>8, <2>1, StageOrderValues, PreviousValues, SMTT(60)
       DEF Ripe, RouteStage, RepairableStage
  <2> QED
    BY <1>0, <1>1, <1>8, <2>2, StageOrderValues, PreviousValues, SMTT(60)
       DEF Ripe, Passed, Waiting, RouteStage, RepairableStage
<1>9. Shaped(new, r)
  BY <1>5, <1>6, <1>7 DEF Shaped, RouteStage, RepairableStage
<1> QED
  BY <1>8, <1>9 DEF RoutePre

-----------------------------------------------------------------------------
(* The whole of a result, promotion excepted.                              *)

After(st, rep, t, o) ==
    ApplyAutoRepair(Judged(st, t, o), RepairDecision(Judged(st, t, o), rep, t, o), t, o)

LEMMA AfterType ==
    ASSUME NEW st \in Statuses, NEW rep, NEW t \in Task, NEW o, Result(o)
    PROVE  After(st, rep, t, o) \in Statuses
<1> DEFINE judged == Judged(st, t, o)
<1>1. judged \in Statuses
  BY JudgedType
<1> HIDE DEF judged
<1>2. ApplyAutoRepair(judged, RepairDecision(judged, rep, t, o), t, o) \in Statuses
  BY <1>1, DecisionType, AutoRepairType
<1> QED
  BY <1>2 DEF After, judged

\* Only a defect that is through can trigger or escalate a repair.
LEMMA AfterIsJudged ==
    ASSUME NEW st, NEW rep, NEW t, NEW o, StageOf(t) # "defect-feedback"
    PROVE  After(st, rep, t, o) = Judged(st, t, o)
BY DEF After, RepairDecision, ApplyAutoRepair

\* The tasks of a route, and the stages of these tasks.
LEMMA TaskOfStage ==
    ASSUME NEW r \in Route, NEW s \in RouteStage
    PROVE  /\ <<r, s>> \in Task
           /\ StageOf(<<r, s>>) = s
           /\ RouteOf(<<r, s>>) = r
           /\ \A u \in RouteStage : Sibling(<<r, s>>, u) = <<r, u>>
BY DEF Task, RouteTask, StageOf, RouteOf, Sibling

LEMMA DeliveryMoves ==
    ASSUME NEW st \in Statuses, NEW rep, NEW r \in Route, NEW s \in RepairableStage,
           AtWork(st, r, s), NEW o, Result(o), o.status \in FinalStatus
    PROVE  Moved(st, After(st, rep, <<r, s>>, o), r, s, o,
                 RepairDecision(Judged(st, <<r, s>>, o), rep, <<r, s>>, o))
<1> DEFINE t == <<r, s>>
           new == After(st, rep, t, o)
           done == [st EXCEPT ![t] = o.status]
           decision == RepairDecision(Judged(st, t, o), rep, t, o)
<1>1. s \in RouteStage /\ s # "defect-feedback" /\ s # "collaboration" /\ s # "evaluation"
  BY DEF RouteStage, RepairableStage
<1>2. t \in Task /\ StageOf(t) = s /\ RouteOf(t) = r
  BY <1>1, TaskOfStage
<1>4. new = ApplyRouteOutcome(done, t, o)
  <2>1. new = Judged(st, t, o)
    BY <1>1, <1>2, AfterIsJudged
  <2>2. Gated(st, t, o) = ApplyRouteOutcome(done, t, o)
    BY <1>1, <1>2 DEF Gated, EvaluationAcceptanceGate, CollaborationApprovalGate
  <2>3. Judged(st, t, o) = Gated(st, t, o)
    BY <1>1, <1>2 DEF Judged, PublicationGate, PublishesRoute
  <2> QED
    BY <2>1, <2>2, <2>3
<1>5. /\ done \in Statuses
      /\ \A u \in RouteStage : done[<<r, u>>] = IF u = s THEN o.status ELSE st[<<r, u>>]
  BY <1>2, TaskOfStage DEF Statuses, Result
<1>6. RestWaits(st, r, s)
  BY <1>1, NothingElseOpen
<1>7. \A u \in RouteStage : StageOrder[u] > StageOrder[s] =>
        u # s /\ (u # "evaluation" => st[<<r, u>>] = "pending")
  BY <1>1, <1>6, StageOrderValues, SMTT(30)
     DEF RestWaits, Waiting, RouteStage, RepairableStage
<1> DEFINE skipped == SkipBeforeDefect(done, t)
<1>8. /\ skipped \in Statuses
      /\ \A u \in RouteStage : skipped[<<r, u>>] =
            IF u \in RepairableStage /\ StageOrder[u] > StageOrder[s]
            THEN "skipped" ELSE done[<<r, u>>]
  <2>1. skipped \in Statuses
    BY <1>2, <1>5, SkipType
  <2>2. ASSUME NEW u \in RouteStage
        PROVE  skipped[<<r, u>>] = IF u \in RepairableStage /\ StageOrder[u] > StageOrder[s]
                                   THEN "skipped" ELSE done[<<r, u>>]
    <3> HIDE DEF done
    <3>1. <<r, u>> \in Task /\ StageOf(<<r, u>>) = u /\ RouteOf(<<r, u>>) = r
      BY TaskOfStage
    <3>2. u \in RepairableStage /\ StageOrder[u] > StageOrder[s] => done[<<r, u>>] = "pending"
      BY <1>5, <1>7 DEF RepairableStage
    <3> QED
      BY <1>2, <3>1, <3>2 DEF SkipBeforeDefect, LaterOnRoute
  <2> QED
    BY <2>1, <2>2
<1> HIDE DEF skipped, done, new, decision
<1>9. CASE ShouldRouteToDefect(o)
  <2>1. new = RouteStageOutcomeToDefect(done, t)
    BY <1>2, <1>4, <1>9 DEF ApplyRouteOutcome
  <2>2. /\ Sibling(t, "collaboration") = <<r, "collaboration">>
        /\ Sibling(t, "defect-feedback") = <<r, "defect-feedback">>
    BY <1>2 DEF Sibling
  <2>3. /\ skipped[<<r, "collaboration">>] = "pending"
        /\ skipped[<<r, "defect-feedback">>] = "pending"
    BY <1>1, <1>5, <1>7, <1>8, StageOrderValues, SMTT(30) DEF RouteStage, RepairableStage
  <2>4. new = [skipped EXCEPT
                ![<<r, "collaboration">>] = "pending",
                ![<<r, "defect-feedback">>] =
                    IF s # "automated-execution" THEN "ready" ELSE "pending"]
    BY <1>2, <1>8, <2>1, <2>2, <2>3 DEF RouteStageOutcomeToDefect, skipped
  <2>5. \A u \in RouteStage : <<r, u>> \in Task
    BY TaskOfStage
  <2>6. ASSUME NEW u \in RouteStage
        PROVE  new[<<r, u>>] = IF u = "defect-feedback"
                               THEN IF s # "automated-execution" THEN "ready" ELSE "pending"
                               ELSE skipped[<<r, u>>]
    BY <1>8, <2>3, <2>4, <2>5 DEF Statuses
  <2>7. CASE s = "automated-execution"
    <3>1. \A u \in RouteStage : new[<<r, u>>] = IF u = s THEN o.status ELSE st[<<r, u>>]
      BY <1>5, <1>7, <1>8, <2>6, <2>7, StageOrderValues, SMTT(30)
         DEF RouteStage, RepairableStage
    <3>2. Moved(st, new, r, s, o, decision)
      BY <1>1, <3>1 DEF Moved, Through
    <3> QED
      BY <3>2 DEF new, decision
  <2>8. CASE s # "automated-execution"
    <3>1. ASSUME NEW u \in RouteStage
          PROVE  new[<<r, u>>] =
                    CASE u = s                 -> o.status
                      [] u = "defect-feedback" -> "ready"
                      [] OTHER -> IF u \in RepairableStage /\ StageOrder[u] > StageOrder[s]
                                  THEN "skipped" ELSE st[<<r, u>>]
      BY <1>1, <1>5, <1>7, <1>8, <2>6, <2>8, SMTT(30)
    <3>2. Moved(st, new, r, s, o, decision)
      BY <2>8, <3>1 DEF Moved, ToDefect
    <3> QED
      BY <3>2 DEF new, decision
  <2> QED
    BY <2>7, <2>8
<1>10. CASE ~ShouldRouteToDefect(o) /\ s = "automated-execution"
  <2>1. new = [done EXCEPT ![<<r, "defect-feedback">>] = IF @ = "pending" THEN "skipped" ELSE @]
    BY <1>1, <1>2, <1>4, <1>10 DEF ApplyRouteOutcome, Sibling
  <2>2. done[<<r, "defect-feedback">>] = "pending"
    BY <1>5, <1>7, <1>10, StageOrderValues, SMTT(30) DEF RouteStage
  <2>3. \A u \in RouteStage : <<r, u>> \in Task
    BY TaskOfStage
  <2>4. ASSUME NEW u \in RouteStage
        PROVE  new[<<r, u>>] = CASE u = "automated-execution" -> o.status
                                 [] u = "defect-feedback"     -> "skipped"
                                 [] OTHER                     -> st[<<r, u>>]
    BY <1>5, <1>10, <2>1, <2>2, <2>3 DEF Statuses
  <2>5. Moved(st, new, r, s, o, decision)
    BY <1>10, <2>4 DEF Moved, DefectSkipped
  <2> QED
    BY <2>5 DEF new, decision
<1>11. CASE ~ShouldRouteToDefect(o) /\ s # "automated-execution"
  <2>1. new = done
    BY <1>2, <1>4, <1>11 DEF ApplyRouteOutcome
  <2>2. Moved(st, new, r, s, o, decision)
    BY <1>1, <1>5, <2>1 DEF Moved, Through
  <2> QED
    BY <2>2 DEF new, decision
<1> QED
  BY <1>9, <1>10, <1>11

LEMMA DefectMoves ==
    ASSUME NEW st \in Statuses, NEW rep, NEW r \in Route, AtWork(st, r, "defect-feedback"),
           NEW o, Result(o), o.status \in FinalStatus
    PROVE  Moved(st, After(st, rep, <<r, "defect-feedback">>, o), r, "defect-feedback", o,
                 RepairDecision(Judged(st, <<r, "defect-feedback">>, o), rep, <<r, "defect-feedback">>, o))
<1> DEFINE s == "defect-feedback"
           t == <<r, s>>
           done == [st EXCEPT ![t] = o.status]
           decision == RepairDecision(done, rep, t, o)
           new == After(st, rep, t, o)
           moved == Moved(st, new, r, s, o, decision)
<1>1. s \in RouteStage /\ s \notin RepairableStage
  BY DEF RouteStage, RepairableStage
<1>2. /\ t \in Task /\ StageOf(t) = s /\ RouteOf(t) = r
      /\ \A u \in RouteStage : Sibling(t, u) = <<r, u>>
  BY <1>1, TaskOfStage
<1>4. Judged(st, t, o) = done
  BY <1>1, <1>2
     DEF Judged, Gated, PublicationGate, PublishesRoute, EvaluationAcceptanceGate,
         CollaborationApprovalGate, ApplyRouteOutcome
<1>5. /\ done \in Statuses
      /\ \A u \in RouteStage : done[<<r, u>>] = IF u = s THEN o.status ELSE st[<<r, u>>]
  BY <1>2, TaskOfStage DEF Statuses, Result
<1>6. new = ApplyAutoRepair(done, decision, t, o)
  BY <1>4 DEF After
<1>7. decision \in {"not-applicable", "escalated", "triggered"}
  BY DecisionType
<1>8. /\ decision # "not-applicable" => done[t] = "completed"
      /\ decision = "triggered" => o.target \in RepairableStage
  BY DEF RepairDecision, Result
<1> SUFFICES moved
  BY <1>4
<1> HIDE DEF done, new, decision
<1>9. CASE decision = "not-applicable"
  <2>1. new = done
    BY <1>6, <1>9 DEF ApplyAutoRepair
  <2> QED
    BY <1>5, <2>1 DEF Moved, Through
<1>10. CASE decision = "escalated"
  <2>1. new = [done EXCEPT ![<<r, "collaboration">>] = "ready"]
    BY <1>2, <1>6, <1>10 DEF ApplyAutoRepair, RouteStage
  <2>2. ASSUME NEW u \in RouteStage
        PROVE  new[<<r, u>>] = CASE u = "defect-feedback" -> "completed"
                                 [] u = "collaboration"   -> "ready"
                                 [] OTHER                 -> st[<<r, u>>]
    <3>1. <<r, u>> \in Task
      BY TaskOfStage
    <3>2. new[<<r, u>>] = IF u = "collaboration" THEN "ready" ELSE done[<<r, u>>]
      BY <1>5, <2>1, <3>1 DEF Statuses
    <3> QED
      BY <1>1, <1>5, <1>8, <1>10, <3>2
  <2> QED
    BY <2>2 DEF Moved, Escalated
<1>11. CASE decision = "triggered"
  <2>1. o.target \in RouteStage
    BY <1>8, <1>11 DEF RouteStage
  <2>2. new = [v \in Task |-> IF v = <<r, o.target>> THEN "ready"
                             ELSE IF LaterOnRoute(v, t, o.target) THEN "pending"
                             ELSE done[v]]
    BY <1>2, <1>6, <1>11, <2>1 DEF ApplyAutoRepair
  <2>3. ASSUME NEW u \in RouteStage
        PROVE  new[<<r, u>>] = IF u = o.target THEN "ready"
                               ELSE IF StageOrder[u] > StageOrder[o.target] THEN "pending"
                               ELSE st[<<r, u>>]
    <3>1. <<r, u>> \in Task /\ (LaterOnRoute(<<r, u>>, t, o.target)
                                  <=> StageOrder[u] > StageOrder[o.target])
      BY <1>2, TaskOfStage DEF LaterOnRoute
    <3>2. new[<<r, u>>] = IF u = o.target THEN "ready"
                          ELSE IF StageOrder[u] > StageOrder[o.target] THEN "pending"
                          ELSE done[<<r, u>>]
      BY <2>2, <3>1
    <3>3. StageOrder[s] > StageOrder[o.target]
      BY <1>8, <1>11, StageOrderValues, SMTT(30) DEF RepairableStage
    <3> QED
      BY <1>5, <3>2, <3>3
  <2> QED
    BY <1>8, <1>11, <2>3 DEF Moved, TakenUp
<1> QED
  BY <1>7, <1>9, <1>10, <1>11

LEMMA CollaborationMoves ==
    ASSUME NEW st \in Statuses, NEW rep, NEW r \in Route, AtWork(st, r, "collaboration"),
           NEW o, Result(o), o.status \in FinalStatus
    PROVE  Moved(st, After(st, rep, <<r, "collaboration">>, o), r, "collaboration", o,
                 RepairDecision(Judged(st, <<r, "collaboration">>, o), rep, <<r, "collaboration">>, o))
<1> DEFINE s == "collaboration"
           t == <<r, s>>
           done == [st EXCEPT ![t] = o.status]
           new == After(st, rep, t, o)
           decision == RepairDecision(Judged(st, t, o), rep, t, o)
<1>1. s \in RouteStage /\ s \notin RepairableStage
  BY DEF RouteStage, RepairableStage
<1>2. t \in Task /\ StageOf(t) = s
  BY <1>1, TaskOfStage
<1>4. \E x \in {o.status, "blocked"} : new = [st EXCEPT ![t] = x]
  <2>1. new = CollaborationApprovalGate(done, t, o)
    BY <1>1, <1>2, AfterIsJudged
       DEF Judged, Gated, PublicationGate, PublishesRoute, EvaluationAcceptanceGate,
           ApplyRouteOutcome
  <2>2. CollaborationApprovalGate(done, t, o) \in {done, [done EXCEPT ![t] = "blocked"]}
    BY DEF CollaborationApprovalGate
  <2>3. [done EXCEPT ![t] = "blocked"] = [st EXCEPT ![t] = "blocked"]
    BY <1>2 DEF Statuses
  <2> QED
    BY <2>1, <2>2, <2>3
<1> HIDE DEF new, decision
<1>5. PICK x \in {o.status, "blocked"} : new = [st EXCEPT ![t] = x]
  BY <1>4
<1>6. \A u \in RouteStage : new[<<r, u>>] = IF u = s THEN x ELSE st[<<r, u>>]
  BY <1>2, <1>5, TaskOfStage DEF Statuses
<1>7. Moved(st, new, r, s, o, decision)
  BY <1>6 DEF Moved, Through
<1> QED
  BY <1>7 DEF new, decision

LEMMA EvaluationMoves ==
    ASSUME NEW st \in Statuses, NEW rep, NEW r \in Route, AtWork(st, r, "evaluation"),
           NEW o, Result(o), o.status \in FinalStatus
    PROVE  Moved(st, After(st, rep, <<r, "evaluation">>, o), r, "evaluation", o,
                 RepairDecision(Judged(st, <<r, "evaluation">>, o), rep, <<r, "evaluation">>, o))
<1> DEFINE s == "evaluation"
           t == <<r, s>>
           done == [st EXCEPT ![t] = o.status]
           gated == EvaluationAcceptanceGate(done, t, o)
           new == After(st, rep, t, o)
           decision == RepairDecision(Judged(st, t, o), rep, t, o)
           moved == Moved(st, new, r, s, o, decision)
<1>1. s \in RouteStage /\ s \notin RepairableStage
  BY DEF RouteStage, RepairableStage
<1>2. /\ t \in Task /\ StageOf(t) = s /\ RouteOf(t) = r
      /\ \A u \in RouteStage : Sibling(t, u) = <<r, u>>
  BY <1>1, TaskOfStage
<1>4. new = PublicationGate(gated, t, o)
  BY <1>1, <1>2, AfterIsJudged
     DEF Judged, Gated, CollaborationApprovalGate, ApplyRouteOutcome
<1>5. /\ done \in Statuses
      /\ \A u \in RouteStage : done[<<r, u>>] = IF u = s THEN o.status ELSE st[<<r, u>>]
  BY <1>2, TaskOfStage DEF Statuses, Result
<1>6. gated \in Statuses
  BY <1>2, <1>5, AcceptanceGateType
<1>7. gated[t] = "blocked" => new = gated
  BY <1>4 DEF PublicationGate, PublishesRoute
<1> SUFFICES moved
  OBVIOUS
<1> HIDE DEF new, done, gated, decision
<1>8. CASE RerouteRequested(o) /\ o.target # NoStage
  <2>1. o.target \in RepairableStage /\ o.target \in RouteStage /\ o.target # s
    BY <1>1, <1>8 DEF Result, RouteStage
  <2>2. gated = RerouteEvaluation(done, t, o.target)
    BY <1>2, <1>8 DEF EvaluationAcceptanceGate, gated
  <2>3. ASSUME NEW u \in RouteStage
        PROVE  gated[<<r, u>>] = IF u = s THEN "blocked"
                                 ELSE IF u = o.target THEN "ready"
                                 ELSE IF StageOrder[u] > StageOrder[o.target] THEN "pending"
                                 ELSE done[<<r, u>>]
    <3>1. <<r, u>> \in Task /\ (LaterOnRoute(<<r, u>>, t, o.target)
                                  <=> StageOrder[u] > StageOrder[o.target])
      BY <1>2, TaskOfStage DEF LaterOnRoute
    <3> QED
      BY <1>2, <2>1, <2>2, <3>1 DEF RerouteEvaluation
  <2>4. new = gated
    BY <1>1, <1>7, <2>3
  <2>5. StageOrder[s] > StageOrder[o.target]
    BY <2>1, StageOrderValues, SMTT(30) DEF RepairableStage
  <2>6. TakenUp(st, new, r, o.target, "blocked")
    BY <1>5, <2>1, <2>3, <2>4, <2>5 DEF TakenUp
  <2> QED
    BY <2>1, <2>6 DEF Moved
<1>9. CASE RerouteRequested(o) /\ o.target = NoStage
  <2>1. gated = [done EXCEPT ![<<r, "defect-feedback">>] = "ready",
                             ![<<r, "collaboration">>]   = "pending",
                             ![t] = "blocked"]
    <3>1. gated = BackToDefect(done, t)
      BY <1>2, <1>9 DEF EvaluationAcceptanceGate, gated
    <3>2. /\ Sibling(t, "defect-feedback") = <<r, "defect-feedback">>
          /\ Sibling(t, "collaboration") = <<r, "collaboration">>
      BY <1>2 DEF RouteStage
    <3> QED
      BY <3>1, <3>2 DEF BackToDefect
  <2>2. ASSUME NEW u \in RouteStage
        PROVE  gated[<<r, u>>] = IF u = s THEN "blocked"
                                 ELSE IF u = "collaboration" THEN "pending"
                                 ELSE IF u = "defect-feedback" THEN "ready"
                                 ELSE done[<<r, u>>]
    BY <1>5, <2>1, TaskOfStage DEF Statuses
  <2>3. new = gated
    BY <1>1, <1>7, <2>2
  <2>4. \A u \in RouteStage :
            StageOrder[u] > StageOrder["defect-feedback"] <=> u \in {s, "collaboration"}
    BY StageOrderValues, SMTT(30) DEF RouteStage, RepairableStage
  <2>5. TakenUp(st, new, r, "defect-feedback", "blocked")
    BY <1>5, <2>2, <2>3, <2>4 DEF TakenUp
  <2> QED
    BY <2>5 DEF Moved
<1>10. CASE ~RerouteRequested(o)
  <2>1. gated \in {done, [done EXCEPT ![t] = "blocked"]}
    BY <1>2, <1>10 DEF EvaluationAcceptanceGate, gated
  <2>2. new \in {gated, [gated EXCEPT ![t] = "blocked"]}
    BY <1>4 DEF PublicationGate
  <2>3. \E x \in {o.status, "blocked"} :
            /\ new = [st EXCEPT ![t] = x]
            /\ x = "completed" => Accepts(o)
    <3>1. [done EXCEPT ![t] = "blocked"] = [st EXCEPT ![t] = "blocked"]
      BY <1>2 DEF Statuses, done
    <3>2. [[done EXCEPT ![t] = "blocked"] EXCEPT ![t] = "blocked"] = [st EXCEPT ![t] = "blocked"]
      BY <1>2 DEF Statuses, done
    <3>3. gated # done => gated = [done EXCEPT ![t] = "blocked"]
      BY <2>1
    <3>4. CASE new = done /\ Accepts(o)
      BY <3>4 DEF done
    <3>5. CASE new = [st EXCEPT ![t] = "blocked"]
      BY <3>5
    <3> QED
      BY <1>2, <1>10, <2>2, <3>1, <3>2, <3>4, <3>5
         DEF EvaluationAcceptanceGate, Accepts, gated
  <2>4. PICK x \in {o.status, "blocked"} :
            /\ new = [st EXCEPT ![t] = x]
            /\ x = "completed" => Accepts(o)
    BY <2>3
  <2>5. \A u \in RouteStage : new[<<r, u>>] = IF u = s THEN x ELSE st[<<r, u>>]
    BY <1>2, <2>4, TaskOfStage DEF Statuses
  <2> QED
    BY <2>4, <2>5 DEF Moved, Through
<1> QED
  BY <1>8, <1>9, <1>10

\* A result moves the route of its task in one of these ways ...
LEMMA ResultMoves ==
    ASSUME NEW st \in Statuses, NEW rep, NEW r \in Route, NEW s \in RouteStage,
           AtWork(st, r, s), NEW o, Result(o), o.status \in FinalStatus
    PROVE  Moved(st, After(st, rep, <<r, s>>, o), r, s, o,
                 RepairDecision(Judged(st, <<r, s>>, o), rep, <<r, s>>, o))
<1>1. \/ s \in RepairableStage
      \/ s = "defect-feedback"
      \/ s = "collaboration"
      \/ s = "evaluation"
  BY DEF RouteStage
<1> QED
  BY <1>1, DeliveryMoves, DefectMoves, CollaborationMoves, EvaluationMoves

\* ... and each leaves it in a shape promotion can be applied to.
LEMMA MovedShape ==
    ASSUME NEW st \in Statuses, NEW r \in Route, NEW s \in RouteStage, AtWork(st, r, s),
           NEW new \in Statuses, NEW o, o.status \in FinalStatus, NEW decision,
           Moved(st, new, r, s, o, decision)
    PROVE  RoutePre(new, r)
<1>1. "blocked" \in FinalStatus
  BY DEF FinalStatus
<1>2. ASSUME NEW x \in {o.status, "blocked"}, Through(st, new, r, s, x)
      PROVE  RoutePre(new, r)
  BY <1>1, <1>2, ThroughShape
<1>3. ASSUME s \in {"defect-feedback", "evaluation"},
             NEW target \in RepairableStage \cup {"defect-feedback"}, target # s,
             NEW x \in {"pending", "blocked"}, TakenUp(st, new, r, target, x)
      PROVE  RoutePre(new, r)
  BY <1>3, RepairedShape
<1>4. {"defect-feedback", "evaluation"} \cap RepairableStage = {}
  BY DEF RepairableStage
<1> QED
  BY <1>2, <1>3, <1>4, DefectSkippedShape, ToDefectShape, EscalatedShape DEF Moved

\* A result of the root leaves every other task alone, a result of a task on a
\* route every task that is not on that route.
LEMMA OtherTaskUnchanged ==
    ASSUME NEW st \in Statuses, NEW rep, NEW t \in Task, NEW o, Result(o),
           NEW v \in Task, v # t,
           t # EnvTask /\ v # EnvTask => RouteOf(v) # RouteOf(t)
    PROVE  After(st, rep, t, o)[v] = st[v]
<1> DEFINE done == [st EXCEPT ![t] = o.status]
<1>2. done \in Statuses /\ done[v] = st[v]
  BY DEF Statuses, Result
<1>3. CASE t = EnvTask
  <2>1. StageOf(t) \notin RouteStage
    BY <1>3 DEF EnvTask, StageOf, RouteStage, RepairableStage
  <2>2. Judged(st, t, o) = done
    BY <2>1 DEF Judged, Gated, PublicationGate, PublishesRoute, EvaluationAcceptanceGate,
                CollaborationApprovalGate, ApplyRouteOutcome, RouteStage
  <2>3. After(st, rep, t, o) = done
    BY <2>1, <2>2, AfterIsJudged DEF RouteStage
  <2> QED
    BY <1>2, <2>3
<1>4. CASE t # EnvTask
  <2>1. /\ \A s \in RouteStage : v # Sibling(t, s)
        /\ \A s \in TaskStage : ~LaterOnRoute(v, t, s)
    <3>1. CASE v = EnvTask
      <4>1. StageOf(v) = "environment-preparation" /\ StageOf(v) \notin RouteStage
        BY <3>1 DEF EnvTask, StageOf, RouteStage, RepairableStage
      <4>2. StageOrder[StageOf(v)] = 0
        BY <4>1 DEF StageOrder, TaskStage
      <4>3. \A s \in TaskStage : ~(StageOrder[StageOf(v)] > StageOrder[s])
        BY <4>2, StageOrderType
      <4> QED
        BY <4>1, <4>3 DEF LaterOnRoute, Sibling, StageOf
    <3>2. CASE v # EnvTask
      BY <1>4, <3>2 DEF LaterOnRoute, Sibling, RouteOf
    <3> QED
      BY <3>1, <3>2
  <2>2. /\ {"collaboration", "defect-feedback"} \subseteq RouteStage
        /\ RouteStage \subseteq TaskStage /\ RepairableStage \subseteq RouteStage
        /\ StageOf(t) \in TaskStage
    BY TaskIsPair DEF RouteStage, TaskStage
  <2> DEFINE routed == ApplyRouteOutcome(done, t, o)
             handed == CollaborationApprovalGate(routed, t, o)
             accepted == EvaluationAcceptanceGate(handed, t, o)
             judged == PublicationGate(accepted, t, o)
  <2>3. judged = Judged(st, t, o)
    BY DEF Judged, Gated
  <2> HIDE DEF done
  <2>4. routed[v] = st[v] /\ routed \in Statuses
    <3> DEFINE skipped == SkipBeforeDefect(done, t)
    <3>1. skipped[v] = st[v] /\ skipped \in Statuses
      BY <1>2, <2>1, <2>2, SkipType DEF SkipBeforeDefect
    <3>2. RouteStageOutcomeToDefect(done, t)[v] = skipped[v]
      <4> HIDE DEF skipped
      <4>1. RouteStageOutcomeToDefect(done, t) =
              [skipped EXCEPT
                ![Sibling(t, "collaboration")] = IF @ = "ready" THEN "pending" ELSE @,
                ![Sibling(t, "defect-feedback")] =
                    IF /\ StageOf(t) # "automated-execution"
                       /\ @ \in {"pending", "completed", "skipped", "blocked"}
                    THEN "ready" ELSE @]
        BY DEF RouteStageOutcomeToDefect, skipped
      <4> QED
        BY <2>1, <2>2, <3>1, <4>1 DEF Statuses
    <3> QED
      BY <1>2, <2>1, <2>2, <3>1, <3>2, RouteOutcomeType DEF ApplyRouteOutcome, Statuses
  <2> HIDE DEF routed
  <2>5. handed[v] = st[v] /\ handed \in Statuses
    BY <2>1, <2>4, CollaborationGateType DEF CollaborationApprovalGate, Statuses
  <2> HIDE DEF handed
  <2>6. accepted[v] = st[v] /\ accepted \in Statuses
    <3>1. BackToDefect(handed, t)[v] = handed[v]
      BY <2>1, <2>2, <2>5 DEF BackToDefect, Statuses
    <3>2. o.target # NoStage => RerouteEvaluation(handed, t, o.target)[v] = handed[v]
      BY <2>1, <2>2 DEF RerouteEvaluation, Result
    <3>3. [handed EXCEPT ![t] = "blocked"][v] = handed[v]
      BY <2>1, <2>5 DEF Statuses
    <3> QED
      BY <2>5, <3>1, <3>2, <3>3, AcceptanceGateType DEF EvaluationAcceptanceGate
  <2> HIDE DEF accepted
  <2>7. judged[v] = st[v] /\ judged \in Statuses
    BY <2>1, <2>6, PublicationGateType DEF PublicationGate, Statuses
  <2> DEFINE decision == RepairDecision(judged, rep, t, o)
  <2>8. After(st, rep, t, o) = ApplyAutoRepair(judged, decision, t, o)
    BY <2>3 DEF After
  <2>9. decision \in {"not-applicable", "escalated", "triggered"}
    BY DecisionType
  <2>10. decision = "triggered" => o.target \in RouteStage
    BY DEF RepairDecision, Result, RouteStage
  <2> HIDE DEF judged, decision
  <2>11. ApplyAutoRepair(judged, decision, t, o)[v] = judged[v]
    BY <2>1, <2>2, <2>7, <2>9, <2>10 DEF ApplyAutoRepair, Statuses
  <2> QED
    BY <2>7, <2>8, <2>11
<1> QED
  BY <1>3, <1>4

\* A result of the root, and a result of another route, leave a route alone.
LEMMA ElsewhereUnchanged ==
    ASSUME NEW st \in Statuses, NEW rep, NEW t \in Task, NEW o, Result(o),
           NEW q \in Route, NEW u \in RouteStage, t = EnvTask \/ RouteOf(t) # q
    PROVE  After(st, rep, t, o)[<<q, u>>] = st[<<q, u>>]
<1>1. <<q, u>> \in Task /\ RouteOf(<<q, u>>) = q /\ <<q, u>> # EnvTask
  BY TaskOfStage DEF EnvTask, RouteStage, RepairableStage, StageOf
<1>2. <<q, u>> # t
  BY <1>1
<1> QED
  BY <1>1, <1>2, OtherTaskUnchanged

\* A route that is left alone keeps its shape.
LEMMA SameRouteShape ==
    ASSUME NEW st, NEW new, NEW r, RouteInv(st, r),
           \A u \in RouteStage : new[<<r, u>>] = st[<<r, u>>]
    PROVE  RoutePre(new, r)
<1>1. \A u \in RouteStage : ~Ripe(new, r, u)
  BY PreviousValues, SMTT(30) DEF RouteInv, Ripe, RouteStage, RepairableStage
<1>2. Shaped(new, r)
  <2>1. \A s \in RouteStage : RestWaits(st, r, s) => RestWaits(new, r, s)
    BY DEF RestWaits, Waiting
  <2> QED
    BY <2>1 DEF RouteInv, Shaped, RouteStage, RepairableStage
<1> QED
  BY <1>1, <1>2 DEF RoutePre

\* Applying the result of a task in progress keeps every route of the run in shape.
LEMMA SettledShape ==
    ASSUME NEW st \in Statuses, NEW rep, NEW t \in Task, st[t] = "in-progress",
           NEW o, Result(o), o.status \in FinalStatus,
           NEW q \in Route, RouteInv(st, q)
    PROVE  RouteInv(Settled(Judged(st, t, o), RepairDecision(Judged(st, t, o), rep, t, o), t, o), q)
<1>1. After(st, rep, t, o) \in Statuses
  BY AfterType
<1>2. RoutePre(After(st, rep, t, o), q)
  <2>1. CASE t = EnvTask \/ RouteOf(t) # q
    BY <2>1, ElsewhereUnchanged, SameRouteShape
  <2>2. CASE t # EnvTask /\ RouteOf(t) = q
    <3>1. StageOf(t) \in RouteStage /\ t = <<q, StageOf(t)>>
      BY <2>2, TaskIsPair
    <3>2. AtWork(st, q, StageOf(t))
      BY <3>1 DEF AtWork
    <3>3. \/ StageOf(t) \in RepairableStage
          \/ StageOf(t) = "defect-feedback"
          \/ StageOf(t) = "collaboration"
          \/ StageOf(t) = "evaluation"
      BY <3>1 DEF RouteStage
    <3> QED
      BY <1>1, <3>1, <3>2, <3>3, ResultMoves, MovedShape
  <2> QED
    BY <2>1, <2>2
<1> QED
  BY <1>1, <1>2, PromoteShape DEF Settled, After

-----------------------------------------------------------------------------
(* How far a route is: which of its tasks are still to be done, what an    *)
(* evaluation rests on, and that nothing moves a route that is accepted.   *)

\* What adapters report of a task they have executed.  The schema of a result
\* admits "skipped" too; an evaluation that reports it ends its route unaccepted.
ExecutedStatus == {"completed", "failed", "blocked"}

Untaken == {"pending", "ready"}

\* An evaluation is made, and completed, after a completed collaboration.
HandedOver(st, r) ==
    /\ st[<<r, "evaluation">>] \in OpenStatus \cup {"completed"}
            => st[<<r, "collaboration">>] = "completed"
    /\ st[<<r, "evaluation">>] # "skipped"
    /\ st[<<r, "collaboration">>] # "skipped"

\* What is left to promotion on a route is at most one task, and that was waiting.
LEMMA PromotedUntaken ==
    ASSUME NEW st \in Statuses, NEW r \in Route, NEW u \in RouteStage
    PROVE  PromoteReadyTasks(st)[<<r, u>>] \in Untaken <=> st[<<r, u>>] \in Untaken
BY PromotedRoute DEF Untaken

\* A result leaves a task to be done that was not only if it repairs the route,
\* or if it is that of an evaluation, which then waits blocked.
LEMMA MovedUntaken ==
    ASSUME NEW st \in Statuses, NEW r \in Route, NEW s \in RouteStage, AtWork(st, r, s),
           NEW new, NEW o, o.status \in FinalStatus, NEW decision,
           Moved(st, new, r, s, o, decision),
           NEW u \in RouteStage, new[<<r, u>>] \in Untaken
    PROVE  \/ st[<<r, u>>] \in Untaken
           \/ s = "defect-feedback" /\ decision = "triggered"
           \/ s = "evaluation" /\ u # s /\ new[<<r, s>>] = "blocked"
<1>1. RestWaits(st, r, s)
  BY NothingElseOpen
<1>2. \A v \in {"defect-feedback", "collaboration"} :
        StageOrder[v] > StageOrder[s] => st[<<r, v>>] = "pending"
  BY <1>1 DEF RestWaits, Waiting, RouteStage
<1>3. FinalStatus \cap Untaken = {} /\ "skipped" \notin Untaken /\ "blocked" \in FinalStatus
  BY DEF FinalStatus, Untaken
<1>4. CASE \E x \in {o.status, "blocked"} : Through(st, new, r, s, x)
  BY <1>3, <1>4 DEF Through
<1>5. CASE s = "automated-execution" /\ DefectSkipped(st, new, r, o.status)
  BY <1>3, <1>5 DEF DefectSkipped
<1>6. CASE s \in RepairableStage /\ ToDefect(st, new, r, s, o.status)
  <2>1. st[<<r, "defect-feedback">>] = "pending"
    BY <1>2, <1>6, StageOrderValues, SMTT(30) DEF RepairableStage
  <2> QED
    BY <1>3, <1>6, <2>1 DEF ToDefect, Untaken
<1>7. CASE s = "defect-feedback" /\ Escalated(st, new, r)
  <2>1. st[<<r, "collaboration">>] = "pending"
    BY <1>2, <1>7, StageOrderValues
  <2> QED
    BY <1>7, <2>1 DEF Escalated, Untaken
<1>8. CASE /\ s = "evaluation"
           /\ \E target \in RepairableStage \cup {"defect-feedback"} :
                TakenUp(st, new, r, target, "blocked")
  <2>1. new[<<r, s>>] = "blocked"
    BY <1>8, StageOrderValues, SMTT(30) DEF TakenUp, RepairableStage
  <2> QED
    BY <1>3, <1>8, <2>1 DEF FinalStatus
<1> QED
  BY <1>4, <1>5, <1>6, <1>7, <1>8 DEF Moved

\* What a result leaves of the first stage and of the last two.
LEMMA MovedEnds ==
    ASSUME NEW st \in Statuses, NEW r \in Route, NEW s \in RouteStage, AtWork(st, r, s),
           NEW new, NEW o, o.status \in ExecutedStatus, NEW decision,
           Moved(st, new, r, s, o, decision)
    PROVE  /\ new[<<r, "requirements-analysis">>] # "pending"
           /\ s # "evaluation" =>
                new[<<r, "evaluation">>] \in {st[<<r, "evaluation">>], "pending"}
           /\ s = "evaluation" =>
                /\ new[<<r, s>>] \in ExecutedStatus
                /\ new[<<r, s>>] = "completed" =>
                    /\ Accepts(o)
                    /\ new[<<r, "collaboration">>] = st[<<r, "collaboration">>]
           /\ s # "collaboration" =>
                new[<<r, "collaboration">>] \in {st[<<r, "collaboration">>]} \cup Untaken
           /\ s = "collaboration" => new[<<r, s>>] \in ExecutedStatus
<1>1. st[<<r, "requirements-analysis">>] # "pending"
  BY NothingElseOpen
<1>2. {"requirements-analysis", "collaboration", "evaluation"} \subseteq RouteStage
  BY DEF RouteStage, RepairableStage
<1>3. CASE \E x \in {o.status, "blocked"} :
            /\ Through(st, new, r, s, x)
            /\ s = "evaluation" /\ x = "completed" => Accepts(o)
  BY <1>1, <1>2, <1>3 DEF Through, ExecutedStatus, Untaken
<1>4. CASE s = "automated-execution" /\ DefectSkipped(st, new, r, o.status)
  BY <1>1, <1>2, <1>4 DEF DefectSkipped, ExecutedStatus, Untaken
<1>5. CASE s \in RepairableStage /\ ToDefect(st, new, r, s, o.status)
  <2>1. s \notin {"collaboration", "evaluation"}
    BY <1>5 DEF RepairableStage
  <2>2. "requirements-analysis" \in RepairableStage
        /\ {"collaboration", "evaluation"} \cap RepairableStage = {}
    BY DEF RepairableStage
  <2> QED
    BY <1>1, <1>2, <1>5, <2>1, <2>2 DEF ToDefect, ExecutedStatus, Untaken
<1>6. CASE s = "defect-feedback" /\ Escalated(st, new, r)
  BY <1>1, <1>2, <1>6 DEF Escalated, Untaken
<1>7. ASSUME s \in {"defect-feedback", "evaluation"},
             NEW target \in RepairableStage \cup {"defect-feedback"},
             NEW x \in {"pending", "blocked"}, s = "evaluation" => x = "blocked",
             s = "defect-feedback" => x = "pending",
             TakenUp(st, new, r, target, x)
      PROVE  /\ new[<<r, "requirements-analysis">>] # "pending"
             /\ new[<<r, "evaluation">>] = x
             /\ new[<<r, "collaboration">>] = "pending"
  <2>1. /\ ~(StageOrder["requirements-analysis"] > StageOrder[target])
        /\ StageOrder["evaluation"] > StageOrder[target]
        /\ StageOrder["collaboration"] > StageOrder[target]
        /\ target \notin {"evaluation", "collaboration"}
    BY <1>7, StageOrderValues, SMTT(30) DEF RepairableStage
  <2> QED
    BY <1>1, <1>2, <1>7, <2>1 DEF TakenUp
<1>8. CASE \/ /\ s = "defect-feedback" /\ o.target \in RepairableStage
              /\ TakenUp(st, new, r, o.target, "pending")
           \/ /\ s = "evaluation"
              /\ \E target \in RepairableStage \cup {"defect-feedback"} :
                    TakenUp(st, new, r, target, "blocked")
  BY <1>7, <1>8 DEF ExecutedStatus, Untaken
<1> QED
  BY <1>3, <1>4, <1>5, <1>6, <1>8 DEF Moved

\* The statuses a result is settled to.
SettledOf(st, rep, t, o) ==
    Settled(Judged(st, t, o), RepairDecision(Judged(st, t, o), rep, t, o), t, o)

\* A task is on the route whose invariant says so, or the route is left alone.
LEMMA SettledRoute ==
    ASSUME NEW st \in Statuses, NEW rep, NEW t \in Task, st[t] = "in-progress",
           NEW o, Result(o), o.status \in FinalStatus,
           NEW q \in Route, RouteInv(st, q)
    PROVE  \E new \in Statuses :
                /\ SettledOf(st, rep, t, o) = PromoteReadyTasks(new)
                /\ RoutePre(new, q)
                /\ \/ /\ t = EnvTask \/ RouteOf(t) # q
                      /\ \A u \in RouteStage : new[<<q, u>>] = st[<<q, u>>]
                   \/ /\ StageOf(t) \in RouteStage /\ t = <<q, StageOf(t)>>
                      /\ AtWork(st, q, StageOf(t))
                      /\ Moved(st, new, q, StageOf(t), o,
                               RepairDecision(Judged(st, t, o), rep, t, o))
<1> DEFINE new == After(st, rep, t, o)
<1>1. new \in Statuses
  BY AfterType
<1>2. SettledOf(st, rep, t, o) = PromoteReadyTasks(new)
  BY DEF SettledOf, Settled, After
<1>3. CASE t = EnvTask \/ RouteOf(t) # q
  <2>1. \A u \in RouteStage : new[<<q, u>>] = st[<<q, u>>]
    BY <1>3, ElsewhereUnchanged
  <2>2. RoutePre(new, q)
    BY <2>1, SameRouteShape
  <2> QED
    BY <1>1, <1>2, <1>3, <2>1, <2>2
<1>4. CASE t # EnvTask /\ RouteOf(t) = q
  <2>1. StageOf(t) \in RouteStage /\ t = <<q, StageOf(t)>>
    BY <1>4, TaskIsPair
  <2>2. AtWork(st, q, StageOf(t))
    BY <2>1 DEF AtWork
  <2>3. Moved(st, new, q, StageOf(t), o, RepairDecision(Judged(st, t, o), rep, t, o))
    BY <2>1, <2>2, ResultMoves
  <2>4. RoutePre(new, q)
    BY <1>1, <2>1, <2>2, <2>3, MovedShape
  <2> QED
    BY <1>1, <1>2, <2>1, <2>2, <2>3, <2>4
<1> QED
  BY <1>3, <1>4

\* A route whose evaluation is through has nothing open and nothing to promote.
LEMMA AcceptedIsClosed ==
    ASSUME NEW st \in Statuses, NEW q \in Route, RouteInv(st, q),
           st[<<q, "evaluation">>] \in Passed
    PROVE  /\ \A u \in RouteStage : st[<<q, u>>] \notin OpenStatus
           /\ st[<<q, "requirements-analysis">>] # "pending"
<1>1. ASSUME NEW u \in RouteStage, st[<<q, u>>] \in OpenStatus
      PROVE  FALSE
  <2>1. RestWaits(st, q, u)
    BY <1>1 DEF RouteInv, Shaped
  <2>2. u # "evaluation"
    BY <1>1 DEF OpenStatus, Passed
  <2>3. StageOrder["evaluation"] > StageOrder[u]
    BY <2>2, StageOrderValues, SMTT(30) DEF RouteStage, RepairableStage
  <2> QED
    BY <2>1, <2>3 DEF RestWaits, Waiting, RouteStage, Passed
<1> QED
  BY <1>1 DEF RouteInv, Shaped, RouteStage, Passed

\* No result moves it: neither its own tasks are at work nor does promotion reach it.
LEMMA AcceptedUnchanged ==
    ASSUME NEW st \in Statuses, NEW rep, NEW t \in Task, st[t] = "in-progress",
           NEW o, Result(o), o.status \in FinalStatus,
           NEW q \in Route, RouteInv(st, q), st[<<q, "evaluation">>] \in Passed,
           NEW u \in RouteStage
    PROVE  SettledOf(st, rep, t, o)[<<q, u>>] = st[<<q, u>>]
<1>1. /\ \A v \in RouteStage : st[<<q, v>>] \notin OpenStatus
      /\ st[<<q, "requirements-analysis">>] # "pending"
  BY AcceptedIsClosed
<1>2. PICK new \in Statuses :
        /\ SettledOf(st, rep, t, o) = PromoteReadyTasks(new)
        /\ \/ \A v \in RouteStage : new[<<q, v>>] = st[<<q, v>>]
           \/ StageOf(t) \in RouteStage /\ AtWork(st, q, StageOf(t))
  BY SettledRoute
<1>3. \A v \in RouteStage : new[<<q, v>>] = st[<<q, v>>]
  BY <1>1, <1>2 DEF AtWork, OpenStatus
<1>4. \A v \in RouteStage : ~Ripe(new, q, v)
  BY <1>3, PreviousValues, SMTT(30) DEF RouteInv, Ripe, RouteStage, RepairableStage
<1>5. u # "requirements-analysis" => PromoteReadyTasks(new)[<<q, u>>] = new[<<q, u>>]
  BY <1>4, PromotedRoute
<1>6. u = "requirements-analysis" => PromoteReadyTasks(new)[<<q, u>>] = new[<<q, u>>]
  BY <1>1, <1>3, PromotedRoute
<1> QED
  BY <1>2, <1>3, <1>5, <1>6

\* The evaluation of a route goes on resting on its collaboration.
LEMMA HandedOverStays ==
    ASSUME NEW st \in Statuses, NEW rep, NEW t \in Task, st[t] = "in-progress",
           NEW o, Result(o), o.status \in ExecutedStatus,
           NEW q \in Route, RouteInv(st, q), HandedOver(st, q)
    PROVE  /\ HandedOver(SettledOf(st, rep, t, o), q)
           /\ SettledOf(st, rep, t, o)[<<q, "evaluation">>] = "completed" =>
                \/ st[<<q, "evaluation">>] = "completed" /\ t # <<q, "evaluation">>
                \/ t = <<q, "evaluation">> /\ Accepts(o)
<1> DEFINE e == <<q, "evaluation">>
           c == <<q, "collaboration">>
           p == SettledOf(st, rep, t, o)
<1>0. o.status \in FinalStatus
  BY DEF ExecutedStatus, FinalStatus
<1>1. PICK new \in Statuses :
        /\ p = PromoteReadyTasks(new)
        /\ \/ /\ t = EnvTask \/ RouteOf(t) # q
              /\ \A u \in RouteStage : new[<<q, u>>] = st[<<q, u>>]
           \/ /\ StageOf(t) \in RouteStage /\ t = <<q, StageOf(t)>>
              /\ AtWork(st, q, StageOf(t))
              /\ Moved(st, new, q, StageOf(t), o,
                       RepairDecision(Judged(st, t, o), rep, t, o))
  BY <1>0, SettledRoute
<1>2. "evaluation" \in RouteStage /\ "collaboration" \in RouteStage
  BY DEF RouteStage
<1>3. /\ p[e] = IF Ripe(new, q, "evaluation") THEN "ready" ELSE new[e]
      /\ p[c] = IF Ripe(new, q, "collaboration") THEN "ready" ELSE new[c]
  BY <1>1, <1>2, PromotedRoute
<1>4. /\ Ripe(new, q, "evaluation") <=> new[e] = "pending" /\ new[c] \in Passed
      /\ Ripe(new, q, "collaboration") => new[c] = "pending"
  BY PreviousValues DEF Ripe
<1> HIDE DEF p
<1>5. CASE /\ t = EnvTask \/ RouteOf(t) # q
           /\ \A u \in RouteStage : new[<<q, u>>] = st[<<q, u>>]
  <2>1. t # e
    BY <1>5 DEF RouteOf, EnvTask
  <2>2. /\ ~Ripe(new, q, "evaluation")
        /\ ~Ripe(new, q, "collaboration")
    BY <1>2, <1>5, PreviousValues DEF RouteInv, Ripe, RouteStage
  <2>3. p[e] = st[e] /\ p[c] = st[c]
    BY <1>2, <1>3, <1>5, <2>2
  <2>4. HandedOver(p, q)
    BY <2>3 DEF HandedOver
  <2> QED
    BY <2>1, <2>3, <2>4 DEF p
<1>6. CASE /\ StageOf(t) \in RouteStage /\ t = <<q, StageOf(t)>>
           /\ AtWork(st, q, StageOf(t))
           /\ Moved(st, new, q, StageOf(t), o, RepairDecision(Judged(st, t, o), rep, t, o))
  <2> DEFINE s == StageOf(t)
  <2>1. /\ s # "evaluation" => new[e] \in {st[e], "pending"}
        /\ s = "evaluation" =>
            /\ new[e] \in ExecutedStatus
            /\ new[e] = "completed" => Accepts(o) /\ new[c] = st[c]
        /\ s # "collaboration" => new[c] \in {st[c]} \cup Untaken
        /\ s = "collaboration" => new[c] \in ExecutedStatus
    <3>1. s \in RouteStage /\ AtWork(st, q, s)
      BY <1>6
    <3>2. PICK decision : Moved(st, new, q, s, o, decision)
      BY <1>6
    <3> HIDE DEF s
    <3>3. /\ new[<<q, "requirements-analysis">>] # "pending"
          /\ s # "evaluation" =>
                new[<<q, "evaluation">>] \in {st[<<q, "evaluation">>], "pending"}
          /\ s = "evaluation" =>
                /\ new[<<q, s>>] \in ExecutedStatus
                /\ new[<<q, s>>] = "completed" =>
                    /\ Accepts(o)
                    /\ new[<<q, "collaboration">>] = st[<<q, "collaboration">>]
          /\ s # "collaboration" =>
                new[<<q, "collaboration">>] \in {st[<<q, "collaboration">>]} \cup Untaken
          /\ s = "collaboration" => new[<<q, s>>] \in ExecutedStatus
      BY ONLY <3>1, <3>2, MovedEnds, st \in Statuses, q \in Route, o.status \in ExecutedStatus
    <3> QED
      BY <3>3
  <2>2. s # "evaluation" => st[e] \in {"pending", "blocked"}
    <3>1. RestWaits(st, q, s)
      BY <1>6, NothingElseOpen
    <3>2. s # "evaluation" => StageOrder["evaluation"] > StageOrder[s]
      BY <1>6, StageOrderValues, SMTT(30) DEF RouteStage, RepairableStage
    <3> QED
      BY <1>2, <3>1, <3>2 DEF RestWaits, Waiting
  <2>3. s = "evaluation" => st[c] = "completed"
    BY <1>6 DEF AtWork, HandedOver, OpenStatus
  <2> HIDE DEF s
  <2>4. new[c] # "skipped" /\ st[c] # "skipped"
    BY <2>1 DEF HandedOver, ExecutedStatus, Untaken
  <2>5. CASE s = "evaluation"
    <3>1. p[e] = new[e]
      BY <1>3, <1>4, <2>1, <2>5 DEF ExecutedStatus
    <3>2. p[e] = "completed" => p[c] = "completed"
      BY <1>3, <1>4, <2>1, <2>3, <2>5, <3>1
    <3>3. p[c] # "skipped"
      BY <1>3, <2>4
    <3>4. t = e
      BY <1>6, <2>5 DEF s
    <3> QED
      BY <2>1, <2>5, <3>1, <3>2, <3>3, <3>4 DEF HandedOver, ExecutedStatus, OpenStatus, p
  <2>6. CASE s # "evaluation"
    <3>1. new[e] \in {"pending", "blocked"}
      BY <2>1, <2>2, <2>6
    <3>2. p[e] \in {"pending", "blocked", "ready"} /\ (p[e] = "ready" => new[c] = "completed")
      BY <1>3, <1>4, <2>4, <3>1 DEF Passed
    <3>3. p[e] = "ready" => p[c] = "completed"
      BY <1>3, <1>4, <3>2
    <3>4. p[c] # "skipped"
      BY <1>3, <2>4
    <3> QED
      BY <3>2, <3>3, <3>4 DEF HandedOver, OpenStatus, p
  <2> QED
    BY <2>5, <2>6
<1> QED
  BY <1>1, <1>5, <1>6


\* No result makes the first stage of a route wait again.
LEMMA StartedStays ==
    ASSUME NEW st \in Statuses, NEW rep, NEW t \in Task, st[t] = "in-progress",
           NEW o, Result(o), o.status \in ExecutedStatus, NEW q \in Route, RouteInv(st, q),
           SettledOf(st, rep, t, o)[<<q, "requirements-analysis">>] = "pending"
    PROVE  st[<<q, "requirements-analysis">>] = "pending"
<1> DEFINE a == <<q, "requirements-analysis">>
<1>0. o.status \in FinalStatus /\ "requirements-analysis" \in RouteStage
  BY DEF ExecutedStatus, FinalStatus, RouteStage, RepairableStage
<1>1. PICK new \in Statuses :
        /\ SettledOf(st, rep, t, o) = PromoteReadyTasks(new)
        /\ \/ \A u \in RouteStage : new[<<q, u>>] = st[<<q, u>>]
           \/ /\ StageOf(t) \in RouteStage
              /\ AtWork(st, q, StageOf(t))
              /\ Moved(st, new, q, StageOf(t), o,
                       RepairDecision(Judged(st, t, o), rep, t, o))
  BY <1>0, SettledRoute
<1>2. new[a] = "pending"
  BY <1>0, <1>1, PromotedRoute
<1>3. ASSUME NEW s \in RouteStage, AtWork(st, q, s), NEW decision,
             Moved(st, new, q, s, o, decision)
      PROVE  FALSE
  BY ONLY <1>2, <1>3, MovedEnds, st \in Statuses, q \in Route, o.status \in ExecutedStatus
<1> QED
  BY <1>0, <1>1, <1>2, <1>3

\* A route that is begun rests on routes that are accepted.
RestsOnAccepted(st, r) ==
    st[<<r, "requirements-analysis">>] # "pending" =>
        \A d \in RouteDeps[r] : st[<<d, "evaluation">>] = "completed"

LEMMA RestsOnAcceptedStays ==
    ASSUME NEW st \in Statuses, NEW rep, NEW t \in Task, st[t] = "in-progress",
           NEW o, Result(o), o.status \in ExecutedStatus, NEW r \in Route,
           \A q \in Route : RouteInv(st, q) /\ HandedOver(st, q),
           RestsOnAccepted(st, r)
    PROVE  RestsOnAccepted(SettledOf(st, rep, t, o), r)
<1> DEFINE p == SettledOf(st, rep, t, o)
           new == After(st, rep, t, o)
           a == <<r, "requirements-analysis">>
<1>0. /\ o.status \in FinalStatus
      /\ "requirements-analysis" \in RouteStage /\ "evaluation" \in RouteStage
  BY DEF ExecutedStatus, FinalStatus, RouteStage, RepairableStage
<1>1. p = PromoteReadyTasks(new) /\ new \in Statuses
  BY AfterType DEF SettledOf, Settled, After
<1>2. RouteDeps[r] \subseteq Route
  BY RouteDepsAssumption
<1> SUFFICES ASSUME p[a] # "pending", NEW d \in RouteDeps[r]
             PROVE  p[<<d, "evaluation">>] = "completed"
  BY DEF RestsOnAccepted
<1>3. CASE st[a] # "pending"
  <2>1. st[<<d, "evaluation">>] = "completed"
    BY <1>3 DEF RestsOnAccepted
  <2> QED
    BY <1>0, <1>2, <2>1, AcceptedUnchanged DEF Passed
<1>4. CASE st[a] = "pending"
  <2>1. t = EnvTask \/ RouteOf(t) # r
    <3> SUFFICES ASSUME t # EnvTask, RouteOf(t) = r
                 PROVE  FALSE
      OBVIOUS
    <3>1. t = <<r, StageOf(t)>> /\ StageOf(t) \in RouteStage
      BY TaskIsPair
    <3> QED
      BY <1>4, <3>1 DEF RouteInv, Shaped
  <2>2. new[a] = "pending"
    BY <1>0, <1>4, <2>1, ElsewhereUnchanged
  <2>3. DependenciesPassed(new, a)
    BY <1>0, <1>1, <2>2, TaskOfStage DEF PromoteReadyTasks
  <2>4. <<d, "evaluation">> \in DependsOn[a]
    BY <1>0, TaskOfStage DEF DependsOn, UpstreamOf, EnvTask, StageOf, RouteOf
  <2>5. new[<<d, "evaluation">>] \in Passed
    BY <2>3, <2>4 DEF DependenciesPassed
  <2>6. p[<<d, "evaluation">>] = new[<<d, "evaluation">>]
    BY <1>0, <1>1, <1>2, <2>5, PromotedRoute DEF Passed
  <2>7. HandedOver(p, d)
    BY <1>2, HandedOverStays
  <2> QED
    BY <2>5, <2>6, <2>7 DEF HandedOver, Passed
<1> QED
  BY <1>3, <1>4

\* What a result leaves to be done of a route that was not: all of it is owed to a
\* repair that was triggered, or to an evaluation that has just been made.
LEMMA SettledUntaken ==
    ASSUME NEW st \in Statuses, NEW rep, NEW t \in Task, st[t] = "in-progress",
           NEW o, Result(o), o.status \in ExecutedStatus, NEW q \in Route, RouteInv(st, q)
    PROVE  /\ SettledOf(st, rep, t, o)[<<q, "evaluation">>] = "in-progress" =>
                st[<<q, "evaluation">>] = "in-progress" /\ t # <<q, "evaluation">>
           /\ \A u \in RouteStage : SettledOf(st, rep, t, o)[<<q, u>>] \in Untaken =>
                \/ st[<<q, u>>] \in Untaken
                \/ /\ t = <<q, "defect-feedback">>
                   /\ RepairDecision(Judged(st, t, o), rep, t, o) = "triggered"
                \/ t = <<q, "evaluation">> /\ u # "evaluation"
<1> DEFINE p == SettledOf(st, rep, t, o)
           decision == RepairDecision(Judged(st, t, o), rep, t, o)
<1>0. o.status \in FinalStatus /\ "evaluation" \in RouteStage
  BY DEF ExecutedStatus, FinalStatus, RouteStage
<1>1. PICK new \in Statuses :
        /\ p = PromoteReadyTasks(new)
        /\ \/ /\ t = EnvTask \/ RouteOf(t) # q
              /\ \A u \in RouteStage : new[<<q, u>>] = st[<<q, u>>]
           \/ /\ StageOf(t) \in RouteStage /\ t = <<q, StageOf(t)>>
              /\ AtWork(st, q, StageOf(t))
              /\ Moved(st, new, q, StageOf(t), o, decision)
  BY <1>0, SettledRoute
<1> HIDE DEF p, decision
<1>2. \A u \in RouteStage : p[<<q, u>>] \in Untaken <=> new[<<q, u>>] \in Untaken
  BY <1>1, PromotedUntaken
<1>3. p[<<q, "evaluation">>] = "in-progress" => new[<<q, "evaluation">>] = "in-progress"
  BY <1>0, <1>1, PromotedRoute
<1>4. CASE /\ t = EnvTask \/ RouteOf(t) # q
           /\ \A u \in RouteStage : new[<<q, u>>] = st[<<q, u>>]
  <2>1. t # <<q, "evaluation">>
    BY <1>4 DEF EnvTask, RouteOf
  <2> QED
    BY <1>0, <1>2, <1>3, <1>4, <2>1 DEF p
<1>5. ASSUME NEW s \in RouteStage, t = <<q, s>>, AtWork(st, q, s),
             Moved(st, new, q, s, o, decision)
      PROVE  /\ p[<<q, "evaluation">>] = "in-progress" =>
                  st[<<q, "evaluation">>] = "in-progress" /\ s # "evaluation"
             /\ \A u \in RouteStage : p[<<q, u>>] \in Untaken =>
                  \/ st[<<q, u>>] \in Untaken
                  \/ s = "defect-feedback" /\ decision = "triggered"
                  \/ s = "evaluation" /\ u # "evaluation"
  <2>1. /\ s # "evaluation" =>
                new[<<q, "evaluation">>] \in {st[<<q, "evaluation">>], "pending"}
        /\ s = "evaluation" => new[<<q, s>>] \in ExecutedStatus
    BY ONLY <1>5, MovedEnds, st \in Statuses, q \in Route, o.status \in ExecutedStatus
  <2>2. \A u \in RouteStage : new[<<q, u>>] \in Untaken =>
                  \/ st[<<q, u>>] \in Untaken
                  \/ s = "defect-feedback" /\ decision = "triggered"
                  \/ s = "evaluation" /\ u # s
    BY ONLY <1>0, <1>5, MovedUntaken, st \in Statuses, q \in Route
  <2> QED
    BY <1>2, <1>3, <2>1, <2>2 DEF ExecutedStatus
<1>6. CASE /\ StageOf(t) \in RouteStage /\ t = <<q, StageOf(t)>>
           /\ AtWork(st, q, StageOf(t))
           /\ Moved(st, new, q, StageOf(t), o, decision)
  BY <1>5, <1>6 DEF p, decision
<1> QED
  BY <1>1, <1>4, <1>6

-----------------------------------------------------------------------------
(* A run: every route has its shape, and is begun as soon as what it       *)
(* depends on is through, and not before.                                  *)

FirstOf(r) == <<r, "requirements-analysis">>

RunInv(st) ==
    \A r \in Route :
        /\ RouteInv(st, r)
        /\ st[FirstOf(r)] # "pending" <=> DependenciesPassed(st, FirstOf(r))

\* The first stages wait for the root and for the evaluations of other routes.
LEMMA FirstOfRoute ==
    ASSUME NEW r \in Route
    PROVE  /\ FirstOf(r) \in Task /\ FirstOf(r) # EnvTask
           /\ RouteOf(FirstOf(r)) = r /\ StageOf(FirstOf(r)) = "requirements-analysis"
           /\ DependsOn[FirstOf(r)] = {EnvTask} \cup {<<d, "evaluation">> : d \in RouteDeps[r]}
           /\ RouteDeps[r] \subseteq Route /\ r \notin RouteDeps[r]
<1>1. "requirements-analysis" \in RouteStage
  BY DEF RouteStage, RepairableStage
<1>2. /\ FirstOf(r) \in Task /\ FirstOf(r) # EnvTask
      /\ RouteOf(FirstOf(r)) = r /\ StageOf(FirstOf(r)) = "requirements-analysis"
  BY <1>1, TaskOfStage DEF FirstOf, EnvTask
<1> QED
  BY <1>2, RouteDepsAssumption DEF DependsOn, UpstreamOf

\* Nothing waits for anything but the root, an evaluation, or the stage before it.
LEMMA RootWaitsForNothing ==
    EnvTask \in Task /\ DependsOn[EnvTask] = {}
BY DEF Task, DependsOn

LEMMA WaitsForRoute ==
    ASSUME NEW r \in Route, NEW u \in RouteStage, u # "requirements-analysis"
    PROVE  Previous(u) \in RouteStage
BY PreviousValues, SMTT(30) DEF RouteStage, RepairableStage

\* What is at work or open on a route keeps what comes later waiting.
LEMMA OpenStageOnRoute ==
    ASSUME NEW st, NEW r \in Route, RouteInv(st, r),
           NEW s \in RouteStage, st[<<r, s>>] \in OpenStatus
    PROVE  /\ st[FirstOf(r)] # "pending"
           /\ st[<<r, "evaluation">>] \notin Passed
           /\ \A u \in RouteStage : u # s => st[<<r, u>>] \notin OpenStatus
<1>1. RestWaits(st, r, s)
  BY DEF RouteInv, Shaped
<1>2. ASSUME NEW u \in RouteStage, u # s, st[<<r, u>>] \in OpenStatus
      PROVE  FALSE
  <2>1. RestWaits(st, r, u)
    BY <1>2 DEF RouteInv, Shaped
  <2> QED
    BY <1>1, <1>2, <2>1, StageOrderValues, SMTT(30)
       DEF RestWaits, Waiting, OpenStatus, RouteStage, RepairableStage
<1>3. st[FirstOf(r)] # "pending"
  BY DEF FirstOf, RouteInv, Shaped, OpenStatus
<1>4. st[<<r, "evaluation">>] \notin Passed
  <2>1. s # "evaluation" => StageOrder["evaluation"] > StageOrder[s]
    BY StageOrderValues, SMTT(30) DEF RouteStage, RepairableStage
  <2>2. "evaluation" \in RouteStage
    BY DEF RouteStage
  <2> QED
    BY <1>1, <2>1, <2>2 DEF RestWaits, Waiting, Passed, OpenStatus
<1> QED
  BY <1>2, <1>3, <1>4

\* One stage of a route is open at a time.
LEMMA OneOpen ==
    ASSUME NEW st, RunInv(st), NEW t \in Task \ {EnvTask}, NEW u \in Task \ {EnvTask},
           RouteOf(t) = RouteOf(u), st[t] \in OpenStatus, st[u] \in OpenStatus
    PROVE  t = u
<1>1. /\ t = <<RouteOf(t), StageOf(t)>> /\ u = <<RouteOf(t), StageOf(u)>>
      /\ RouteOf(t) \in Route /\ StageOf(t) \in RouteStage /\ StageOf(u) \in RouteStage
  BY TaskIsPair
<1> QED
  BY <1>1, OpenStageOnRoute DEF RunInv

\* While a task is at work nothing that depends on it is begun.
LEMMA NothingBegunOn ==
    ASSUME NEW st, RunInv(st), NEW t \in Task, st[t] \in OpenStatus,
           NEW u \in Task, t \in DependsOn[u]
    PROVE  \/ st[u] = "pending"
           \/ st[u] = "blocked" /\ t # EnvTask /\ u # EnvTask /\ RouteOf(u) = RouteOf(t)
<1>1. u # EnvTask
  BY RootWaitsForNothing
<1>2. u = <<RouteOf(u), StageOf(u)>> /\ RouteOf(u) \in Route /\ StageOf(u) \in RouteStage
  BY <1>1, TaskIsPair
<1> DEFINE r == RouteOf(u)
<1>3. CASE StageOf(u) = "requirements-analysis"
  <2>1. u = FirstOf(r)
    BY <1>2, <1>3 DEF FirstOf
  <2>2. st[t] \notin Passed
    BY DEF OpenStatus, Passed
  <2> QED
    BY <1>2, <2>1, <2>2 DEF RunInv, DependenciesPassed
<1>4. CASE StageOf(u) # "requirements-analysis"
  <2>1. t = <<r, Previous(StageOf(u))>> /\ Previous(StageOf(u)) \in RouteStage
    BY <1>2, <1>4, DependsOnPrevious, WaitsForRoute
  <2>2. RestWaits(st, r, Previous(StageOf(u)))
    BY <1>2, <2>1 DEF RunInv, RouteInv, Shaped
  <2>3. StageOrder[StageOf(u)] > StageOrder[Previous(StageOf(u))]
    BY <1>2, <1>4, PreviousValues, StageOrderValues, SMTT(30) DEF RouteStage, RepairableStage
  <2>4. Waiting(st, r, StageOf(u))
    BY <1>2, <2>2, <2>3 DEF RestWaits
  <2>5. RouteOf(t) = r /\ t # EnvTask
    BY <2>1 DEF RouteOf, EnvTask, RouteStage, RepairableStage
  <2> QED
    BY <1>1, <1>2, <2>4, <2>5 DEF Waiting
<1> QED
  BY <1>3, <1>4

\* A task that is leased, lapses or is given up keeps a run in shape.
LEMMA OpenChangeShape ==
    ASSUME NEW st, NEW new, RunInv(st),
           \A u \in Task : \/ new[u] = st[u]
                           \/ st[u] \in OpenStatus /\ new[u] \in OpenStatus \cup {"blocked"}
    PROVE  RunInv(new)
<1> SUFFICES ASSUME NEW r \in Route
             PROVE  /\ RouteInv(new, r)
                    /\ new[FirstOf(r)] # "pending" <=> DependenciesPassed(new, FirstOf(r))
  BY DEF RunInv
<1>1. \A u \in RouteStage : <<r, u>> \in Task
  BY TaskOfStage
<1>2. \A u \in Task : /\ new[u] \in Passed <=> st[u] \in Passed
                      /\ new[u] = "pending" <=> st[u] = "pending"
                      /\ new[u] \in OpenStatus => st[u] \in OpenStatus
                      /\ st[u] = "blocked" => new[u] = "blocked"
  BY DEF OpenStatus, Passed
<1>3. RouteInv(st, r)
  BY DEF RunInv
<1>4. \A s \in RouteStage : RestWaits(st, r, s) => RestWaits(new, r, s)
  BY <1>1, <1>2 DEF RestWaits, Waiting
<1>5. {"requirements-analysis", "collaboration", "defect-feedback"} \subseteq RouteStage
  BY DEF RouteStage, RepairableStage
<1>6. Shaped(new, r)
  BY <1>1, <1>2, <1>3, <1>4, <1>5 DEF RouteInv, Shaped
<1>7. \A u \in RouteStage : ~Ripe(new, r, u)
  BY <1>1, <1>2, <1>3, WaitsForRoute DEF RouteInv, Ripe
<1>8. new[FirstOf(r)] # "pending" <=> DependenciesPassed(new, FirstOf(r))
  <2>1. DependsOn[FirstOf(r)] \subseteq Task
    BY FirstOfRoute, RootWaitsForNothing, TaskOfStage DEF RouteStage
  <2>2. DependenciesPassed(new, FirstOf(r)) <=> DependenciesPassed(st, FirstOf(r))
    BY <1>2, <2>1 DEF DependenciesPassed
  <2> QED
    BY <1>2, <2>2, FirstOfRoute DEF RunInv
<1> QED
  BY <1>6, <1>7, <1>8 DEF RouteInv

-----------------------------------------------------------------------------
(* A result applied to a run.                                              *)

\* Promotion readies tasks that wait and touches no other.
LEMMA PromotedTask ==
    ASSUME NEW st \in Statuses, NEW u \in Task
    PROVE  /\ \/ PromoteReadyTasks(st)[u] = st[u]
              \/ st[u] = "pending" /\ PromoteReadyTasks(st)[u] = "ready"
           /\ PromoteReadyTasks(st)[u] \in Passed <=> st[u] \in Passed
           /\ PromoteReadyTasks(st)[u] # st[u] =>
                DependsOn[u] # {} /\ DependenciesPassed(st, u)
           /\ PromoteReadyTasks(st)[u] = "pending" =>
                DependsOn[u] = {} \/ ~DependenciesPassed(st, u)
BY DEF PromoteReadyTasks, Passed

LEMMA SettledIsPromoted ==
    ASSUME NEW st \in Statuses, NEW rep, NEW t \in Task, NEW o, Result(o)
    PROVE  /\ SettledOf(st, rep, t, o) = PromoteReadyTasks(After(st, rep, t, o))
           /\ After(st, rep, t, o) \in Statuses
           /\ SettledOf(st, rep, t, o) \in Statuses
BY AfterType, PromoteType DEF SettledOf, Settled, After

\* The root waits for nothing and is on no route.
LEMMA RootUnchanged ==
    ASSUME NEW st \in Statuses, NEW rep, NEW t \in Task, NEW o, Result(o), t # EnvTask
    PROVE  SettledOf(st, rep, t, o)[EnvTask] = st[EnvTask]
BY SettledIsPromoted, PromotedTask, OtherTaskUnchanged, RootWaitsForNothing

LEMMA RootResult ==
    ASSUME NEW st \in Statuses, NEW rep, NEW o, Result(o)
    PROVE  /\ After(st, rep, EnvTask, o) = [st EXCEPT ![EnvTask] = o.status]
           /\ SettledOf(st, rep, EnvTask, o)[EnvTask] = o.status
<1>1. StageOf(EnvTask) \notin RouteStage
  BY DEF EnvTask, StageOf, RouteStage, RepairableStage
<1>2. Judged(st, EnvTask, o) = [st EXCEPT ![EnvTask] = o.status]
  BY <1>1 DEF Judged, Gated, PublicationGate, PublishesRoute, EvaluationAcceptanceGate,
              CollaborationApprovalGate, ApplyRouteOutcome, RouteStage
<1>3. After(st, rep, EnvTask, o) = [st EXCEPT ![EnvTask] = o.status]
  BY <1>1, <1>2, AfterIsJudged DEF RouteStage
<1>4. EnvTask \in Task
  BY RootWaitsForNothing
<1>5. [st EXCEPT ![EnvTask] = o.status][EnvTask] = o.status
  BY <1>4 DEF Statuses
<1>6. After(st, rep, EnvTask, o)[EnvTask] = o.status
  BY <1>3, <1>5
<1> DEFINE new == After(st, rep, EnvTask, o)
<1>7. SettledOf(st, rep, EnvTask, o) = PromoteReadyTasks(new) /\ new \in Statuses
  BY <1>4, SettledIsPromoted
<1> HIDE DEF new
<1>8. PromoteReadyTasks(new)[EnvTask] = new[EnvTask]
  BY <1>4, <1>7, PromotedTask, RootWaitsForNothing
<1> QED
  BY <1>3, <1>6, <1>7, <1>8 DEF new

\* What a result leaves of its task, of the first stage of the route and of the last.
LEMMA MovedBounds ==
    ASSUME NEW st \in Statuses, NEW r \in Route, NEW s \in RouteStage, AtWork(st, r, s),
           NEW new, NEW o, o.status \in FinalStatus, NEW decision,
           Moved(st, new, r, s, o, decision)
    PROVE  /\ new[FirstOf(r)] # "pending"
           /\ s # "evaluation" =>
                new[<<r, "evaluation">>] \in {st[<<r, "evaluation">>], "pending"}
           /\ new[<<r, s>>] \in FinalStatus \cup {"pending"}
<1> USE DEF FirstOf
<1>1. st[<<r, "requirements-analysis">>] # "pending"
  BY NothingElseOpen
<1>2. {"requirements-analysis", "automated-execution", "defect-feedback",
       "collaboration", "evaluation"} \subseteq RouteStage
  BY DEF RouteStage, RepairableStage
<1>3. {"completed", "blocked"} \subseteq FinalStatus /\ "pending" \notin FinalStatus
  BY DEF FinalStatus
<1>4. CASE \E x \in {o.status, "blocked"} : Through(st, new, r, s, x)
  BY <1>1, <1>2, <1>3, <1>4 DEF Through
<1>5. CASE s = "automated-execution" /\ DefectSkipped(st, new, r, o.status)
  BY <1>1, <1>2, <1>3, <1>5 DEF DefectSkipped
<1>6. CASE s \in RepairableStage \ {"automated-execution"} /\ ToDefect(st, new, r, s, o.status)
  <2>1. "evaluation" \notin RepairableStage /\ "defect-feedback" \notin RepairableStage
    BY DEF RepairableStage
  <2> QED
    BY <1>1, <1>2, <1>3, <1>6, <2>1 DEF ToDefect
<1>7. CASE s = "defect-feedback" /\ Escalated(st, new, r)
  BY <1>1, <1>2, <1>3, <1>7 DEF Escalated
<1>8. ASSUME s \in {"defect-feedback", "evaluation"},
             NEW target \in RepairableStage \cup {"defect-feedback"}, target # s,
             NEW x \in {"pending", "blocked"}, s = "defect-feedback" => x = "pending",
             TakenUp(st, new, r, target, x)
      PROVE  /\ new[<<r, "requirements-analysis">>] # "pending"
             /\ s # "evaluation" => new[<<r, "evaluation">>] = "pending"
             /\ new[<<r, s>>] \in {"pending", "blocked"}
  <2>1. /\ ~(StageOrder["requirements-analysis"] > StageOrder[target])
        /\ StageOrder["evaluation"] > StageOrder[target]
        /\ StageOrder[s] > StageOrder[target]
        /\ target # "evaluation"
    BY <1>8, StageOrderValues, SMTT(30) DEF RepairableStage
  <2> QED
    BY <1>1, <1>2, <1>8, <2>1 DEF TakenUp
<1>9. {"defect-feedback", "evaluation"} \cap RepairableStage = {}
  BY DEF RepairableStage
<1> QED
  BY <1>3, <1>4, <1>5, <1>6, <1>7, <1>8, <1>9 DEF Moved

\* A result ends its task, or takes it up again later.
LEMMA SettledTask ==
    ASSUME NEW st \in Statuses, RunInv(st), NEW rep, NEW t \in Task, st[t] = "in-progress",
           NEW o, Result(o), o.status \in FinalStatus
    PROVE  SettledOf(st, rep, t, o)[t] \in FinalStatus \cup Untaken
<1>1. CASE t = EnvTask
  BY <1>1, RootResult
<1>2. CASE t # EnvTask
  <2> DEFINE r == RouteOf(t)
             p == SettledOf(st, rep, t, o)
             s == StageOf(t)
             decision == RepairDecision(Judged(st, t, o), rep, t, o)
  <2>1. t = <<r, s>> /\ r \in Route /\ s \in RouteStage
    BY <1>2, TaskIsPair
  <2>2. PICK new \in Statuses : /\ p = PromoteReadyTasks(new)
                                /\ AtWork(st, r, s) /\ Moved(st, new, r, s, o, decision)
    BY <1>2, <2>1, SettledRoute DEF RunInv
  <2>3. new[t] \in FinalStatus \cup {"pending"}
    <3> HIDE DEF r, s, decision
    <3> QED
      BY <2>1, <2>2, MovedBounds
  <2>4. p[t] = new[t] \/ p[t] = "ready"
    BY <2>2, PromotedTask
  <2> QED
    BY <2>3, <2>4 DEF Untaken
<1> QED
  BY <1>1, <1>2

\* What a result leaves as it was: the dependencies of other routes that are through,
\* and they get through by no other result than their own.
LEMMA PassedBefore ==
    ASSUME NEW st \in Statuses, RunInv(st), NEW rep, NEW t \in Task, st[t] = "in-progress",
           NEW o, Result(o), o.status \in FinalStatus,
           NEW q \in Route, NEW d \in DependsOn[FirstOf(q)], d # t
    PROVE  /\ d \in Task
           /\ After(st, rep, t, o)[d] \in Passed <=> st[d] \in Passed
<1>1. CASE d = EnvTask
  BY <1>1, OtherTaskUnchanged, RootWaitsForNothing
<1>2. CASE d # EnvTask
  <2>1. PICK e \in Route : d = <<e, "evaluation">>
    BY <1>2, FirstOfRoute
  <2>2. "evaluation" \in RouteStage
    BY DEF RouteStage
  <2>3. CASE t = EnvTask \/ RouteOf(t) # e
    BY <2>1, <2>2, <2>3, ElsewhereUnchanged, TaskOfStage
  <2>4. CASE t # EnvTask /\ RouteOf(t) = e
    <3> DEFINE s == StageOf(t)
               new == After(st, rep, t, o)
               decision == RepairDecision(Judged(st, t, o), rep, t, o)
    <3>1. t = <<e, s>> /\ s \in RouteStage /\ s # "evaluation"
      BY <2>1, <2>4, TaskIsPair
    <3>2. AtWork(st, e, s)
      BY <3>1 DEF AtWork, RunInv
    <3>3. Moved(st, new, e, s, o, decision)
      BY <3>1, <3>2, ResultMoves
    <3>4. st[d] \notin Passed
      BY <2>1, <3>1, <3>2, OpenStageOnRoute DEF AtWork, OpenStatus
    <3> HIDE DEF s, new, decision
    <3>5. new[d] \in {st[d], "pending"}
      BY <2>1, <3>1, <3>2, <3>3, MovedBounds
    <3> QED
      BY <2>1, <2>2, <3>4, <3>5, TaskOfStage DEF Passed, new
  <2> QED
    BY <2>3, <2>4
<1> QED
  BY <1>1, <1>2

\* Applying the result of a task in progress keeps a run in shape.
LEMMA SettledRun ==
    ASSUME NEW st \in Statuses, RunInv(st), NEW rep, NEW t \in Task, st[t] = "in-progress",
           NEW o, Result(o), o.status \in FinalStatus
    PROVE  RunInv(SettledOf(st, rep, t, o))
<1> DEFINE new == After(st, rep, t, o)
           p == SettledOf(st, rep, t, o)
<1> SUFFICES ASSUME NEW r \in Route
             PROVE  /\ RouteInv(p, r)
                    /\ p[FirstOf(r)] # "pending" <=> DependenciesPassed(p, FirstOf(r))
  BY DEF RunInv
<1>1. RouteInv(p, r)
  BY SettledShape DEF RunInv, SettledOf
<1>2. p = PromoteReadyTasks(new) /\ new \in Statuses
  BY SettledIsPromoted
<1>3. FirstOf(r) \in Task /\ DependsOn[FirstOf(r)] # {}
      /\ DependsOn[FirstOf(r)] \subseteq Task
  BY FirstOfRoute, PassedBefore, RootWaitsForNothing, TaskOfStage DEF RouteStage
<1>4. DependenciesPassed(p, FirstOf(r)) <=> DependenciesPassed(new, FirstOf(r))
  <2> HIDE DEF new, p
  <2> QED
    BY <1>2, <1>3, PromotedTask DEF DependenciesPassed
<1>5. DependenciesPassed(st, FirstOf(r)) => DependenciesPassed(new, FirstOf(r))
  <2>1. st[t] \notin Passed
    BY DEF Passed
  <2> QED
    BY <2>1, PassedBefore DEF DependenciesPassed
<1>6. p[FirstOf(r)] = "pending" => ~DependenciesPassed(new, FirstOf(r))
  <2> HIDE DEF new, p
  <2> QED
    BY <1>2, <1>3, PromotedTask
<1>7. st[FirstOf(r)] = "pending" /\ p[FirstOf(r)] # "pending" => DependenciesPassed(new, FirstOf(r))
  <2> SUFFICES ASSUME st[FirstOf(r)] = "pending", p[FirstOf(r)] # "pending"
               PROVE  DependenciesPassed(new, FirstOf(r))
    OBVIOUS
  <2>1. t = EnvTask \/ RouteOf(t) # r
    <3> SUFFICES ASSUME t # EnvTask, RouteOf(t) = r
                 PROVE  FALSE
      OBVIOUS
    <3>1. PICK s \in RouteStage : t = <<r, s>>
      BY TaskIsPair
    <3>2. \A u \in RouteStage : st[<<r, u>>] = "pending"
      BY DEF RunInv, RouteInv, Shaped, FirstOf
    <3> QED
      BY <3>1, <3>2
  <2>2. new[FirstOf(r)] = "pending"
    <3>1. "requirements-analysis" \in RouteStage
      BY DEF RouteStage, RepairableStage
    <3>2. new[<<r, "requirements-analysis">>] = st[<<r, "requirements-analysis">>]
      BY <2>1, <3>1, ElsewhereUnchanged
    <3> QED
      BY <3>2 DEF FirstOf
  <2> HIDE DEF new, p
  <2> QED
    BY <1>2, <1>3, <2>2, PromotedTask
<1> HIDE DEF new, p
<1> QED
  BY <1>1, <1>4, <1>5, <1>6, <1>7 DEF RunInv

-----------------------------------------------------------------------------
(* How far a result reaches: it is a matter of the route of its task and   *)
(* of what depends on that task, and the rest of the run neither changes   *)
(* nor matters.                                                            *)

Reach(t) ==
    {u \in Task : \/ u = t
                  \/ t # EnvTask /\ u # EnvTask /\ RouteOf(u) = RouteOf(t)
                  \/ t \in DependsOn[u]}

LEMMA UnreachedUnchanged ==
    ASSUME NEW st \in Statuses, RunInv(st), NEW rep, NEW t \in Task, st[t] = "in-progress",
           NEW o, Result(o), o.status \in FinalStatus, NEW u \in Task \ Reach(t)
    PROVE  SettledOf(st, rep, t, o)[u] = st[u]
<1> DEFINE new == After(st, rep, t, o)
           p == SettledOf(st, rep, t, o)
<1>1. /\ u # t /\ t \notin DependsOn[u]
      /\ t # EnvTask /\ u # EnvTask => RouteOf(u) # RouteOf(t)
  BY DEF Reach
<1>2. new[u] = st[u]
  BY <1>1, OtherTaskUnchanged
<1>3. p = PromoteReadyTasks(new) /\ new \in Statuses
  BY SettledIsPromoted
<1> SUFFICES ASSUME p[u] # new[u]
             PROVE  FALSE
  BY <1>2
<1>4. new[u] = "pending" /\ DependsOn[u] # {} /\ DependenciesPassed(new, u)
  <2> HIDE DEF new, p
  <2> QED
    BY <1>3, PromotedTask
<1>5. u # EnvTask
  BY <1>4, RootWaitsForNothing
<1> DEFINE q == RouteOf(u)
           s == StageOf(u)
<1>6. u = <<q, s>> /\ q \in Route /\ s \in RouteStage
  BY <1>5, TaskIsPair
<1>7. t = EnvTask \/ RouteOf(t) # q
  BY <1>1, <1>5
<1> HIDE DEF q, s
<1>8. CASE s = "requirements-analysis"
  <2>1. u = FirstOf(q)
    BY <1>6, <1>8 DEF FirstOf
  <2>2. \A d \in DependsOn[FirstOf(q)] : st[d] \in Passed
    BY <1>1, <1>4, <1>6, <2>1, PassedBefore DEF DependenciesPassed
  <2> QED
    BY <1>2, <1>4, <1>6, <2>1, <2>2 DEF RunInv, DependenciesPassed
<1>9. CASE s # "requirements-analysis"
  <2>1. DependsOn[u] = {<<q, Previous(s)>>} /\ Previous(s) \in RouteStage
    BY <1>6, <1>9, DependsOnPrevious, WaitsForRoute
  <2>2. new[<<q, Previous(s)>>] = st[<<q, Previous(s)>>]
    BY <1>6, <1>7, <2>1, ElsewhereUnchanged
  <2>3. Ripe(st, q, s)
    BY <1>2, <1>4, <1>6, <1>9, <2>1, <2>2 DEF Ripe, DependenciesPassed
  <2> QED
    BY <1>6, <2>3 DEF RunInv, RouteInv
<1> QED
  BY <1>8, <1>9

SameOnRoute(a, b, r) == \A u \in RouteStage : a[<<r, u>>] = b[<<r, u>>]

\* What a result makes of its route it makes of the route alone.
LEMMA AfterIsLocal ==
    ASSUME NEW a \in Statuses, NEW b \in Statuses, NEW rep, NEW r \in Route, NEW s \in RouteStage,
           NEW o, Result(o), SameOnRoute(a, b, r)
    PROVE  SameOnRoute(After(a, rep, <<r, s>>, o), After(b, rep, <<r, s>>, o), r)
<1> DEFINE t == <<r, s>>
<1>1. /\ t \in Task /\ StageOf(t) = s /\ RouteOf(t) = r
      /\ \A u \in RouteStage : <<r, u>> \in Task /\ Sibling(t, u) = <<r, u>>
      /\ \A u \in RouteStage : StageOf(<<r, u>>) = u /\ RouteOf(<<r, u>>) = r
  BY TaskOfStage
<1>2. /\ {"collaboration", "defect-feedback"} \subseteq RouteStage
      /\ RepairableStage \subseteq RouteStage
  BY DEF RouteStage
<1> DEFINE Done(st) == [st EXCEPT ![t] = o.status]
           Routed(st) == ApplyRouteOutcome(Done(st), t, o)
           Handed(st) == CollaborationApprovalGate(Routed(st), t, o)
           Accepted(st) == EvaluationAcceptanceGate(Handed(st), t, o)
<1>3. \A st : Judged(st, t, o) = PublicationGate(Accepted(st), t, o)
  BY DEF Judged, Gated
<1>4. Done(a) \in Statuses /\ Done(b) \in Statuses /\ SameOnRoute(Done(a), Done(b), r)
  BY <1>1 DEF Statuses, Result, SameOnRoute
<1> HIDE DEF Done
<1>5. Routed(a) \in Statuses /\ Routed(b) \in Statuses /\ SameOnRoute(Routed(a), Routed(b), r)
  <2>1. SameOnRoute(SkipBeforeDefect(Done(a), t), SkipBeforeDefect(Done(b), t), r)
    BY <1>1, <1>4 DEF SkipBeforeDefect, SameOnRoute
  <2>2. SameOnRoute(RouteStageOutcomeToDefect(Done(a), t), RouteStageOutcomeToDefect(Done(b), t), r)
    <3>1. SkipBeforeDefect(Done(a), t) \in Statuses /\ SkipBeforeDefect(Done(b), t) \in Statuses
      BY <1>1, <1>4, SkipType
    <3> QED
      BY <1>1, <1>2, <2>1, <3>1 DEF RouteStageOutcomeToDefect, Statuses, SameOnRoute
  <2>3. SameOnRoute([Done(a) EXCEPT ![Sibling(t, "defect-feedback")] = IF @ = "pending" THEN "skipped" ELSE @],
                    [Done(b) EXCEPT ![Sibling(t, "defect-feedback")] = IF @ = "pending" THEN "skipped" ELSE @], r)
    BY <1>1, <1>2, <1>4 DEF Statuses, SameOnRoute
  <2> QED
    BY <1>1, <1>4, <2>2, <2>3, RouteOutcomeType DEF ApplyRouteOutcome
<1> HIDE DEF Routed
<1>6. Handed(a) \in Statuses /\ Handed(b) \in Statuses /\ SameOnRoute(Handed(a), Handed(b), r)
  BY <1>1, <1>5, CollaborationGateType DEF CollaborationApprovalGate, Statuses, SameOnRoute
<1> HIDE DEF Handed
<1>7. /\ Accepted(a) \in Statuses /\ Accepted(b) \in Statuses
      /\ SameOnRoute(Accepted(a), Accepted(b), r)
  <2>1. SameOnRoute(BackToDefect(Handed(a), t), BackToDefect(Handed(b), t), r)
    BY <1>1, <1>2, <1>6 DEF BackToDefect, Statuses, SameOnRoute
  <2>2. SameOnRoute(RerouteEvaluation(Handed(a), t, o.target), RerouteEvaluation(Handed(b), t, o.target), r)
    BY <1>1, <1>6 DEF RerouteEvaluation, SameOnRoute
  <2>3. SameOnRoute([Handed(a) EXCEPT ![t] = "blocked"], [Handed(b) EXCEPT ![t] = "blocked"], r)
    BY <1>1, <1>6 DEF Statuses, SameOnRoute
  <2> QED
    BY <1>1, <1>6, <2>1, <2>2, <2>3, AcceptanceGateType DEF EvaluationAcceptanceGate
<1> HIDE DEF Accepted
<1>8. SameOnRoute(Judged(a, t, o), Judged(b, t, o), r)
  <2>1. PublishesRoute(Accepted(a), t) <=> PublishesRoute(Accepted(b), t)
    BY <1>1, <1>2, <1>7 DEF PublishesRoute, SameOnRoute
  <2> QED
    BY <1>1, <1>3, <1>7, <2>1 DEF PublicationGate, Statuses, SameOnRoute
<1>9. Judged(a, t, o) \in Statuses /\ Judged(b, t, o) \in Statuses
  BY <1>1, JudgedType
<1> DEFINE ja == Judged(a, t, o)
           jb == Judged(b, t, o)
           decision == RepairDecision(ja, rep, t, o)
<1>10. RepairDecision(jb, rep, t, o) = decision
  BY <1>1, <1>8 DEF RepairDecision, SameOnRoute
<1>11. /\ After(a, rep, t, o) = ApplyAutoRepair(ja, decision, t, o)
       /\ After(b, rep, t, o) = ApplyAutoRepair(jb, decision, t, o)
  BY <1>10 DEF After
<1>12. /\ decision \in {"not-applicable", "escalated", "triggered"}
       /\ decision = "triggered" => o.target \in RouteStage
  BY DecisionType DEF RepairDecision, Result, RouteStage
<1> HIDE DEF ja, jb, decision
<1>13. SameOnRoute(ja, jb, r) /\ ja \in Statuses /\ jb \in Statuses
  BY <1>8, <1>9 DEF ja, jb
<1>14. ASSUME decision = "escalated"
       PROVE  SameOnRoute(ApplyAutoRepair(ja, decision, t, o), ApplyAutoRepair(jb, decision, t, o), r)
  BY <1>1, <1>2, <1>13, <1>14 DEF ApplyAutoRepair, Statuses, SameOnRoute
<1>15. ASSUME decision = "triggered"
       PROVE  SameOnRoute(ApplyAutoRepair(ja, decision, t, o), ApplyAutoRepair(jb, decision, t, o), r)
  BY <1>1, <1>13, <1>15 DEF ApplyAutoRepair, SameOnRoute
<1>16. ASSUME decision = "not-applicable"
       PROVE  SameOnRoute(ApplyAutoRepair(ja, decision, t, o), ApplyAutoRepair(jb, decision, t, o), r)
  BY <1>13, <1>16 DEF ApplyAutoRepair
<1> QED
  BY <1>11, <1>12, <1>14, <1>15, <1>16

\* Each route waits for one other at most. With two, the snapshots of the workers that
\* complete them overlap in the route that waits for both, and its promotion is lost.
OneUpstream == \A r \in Route : \A d, e \in RouteDeps[r] : d = e

\* What a task at work keeps waiting waits for nothing else that is undone.
LEMMA WaitsForOne ==
    ASSUME OneUpstream, NEW st, RunInv(st), NEW t \in Task, st[t] = "in-progress",
           NEW q \in Route, t \in DependsOn[FirstOf(q)], NEW d \in DependsOn[FirstOf(q)], d # t
    PROVE  st[d] \in Passed <=> t # EnvTask
<1>1. CASE t = EnvTask
  <2>1. PICK e \in Route : d = <<e, "evaluation">>
    BY <1>1, FirstOfRoute
  <2>2. st[FirstOf(e)] = "pending"
    <3>1. EnvTask \in DependsOn[FirstOf(e)]
      BY FirstOfRoute
    <3> QED
      BY <1>1, <3>1 DEF RunInv, DependenciesPassed, Passed
  <2>3. st[d] = "pending"
    BY <2>1, <2>2 DEF RunInv, RouteInv, Shaped, FirstOf, RouteStage
  <2> QED
    BY <1>1, <2>3 DEF Passed
<1>2. CASE t # EnvTask
  <2>1. PICK e \in RouteDeps[q] : t = <<e, "evaluation">> /\ e \in Route
    BY <1>2, FirstOfRoute
  <2>2. d = EnvTask
    BY <2>1, FirstOfRoute DEF OneUpstream
  <2>3. "evaluation" \in RouteStage
    BY DEF RouteStage
  <2>4. st[FirstOf(e)] # "pending"
    BY <2>1, <2>3, OpenStageOnRoute DEF RunInv, OpenStatus
  <2>5. EnvTask \in DependsOn[FirstOf(e)]
    BY <2>1, FirstOfRoute
  <2> QED
    BY <1>2, <2>1, <2>2, <2>4, <2>5 DEF RunInv, DependenciesPassed
<1> QED
  BY <1>1, <1>2

\* On two runs that agree where a result reaches it comes to the same there.
LEMMA ReachedAlike ==
    ASSUME OneUpstream, NEW a \in Statuses, NEW b \in Statuses, RunInv(a), RunInv(b),
           NEW rep, NEW t \in Task, a[t] = "in-progress",
           \A v \in Reach(t) : a[v] = b[v],
           NEW o, Result(o), o.status \in FinalStatus, NEW u \in Reach(t)
    PROVE  SettledOf(a, rep, t, o)[u] = SettledOf(b, rep, t, o)[u]
<1> DEFINE na == After(a, rep, t, o)
           nb == After(b, rep, t, o)
           pa == SettledOf(a, rep, t, o)
           pb == SettledOf(b, rep, t, o)
<1>1. /\ pa = PromoteReadyTasks(na) /\ na \in Statuses
      /\ pb = PromoteReadyTasks(nb) /\ nb \in Statuses
  BY SettledIsPromoted
<1>2. b[t] = "in-progress" /\ u \in Task
  BY DEF Reach
<1>3. ASSUME NEW r \in Route, NEW s \in RouteStage, t = <<r, s>>
      PROVE  SameOnRoute(na, nb, r)
  <2>1. SameOnRoute(a, b, r)
    <3>1. \A v \in RouteStage : <<r, v>> \in Reach(t)
      BY <1>3, TaskOfStage DEF Reach, EnvTask, RouteStage, RepairableStage
    <3> QED
      BY <3>1 DEF SameOnRoute
  <2> QED
    BY <1>3, <2>1, AfterIsLocal
<1>4. na[t] = nb[t]
  <2>1. CASE t = EnvTask
    <3>1. [a EXCEPT ![EnvTask] = o.status][EnvTask] = o.status
          /\ [b EXCEPT ![EnvTask] = o.status][EnvTask] = o.status
      BY RootWaitsForNothing DEF Statuses
    <3>2. After(a, rep, EnvTask, o) = [a EXCEPT ![EnvTask] = o.status]
      BY RootResult
    <3>3. After(b, rep, EnvTask, o) = [b EXCEPT ![EnvTask] = o.status]
      BY RootResult
    <3> QED
      BY <2>1, <3>1, <3>2, <3>3
  <2>2. CASE t # EnvTask
    BY <1>3, <2>2, TaskIsPair DEF SameOnRoute
  <2> QED
    BY <2>1, <2>2
<1>5. CASE t # EnvTask /\ u # EnvTask /\ RouteOf(u) = RouteOf(t)
  <2>1. PICK r \in Route, s \in RouteStage, v \in RouteStage : t = <<r, s>> /\ u = <<r, v>>
    BY <1>2, <1>5, TaskIsPair
  <2>2. SameOnRoute(na, nb, r)
    BY <1>3, <2>1
  <2>3. CASE v # "requirements-analysis"
    <3>1. Ripe(na, r, v) <=> Ripe(nb, r, v)
      BY <2>2, <2>3, WaitsForRoute DEF SameOnRoute, Ripe
    <3>2. na[u] = nb[u]
      BY <2>1, <2>2 DEF SameOnRoute
    <3> HIDE DEF na, nb, pa, pb
    <3>3. PromoteReadyTasks(na)[u] = IF Ripe(na, r, v) THEN "ready" ELSE na[u]
      BY <1>1, <2>1, <2>3, PromotedRoute
    <3>4. PromoteReadyTasks(nb)[u] = IF Ripe(nb, r, v) THEN "ready" ELSE nb[u]
      BY <1>1, <2>1, <2>3, PromotedRoute
    <3> QED
      BY <1>1, <3>1, <3>2, <3>3, <3>4 DEF pa, pb
  <2>4. CASE v = "requirements-analysis"
    <3> DEFINE decision == RepairDecision(Judged(a, t, o), rep, t, o)
    <3>1. AtWork(a, r, s)
      BY <2>1 DEF AtWork, RunInv
    <3>2. Moved(a, na, r, s, o, decision)
      BY <2>1, <3>1, ResultMoves
    <3> HIDE DEF na, nb, pa, pb, decision
    <3>3. na[u] # "pending"
      BY <2>1, <2>4, <3>1, <3>2, MovedBounds DEF FirstOf
    <3>4. nb[u] = na[u]
      BY <2>1, <2>2 DEF SameOnRoute
    <3>5. pa[u] = na[u]
      BY <1>1, <1>2, <3>3, PromotedTask
    <3>6. pb[u] = nb[u]
      BY <1>1, <1>2, <3>3, <3>4, PromotedTask
    <3> QED
      BY <3>4, <3>5, <3>6 DEF pa, pb
  <2> QED
    BY <2>3, <2>4
<1>6. CASE u = EnvTask
  <2>1. t = EnvTask
    BY <1>6, RootWaitsForNothing DEF Reach
  <2> QED
    BY <1>6, <2>1, RootResult
<1>7. CASE t \in DependsOn[u] /\ u # EnvTask /\ (t = EnvTask \/ RouteOf(u) # RouteOf(t))
  <2>1. u = <<RouteOf(u), StageOf(u)>> /\ RouteOf(u) \in Route /\ StageOf(u) \in RouteStage
    BY <1>2, <1>7, TaskIsPair
  <2> DEFINE q == RouteOf(u)
  <2>2. StageOf(u) = "requirements-analysis"
    <3> SUFFICES ASSUME StageOf(u) # "requirements-analysis"
                 PROVE  FALSE
      OBVIOUS
    <3>1. t = <<q, Previous(StageOf(u))>> /\ Previous(StageOf(u)) \in RouteStage
      BY <1>7, <2>1, DependsOnPrevious, WaitsForRoute
    <3>2. RouteOf(t) = q /\ t # EnvTask
      BY <3>1 DEF RouteOf, EnvTask, RouteStage, RepairableStage
    <3> QED
      BY <1>7, <3>2
  <2>3. u = FirstOf(q)
    BY <2>1, <2>2 DEF FirstOf
  <2>4. a[u] = "pending" /\ b[u] = "pending"
    <3>1. a[t] \in OpenStatus /\ b[t] \in OpenStatus
      BY <1>2 DEF OpenStatus
    <3>2. a[u] = "pending"
      BY <1>2, <1>7, <3>1, NothingBegunOn
    <3>3. b[u] = "pending"
      BY <1>2, <1>7, <3>1, NothingBegunOn
    <3> QED
      BY <3>2, <3>3
  <2>5. u # t
    BY <1>2, <2>4
  <2>6. na[u] = "pending" /\ nb[u] = "pending"
    BY <1>2, <1>7, <2>4, <2>5, OtherTaskUnchanged
  <2>7. ASSUME NEW d \in DependsOn[u]
        PROVE  na[d] \in Passed <=> nb[d] \in Passed
    <3>1. CASE d = t
      BY <1>4, <3>1
    <3>2. CASE d # t
      <4>1. na[d] \in Passed <=> a[d] \in Passed
        BY <2>1, <2>3, <2>7, <3>2, PassedBefore
      <4>2. nb[d] \in Passed <=> b[d] \in Passed
        BY <1>2, <2>1, <2>3, <2>7, <3>2, PassedBefore
      <4>3. a[d] \in Passed <=> b[d] \in Passed
        BY <1>2, <1>7, <2>1, <2>3, <2>7, <3>2, WaitsForOne
      <4> QED
        BY <4>1, <4>2, <4>3
    <3> QED
      BY <3>1, <3>2
  <2>8. DependenciesPassed(na, u) <=> DependenciesPassed(nb, u)
    BY <2>7 DEF DependenciesPassed
  <2>9. DependsOn[u] # {}
    BY <1>7
  <2> HIDE DEF na, nb, pa, pb
  <2>10. pa[u] = IF DependenciesPassed(na, u) THEN "ready" ELSE "pending"
    BY <1>1, <1>2, <2>6, <2>9, PromotedTask
  <2>11. pb[u] = IF DependenciesPassed(nb, u) THEN "ready" ELSE "pending"
    BY <1>1, <1>2, <2>6, <2>9, PromotedTask
  <2> QED
    BY <2>8, <2>10, <2>11 DEF pa, pb
<1>8. CASE u = t
  BY <1>5, <1>6, <1>8
<1> QED
  BY <1>5, <1>6, <1>7, <1>8 DEF Reach

\* The rows that differ between a snapshot b and what became of it, written over st.
Merged(b, f, st) == [u \in Task |-> IF f[u] = b[u] THEN st[u] ELSE f[u]]

\* Persisting what a result made of a snapshot is applying the result to the rows,
\* if the snapshot is up to date where the result reaches.
LEMMA MergedIsSettled ==
    ASSUME OneUpstream, NEW st \in Statuses, NEW b \in Statuses, RunInv(st), RunInv(b),
           NEW rep, NEW t \in Task, st[t] = "in-progress",
           \A v \in Reach(t) : b[v] = st[v],
           NEW o, Result(o), o.status \in FinalStatus
    PROVE  Merged(b, SettledOf(b, rep, t, o), st) = SettledOf(st, rep, t, o)
<1> DEFINE f == SettledOf(b, rep, t, o)
           p == SettledOf(st, rep, t, o)
<1>0. b[t] = "in-progress"
  BY DEF Reach
<1>1. p \in Statuses
  BY SettledIsPromoted
<1>2. ASSUME NEW u \in Task
      PROVE  (IF f[u] = b[u] THEN st[u] ELSE f[u]) = p[u]
  <2>1. CASE u \in Reach(t)
    <3>1. f[u] = p[u]
      BY <1>0, <2>1, ReachedAlike
    <3> QED
      BY <2>1, <3>1
  <2>2. CASE u \notin Reach(t)
    <3>1. f[u] = b[u] /\ p[u] = st[u]
      BY <1>0, <2>2, UnreachedUnchanged
    <3> QED
      BY <3>1
  <2> QED
    BY <2>1, <2>2
<1> HIDE DEF f, p
<1>3. Merged(b, f, st) = [u \in Task |-> p[u]]
  BY <1>2 DEF Merged
<1>4. p = [u \in Task |-> p[u]]
  BY <1>1 DEF Statuses
<1> QED
  BY <1>3, <1>4 DEF f, p


\* What is open is out of the reach of another open task.
LEMMA OpenIsUnreached ==
    ASSUME NEW st, RunInv(st), NEW t \in Task, st[t] \in OpenStatus,
           NEW u \in Task, st[u] \in OpenStatus, u # t
    PROVE  u \notin Reach(t)
<1>1. t \notin DependsOn[u]
  BY NothingBegunOn DEF OpenStatus
<1>2. t # EnvTask /\ u # EnvTask => RouteOf(u) # RouteOf(t)
  BY OneOpen
<1> QED
  BY <1>1, <1>2 DEF Reach

\* Two tasks at work reach nothing in common.
LEMMA ReachesApart ==
    ASSUME OneUpstream, NEW st, RunInv(st), NEW t \in Task, st[t] = "in-progress",
           NEW v \in Task, st[v] = "in-progress", v # t
    PROVE  Reach(t) \cap Reach(v) = {}
<1>0. /\ st[t] \in OpenStatus /\ st[v] \in OpenStatus
      /\ st[t] \notin Passed /\ st[v] \notin Passed
      /\ st[t] # "pending" /\ st[v] # "pending"
  BY DEF OpenStatus, Passed
<1>1. ASSUME st[EnvTask] \notin Passed, NEW x \in Task \ {EnvTask}
      PROVE  st[x] = "pending"
  <2>1. PICK r \in Route, s \in RouteStage : x = <<r, s>>
    BY TaskIsPair
  <2>2. st[FirstOf(r)] = "pending"
    BY <1>1, FirstOfRoute DEF RunInv, DependenciesPassed
  <2> QED
    BY <2>1, <2>2 DEF RunInv, RouteInv, Shaped, FirstOf
<1>2. t # EnvTask /\ v # EnvTask
  BY <1>0, <1>1
<1>3. RouteOf(t) # RouteOf(v)
  BY <1>0, <1>2, OneOpen
<1>4. ASSUME NEW x \in {t, v}, NEW y \in {t, v}, x # y,
             NEW u \in Task \ {EnvTask}, RouteOf(u) = RouteOf(x), y \in DependsOn[u]
      PROVE  FALSE
  <2>1. PICK r \in Route, s \in RouteStage, q \in RouteStage :
            u = <<r, s>> /\ x = <<r, q>> /\ RouteOf(x) = r /\ StageOf(u) = s
    BY <1>2, <1>4, TaskIsPair
  <2>2. CASE s = "requirements-analysis"
    <3>1. u = FirstOf(r)
      BY <2>1, <2>2 DEF FirstOf
    <3>2. st[FirstOf(r)] # "pending"
      BY <1>0, <2>1, OpenStageOnRoute DEF RunInv
    <3> QED
      BY <1>0, <1>4, <2>1, <3>1, <3>2 DEF RunInv, DependenciesPassed
  <2>3. CASE s # "requirements-analysis"
    <3>1. y = <<r, Previous(s)>>
      BY <1>4, <2>1, <2>3, DependsOnPrevious
    <3>2. RouteOf(y) = RouteOf(x)
      BY <2>1, <3>1 DEF RouteOf
    <3> QED
      BY <1>3, <1>4, <3>2
  <2> QED
    BY <2>2, <2>3
<1>5. ASSUME NEW u \in Task, t \in DependsOn[u], v \in DependsOn[u]
      PROVE  FALSE
  <2>1. u # EnvTask
    BY <1>5, RootWaitsForNothing
  <2>2. PICK r \in Route, s \in RouteStage : u = <<r, s>>
    BY <2>1, TaskIsPair
  <2>3. CASE s = "requirements-analysis"
    <3>1. u = FirstOf(r)
      BY <2>2, <2>3 DEF FirstOf
    <3>2. PICK d \in RouteDeps[r], e \in RouteDeps[r] :
            t = <<d, "evaluation">> /\ v = <<e, "evaluation">>
      BY <1>2, <1>5, <2>2, <3>1, FirstOfRoute
    <3> QED
      BY <2>2, <3>2 DEF OneUpstream
  <2>4. CASE s # "requirements-analysis"
    BY <1>5, <2>2, <2>4, DependsOnPrevious
  <2> QED
    BY <2>3, <2>4
<1>6. ASSUME NEW u \in Reach(t), u \in Reach(v)
      PROVE  FALSE
  <2>1. u \in Task
    BY DEF Reach
  <2>2. u # t /\ u # v
    BY <1>0, <1>6, OpenIsUnreached
  <2>3. \/ u # EnvTask /\ RouteOf(u) = RouteOf(t)
        \/ t \in DependsOn[u]
    BY <1>6, <2>2 DEF Reach
  <2>4. \/ u # EnvTask /\ RouteOf(u) = RouteOf(v)
        \/ v \in DependsOn[u]
    BY <1>6, <2>2 DEF Reach
  <2> QED
    BY <1>3, <1>4, <1>5, <2>1, <2>3, <2>4
<1> QED
  BY <1>6

\* A result puts no task to work.
LEMMA NoneTakenUp ==
    ASSUME NEW st \in Statuses, RunInv(st), NEW rep, NEW t \in Task, st[t] = "in-progress",
           NEW o, Result(o), o.status \in FinalStatus,
           NEW u \in Task, SettledOf(st, rep, t, o)[u] = "in-progress"
    PROVE  u # t /\ st[u] = "in-progress"
<1> DEFINE new == After(st, rep, t, o)
<1>1. u # t
  BY SettledTask DEF FinalStatus, Untaken
<1>2. SettledOf(st, rep, t, o) = PromoteReadyTasks(new) /\ new \in Statuses
  BY SettledIsPromoted
<1>3. new[u] = "in-progress"
  <2> HIDE DEF new
  <2> QED
    BY <1>2, PromotedTask
<1>4. CASE t = EnvTask \/ u = EnvTask \/ RouteOf(u) # RouteOf(t)
  BY <1>1, <1>3, <1>4, OtherTaskUnchanged
<1>5. CASE t # EnvTask /\ u # EnvTask /\ RouteOf(u) = RouteOf(t)
  <2>1. PICK r \in Route, s \in RouteStage, v \in RouteStage : t = <<r, s>> /\ u = <<r, v>>
    BY <1>5, TaskIsPair
  <2>2. AtWork(st, r, s)
    BY <2>1 DEF AtWork, RunInv
  <2> DEFINE decision == RepairDecision(Judged(st, t, o), rep, t, o)
  <2>3. Moved(st, new, r, s, o, decision)
    BY <2>1, <2>2, ResultMoves
  <2>4. v # s
    BY <1>1, <2>1
  <2> HIDE DEF new, decision
  <2>5. new[<<r, v>>] = st[<<r, v>>] \/ new[<<r, v>>] \in FinalStatus \cup Untaken
    <3>1. CASE \E x \in {o.status, "blocked"} : Through(st, new, r, s, x)
      BY <2>4, <3>1 DEF Through
    <3>2. CASE s = "automated-execution" /\ DefectSkipped(st, new, r, o.status)
      BY <2>4, <3>2 DEF DefectSkipped, FinalStatus
    <3>3. CASE ToDefect(st, new, r, s, o.status)
      BY <2>4, <3>3 DEF ToDefect, FinalStatus, Untaken
    <3>4. CASE Escalated(st, new, r)
      BY <3>4 DEF Escalated, FinalStatus, Untaken
    <3>5. CASE \E target : \E x \in {"pending", "blocked"} : TakenUp(st, new, r, target, x)
      BY <3>5 DEF TakenUp, FinalStatus, Untaken
    <3> QED
      BY <2>3, <3>1, <3>2, <3>3, <3>4, <3>5 DEF Moved
  <2> QED
    BY <1>1, <1>3, <2>1, <2>5 DEF FinalStatus, Untaken
<1> QED
  BY <1>4, <1>5

\* A run that is inferred to be closed has nothing open.
LEMMA ClosedIsNotOpen ==
    ASSUME NEW st, InferRunStatus(st) \in {"completed", "failed"}, NEW t \in Task
    PROVE  st[t] \notin OpenStatus
<1> SUFFICES ASSUME st[t] \in OpenStatus
             PROVE  FALSE
  OBVIOUS
<1> DEFINE seen == {st[u] : u \in {v \in Task : ~ResolvedRouteFailure(st, v)}}
<1>1. st[t] \in seen
  BY DEF ResolvedRouteFailure, OpenStatus
<1>2. ~(seen \subseteq Passed) /\ seen \cap OpenStatus # {}
  BY <1>1 DEF Passed, OpenStatus
<1> HIDE DEF seen
<1> QED
  BY <1>2 DEF InferRunStatus, seen

=============================================================================
