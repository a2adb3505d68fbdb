----------------------------- MODULE TaskRouting -----------------------------
(***************************************************************************)
(* What one task result does to the state of a run                         *)
(* (runtime/task-result-service.ts, runtime/auto-repair-policy-service.ts, *)
(* runtime/execution-state-service.ts).  Every operator here is a function *)
(* of the statuses of the tasks and of an outcome; the file-based loop     *)
(* (WorkflowLoop) and the platform workers (PlatformRun) both apply them.  *)
(*                                                                         *)
(* A result is an outcome record:                                          *)
(*   status       the status the adapter reports for the task              *)
(*   contract     how much of the role's expected artifacts it delivered   *)
(*   recoverable  it carries errors, and all of them are recoverable       *)
(*   handoff      the readiness of the collaboration handoff               *)
(*   decision     the decision of the evaluation summary                   *)
(*   target       the repairable stage a defect summary recommends, or the *)
(*                stage an evaluation summary asks to repair; else NoStage *)
(*   publication  what publishing the route to git comes to                *)
(* The fields a stage does not deliver have one value.                     *)
(*                                                                         *)
(* Abstracted: notes and artifacts, but for the "auto-repair-attempt:<n>"  *)
(* notes the repair budget is counted with; timestamps; executors.         *)
(***************************************************************************)
EXTENDS TaskGraph

CONSTANTS
    ResultStatus,    \* the statuses adapters report
    RepairTarget,    \* bound: the repairable stages summaries ask for
    MaxAutoRepair,   \* reviewPolicy.maxAutoRepairAttempts of a route
    RiskBlocked,     \* blockedRiskLevels holds the risk level of the route
    HumanApproval,   \* reviewPolicy.requireHumanApproval
    AutoCommit       \* reviewPolicy.allowAutoCommit

ASSUME PolicyAssumption ==
    /\ ResultStatus \subseteq TaskStatus
    /\ RepairTarget \subseteq RepairableStage
    /\ MaxAutoRepair \in [Route -> Nat]
    /\ RiskBlocked \in [Route -> BOOLEAN]
    /\ HumanApproval \in [Route -> BOOLEAN]
    /\ AutoCommit \in [Route -> BOOLEAN]

NoStage == "none"

ContractStatus == {"satisfied", "partial", "missing"}

Outcome ==
    [status      : ResultStatus,
     contract    : ContractStatus,
     recoverable : BOOLEAN,
     handoff     : {"ready", "blocked"},
     decision    : {"accepted", "rejected", "needs-repair"},
     target      : RepairableStage \cup {NoStage},
     publication : {"published", "blocked", "not-applicable"}]

\* Roles with a single expected artifact deliver it or miss it.
Contracts(s) ==
    IF s \in {"code-implementation", "test-design", "automated-execution", "defect-feedback"}
    THEN ContractStatus
    ELSE {"satisfied", "missing"}

\* The outcomes a task of stage s can have.  A field no reader looks at keeps its
\* plainest value: errors matter to a blocked task, a target to a result that asks
\* for repair, publication to an accepted evaluation.
Outcomes == [s \in TaskStage |->
    {o \in [status      : ResultStatus,
            contract    : Contracts(s),
            recoverable : IF s \in RepairableStage THEN BOOLEAN ELSE {FALSE},
            handoff     : IF s = "collaboration" THEN {"ready", "blocked"} ELSE {"ready"},
            decision    : IF s = "evaluation" THEN {"accepted", "rejected", "needs-repair"}
                          ELSE {"accepted"},
            target      : IF s \in {"defect-feedback", "evaluation"}
                          THEN RepairTarget \cup {NoStage} ELSE {NoStage},
            publication : IF s = "evaluation" THEN {"published", "blocked", "not-applicable"}
                          ELSE {"not-applicable"}] :
        /\ o.recoverable => o.status = "blocked"
        /\ o.target # NoStage => s = "defect-feedback" \/ o.decision = "needs-repair"
        /\ o.publication # "not-applicable" => o.decision = "accepted"}]

Unmet(o) == o.contract # "satisfied"

-----------------------------------------------------------------------------
(* Promotion and inference over the statuses st of the tasks.              *)

Passed == {"completed", "skipped"}

DependenciesPassed(st, t) == \A d \in DependsOn[t] : st[d] \in Passed

PromoteReadyTasks(st) ==
    [t \in Task |->
        IF st[t] = "pending" /\ DependsOn[t] # {} /\ DependenciesPassed(st, t)
        THEN "ready" ELSE st[t]]

\* Mutant of ResolvedRouteFailure: every stage of the route is forgiven.
AnyFailureResolved(st, t) ==
    /\ st[t] \in {"blocked", "failed"}
    /\ StageOf(t) # "environment-preparation"
    /\ st[Sibling(t, "collaboration")] \in Passed

\* A blocked or failed stage stops counting once its route's collaboration is through.
ResolvedRouteFailure(st, t) ==
    /\ st[t] \in {"blocked", "failed"}
    /\ StageOf(t) \notin {"environment-preparation", "collaboration", "evaluation"}
    /\ st[Sibling(t, "collaboration")] \in Passed

RunStatus == {"pending", "running", "blocked", "completed", "failed"}

\* Mutant of OpenStatus: ready work is overlooked.
StartedStatus == {"in-progress"}

OpenStatus == {"in-progress", "ready"}

InferRunStatus(st) ==
    LET seen == {st[t] : t \in {u \in Task : ~ResolvedRouteFailure(st, u)}}
    IN  IF seen \subseteq Passed          THEN "completed"
        ELSE IF seen \cap OpenStatus # {} THEN "running"
        ELSE IF "failed" \in seen         THEN "failed"
        ELSE IF "blocked" \in seen        THEN "blocked"
        ELSE IF "completed" \in seen      THEN "running"
        ELSE "pending"

\* The statuses, the most telling first.
Telling == <<"in-progress", "ready", "blocked", "failed", "pending", "completed">>

\* The stage of the first task with the most telling status there is.
InferCurrentStage(st, current) ==
    LET seen == {st[t] : t \in Task}
        told == {i \in 1..6 : Telling[i] \in seen}
        first == CHOOSE i \in told : \A j \in told : i =< j
    IN  IF told = {} THEN current
        ELSE StageOf(FirstInGraph({t \in Task : st[t] = Telling[first]}))

-----------------------------------------------------------------------------
(* The outcome of a delivery stage: onwards, or into defect feedback.      *)

ShouldRouteToDefect(o) ==
    \/ o.status = "failed"
    \/ o.status = "blocked" /\ ~o.recoverable
    \/ o.status \notin {"failed", "blocked"} /\ Unmet(o)

\* Mutant of SkipBeforeDefect: nothing is skipped.
NothingSkipped(st, t) == st

\* The delivery stages between t and defect feedback are passed over.
SkipBeforeDefect(st, t) ==
    [u \in Task |->
        IF /\ LaterOnRoute(u, t, StageOf(t))
           /\ StageOf(u) \in RepairableStage
           /\ st[u] \in {"pending", "ready"}
        THEN "skipped" ELSE st[u]]

\* A failed execution leaves defect feedback to promotion.
RouteStageOutcomeToDefect(st, t) ==
    [SkipBeforeDefect(st, t) EXCEPT
        ![Sibling(t, "collaboration")] = IF @ = "ready" THEN "pending" ELSE @,
        ![Sibling(t, "defect-feedback")] =
            IF /\ StageOf(t) # "automated-execution"
               /\ @ \in {"pending", "completed", "skipped", "blocked"}
            THEN "ready" ELSE @]

ApplyRouteOutcome(st, t, o) ==
    IF StageOf(t) \notin RepairableStage THEN st
    ELSE IF ShouldRouteToDefect(o) THEN RouteStageOutcomeToDefect(st, t)
    ELSE IF StageOf(t) = "automated-execution"
         THEN [st EXCEPT ![Sibling(t, "defect-feedback")] =
                    IF @ = "pending" THEN "skipped" ELSE @]
         ELSE st

-----------------------------------------------------------------------------
(* The gates on collaboration, evaluation and publication.                 *)

CollaborationApprovalGate(st, t, o) ==
    IF /\ StageOf(t) = "collaboration"
       /\ HumanApproval[RouteOf(t)]
       /\ Unmet(o) \/ o.handoff = "blocked"
    THEN [st EXCEPT ![t] = "blocked"]
    ELSE st

\* A target stage goes first; the stages after it wait, the evaluation is blocked.
RerouteEvaluation(st, t, target) ==
    [u \in Task |->
        CASE u = t                       -> "blocked"
          [] u = Sibling(t, target)      -> "ready"
          [] OTHER -> IF LaterOnRoute(u, t, target) THEN "pending" ELSE st[u]]

\* Mutant of BackToDefect: the collaboration is not taken back.
BackToDefectOnly(st, t) ==
    [st EXCEPT ![Sibling(t, "defect-feedback")] = "ready",
               ![Sibling(t, "collaboration")]   = "ready",
               ![t] = "blocked"]

\* Without a target stage the defect feedback goes first.
BackToDefect(st, t) ==
    [st EXCEPT ![Sibling(t, "defect-feedback")] = "ready",
               ![Sibling(t, "collaboration")]   = "pending",
               ![t] = "blocked"]

RerouteRequested(o) == o.decision = "needs-repair" /\ o.contract # "missing"

EvaluationAcceptanceGate(st, t, o) ==
    IF StageOf(t) # "evaluation" THEN st
    ELSE IF RerouteRequested(o)
         THEN IF o.target # NoStage
              THEN RerouteEvaluation(st, t, o.target)
              ELSE BackToDefect(st, t)
    ELSE IF Unmet(o) \/ o.decision # "accepted"
         THEN [st EXCEPT ![t] = "blocked"]
         ELSE st

\* Only an evaluation that came out completed publishes, and only its own route.
PublishesRoute(st, t) ==
    /\ StageOf(t) = "evaluation"
    /\ st[t] = "completed"
    /\ st[Sibling(t, "collaboration")] = "completed"
    /\ AutoCommit[RouteOf(t)]

PublicationGate(st, t, o) ==
    IF PublishesRoute(st, t) /\ o.publication = "blocked"
    THEN [st EXCEPT ![t] = "blocked"]
    ELSE st

\* The statuses after the result is recorded and every gate has spoken.
Gated(st, t, o) ==
    EvaluationAcceptanceGate(
        CollaborationApprovalGate(
            ApplyRouteOutcome([st EXCEPT ![t] = o.status], t, o), t, o), t, o)

-----------------------------------------------------------------------------
(* Automatic repair.  rep[t] is the highest n of t's notes                 *)
(* "auto-repair-attempt:<n>", 0 if it has none.                            *)

\* Mutant of BudgetSpent: the attempt about to be made is not counted.
BudgetOverspent(rep, t, o) == rep[Sibling(t, o.target)] > MaxAutoRepair[RouteOf(t)]

BudgetSpent(rep, t, o) == rep[Sibling(t, o.target)] + 1 > MaxAutoRepair[RouteOf(t)]

RepairDecision(st, rep, t, o) ==
    IF \/ StageOf(t) # "defect-feedback"
       \/ st[t] # "completed"
       \/ Unmet(o)
    THEN "not-applicable"
    ELSE IF \/ o.target = NoStage
            \/ MaxAutoRepair[RouteOf(t)] =< 0
            \/ RiskBlocked[RouteOf(t)]
            \/ BudgetSpent(rep, t, o)
    THEN "escalated"
    ELSE "triggered"

ApplyAutoRepair(st, decision, t, o) ==
    CASE decision = "not-applicable" -> st
      [] decision = "escalated" -> [st EXCEPT ![Sibling(t, "collaboration")] = "ready"]
      [] decision = "triggered" ->
            [u \in Task |->
                IF u = Sibling(t, o.target) THEN "ready"
                ELSE IF LaterOnRoute(u, t, o.target) THEN "pending"
                ELSE st[u]]

\* The repaired task and the defect both get the note of the attempt.
NoteRepair(rep, decision, t, o) ==
    IF decision = "triggered"
    THEN LET n == rep[Sibling(t, o.target)] + 1
         IN  [rep EXCEPT ![Sibling(t, o.target)] = n,
                         ![t] = IF @ < n THEN n ELSE @]
    ELSE rep

-----------------------------------------------------------------------------
(* The whole of applyTaskResult: the statuses the gates leave, the repair  *)
(* decision taken on them, the statuses and the stage that follow.         *)

\* Mutant of Judged: a result without artifacts leaves the task in progress.
JudgedIfDelivered(st, t, o) == IF o.contract = "missing" THEN st
                               ELSE PublicationGate(Gated(st, t, o), t, o)

Judged(st, t, o) == PublicationGate(Gated(st, t, o), t, o)

Settled(judged, decision, t, o) ==
    PromoteReadyTasks(ApplyAutoRepair(judged, decision, t, o))

\* Mutant of NextCurrentStage: an escalation names the stage it could not repair.
CurrentStageOfTarget(st, decision, o, current) ==
    IF decision = "not-applicable" THEN InferCurrentStage(st, current) ELSE o.target

NextCurrentStage(st, decision, o, current) ==
    CASE decision = "triggered"      -> o.target
      [] decision = "escalated"      -> "collaboration"
      [] decision = "not-applicable" -> InferCurrentStage(st, current)
=============================================================================
