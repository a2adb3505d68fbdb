------------------------- MODULE WorkflowLoopProofs --------------------------
(***************************************************************************)
(* Theorems about the controller loop, for every task graph, every review  *)
(* policy and every number of crashes.                                     *)
(***************************************************************************)
EXTENDS WorkflowLoop, TaskRoutingProofs

\* The current stage that is inferred is a stage of the graph.
LEMMA CurrentStageType ==
    ASSUME NEW st \in Statuses, NEW current \in TaskStage
    PROVE  InferCurrentStage(st, current) \in TaskStage
<1> DEFINE seen == {st[t] : t \in Task}
           told == {i \in 1..6 : Telling[i] \in seen}
           first == CHOOSE i \in told : \A j \in told : i =< j
           S == {t \in Task : st[t] = Telling[first]}
<1>1. CASE told = {}
  BY <1>1 DEF InferCurrentStage
<1>2. CASE told # {}
  <2>1. told \in SUBSET Nat
    OBVIOUS
  <2>2. first \in told
    <3> HIDE DEF told
    <3>1. PICK i \in told : \A j \in told : i =< j
      BY <1>2, <2>1, LeastNatural
    <3> QED
      BY <3>1
  <2> HIDE DEF first
  <2>3. S # {}
    BY <2>2
  <2>4. FirstInGraph(S) \in Task
    BY <2>3, FirstInGraphIsIn
  <2>5. InferCurrentStage(st, current) = StageOf(FirstInGraph(S))
    BY <1>2 DEF InferCurrentStage, first
  <2> QED
    BY <2>4, <2>5, TaskIsPair
<1> QED
  BY <1>1, <1>2

\* So is the one that follows a repair decision.
LEMMA NextCurrentStageType ==
    ASSUME NEW st \in Statuses, NEW current \in TaskStage,
           NEW judged, NEW rep, NEW t, NEW o, Result(o)
    PROVE  NextCurrentStage(st, RepairDecision(judged, rep, t, o), o, current) \in TaskStage
<1> DEFINE decision == RepairDecision(judged, rep, t, o)
<1>1. decision = "triggered" => o.target \in TaskStage
  BY DEF RepairDecision, Result, TaskStage, RouteStage
<1>2. decision \in {"not-applicable", "escalated", "triggered"}
  BY DecisionType
<1>3. "collaboration" \in TaskStage
  BY DEF TaskStage, RouteStage
<1> HIDE DEF decision
<1>4. NextCurrentStage(st, decision, o, current) \in TaskStage
  BY <1>1, <1>2, <1>3, CurrentStageType DEF NextCurrentStage
<1> QED
  BY <1>4 DEF decision

-----------------------------------------------------------------------------
(* Type correctness.                                                       *)

LEMMA InitType ==
    ASSUME Init
    PROVE  TypeOK
<1>1. "environment-preparation" \in TaskStage
  BY DEF TaskStage
<1> QED
  BY <1>1, InitialStatusType, LoopAssumption
     DEF Init, TypeOK, Statuses, RunStatus

LEMMA ApplyResultType ==
    ASSUME TypeOK, ApplyResult
    PROVE  TypeOK'
<1>1. claimed \in Task /\ StageOf(claimed) \in TaskStage
  BY TaskIsPair DEF TypeOK, ApplyResult
<1>2. PICK o \in Outcomes[StageOf(claimed)], carries \in BOOLEAN :
        /\ summaryOf' = FirstSummary(claimed, carries)
        /\ \E judged \in {Judged(status, claimed, o)} :
           \E decision \in {RepairDecision(judged, repairs, claimed, o)} :
           \E settled \in {Settled(judged, decision, claimed, o)} :
               /\ status' = settled
               /\ repairs' = NoteRepair(repairs, decision, claimed, o)
               /\ runStatus' = InferRunStatus(settled)
               /\ currentStage' = NextCurrentStage(settled, decision, o, currentStage)
               /\ published' = PublishTo(judged, claimed, o)
  BY DEF ApplyResult
<1> DEFINE judged == Judged(status, claimed, o)
           decision == RepairDecision(judged, repairs, claimed, o)
           settled == Settled(judged, decision, claimed, o)
<1>3. /\ status' = settled
      /\ repairs' = NoteRepair(repairs, decision, claimed, o)
      /\ runStatus' = InferRunStatus(settled)
      /\ currentStage' = NextCurrentStage(settled, decision, o, currentStage)
      /\ published' = PublishTo(judged, claimed, o)
  BY <1>2
<1>4. Result(o)
  BY <1>1, OutcomesAreResults
<1>5. status \in Statuses /\ repairs \in Counts
  BY DEF TypeOK, Statuses, Counts
<1>6. judged \in Statuses
  BY <1>1, <1>4, <1>5, JudgedType
<1> HIDE DEF judged
<1>7. decision \in {"not-applicable", "escalated", "triggered"}
  BY DecisionType
<1>8. settled \in Statuses
  BY <1>1, <1>4, <1>6, <1>7, SettledType
<1> HIDE DEF settled
<1>9. NoteRepair(repairs, decision, claimed, o) \in Counts
  BY <1>1, <1>4, <1>5, <1>6, NoteRepairType
<1>10. NextCurrentStage(settled, decision, o, currentStage) \in TaskStage
  BY <1>4, <1>8, NextCurrentStageType DEF TypeOK
<1>11. InferRunStatus(settled) \in RunStatus
  BY DEF InferRunStatus, RunStatus
<1> HIDE DEF decision
<1>12. summaryOf' \in Route \cup {NoRoute}
  BY <1>1, <1>2, TaskIsPair DEF FirstSummary, TypeOK, EnvTask, StageOf
<1>13. published' \in [Route -> Route \cup {NoRoute}]
  BY <1>3 DEF PublishTo, TypeOK
<1>14. verdict' \in [Route -> {"none", "accepted", "refused", "repair"}]
  BY DEF ApplyResult, Verdict, TypeOK
<1> QED
  BY <1>3, <1>8, <1>9, <1>10, <1>11, <1>12, <1>13, <1>14
     DEF TypeOK, ApplyResult, Statuses, Counts

\* Every step of the loop preserves the types of its variables.
LEMMA StepType ==
    ASSUME TypeOK, [Next]_vars
    PROVE  TypeOK'
<1>1. CASE ClaimNextTask
  <2> DEFINE t == FirstInGraph(With("ready"))
  <2>1. t \in Task
    BY <1>1, FirstInGraphIsIn DEF ClaimNextTask, With
  <2>2. StageOf(t) \in TaskStage
    BY <2>1, TaskIsPair
  <2>3. /\ status' = [status EXCEPT ![t] = "in-progress"]
        /\ attempts' = [attempts EXCEPT ![t] = @ + 1]
        /\ currentStage' = StageOf(t)
        /\ claimed' = t
    BY <1>1 DEF ClaimNextTask
  <2> HIDE DEF t
  <2> QED
    BY <1>1, <2>1, <2>2, <2>3 DEF ClaimNextTask, TypeOK, TaskStatus, RunStatus
<1>2. CASE ResumeInProgressTask
  <2>1. claimed' \in Task
    BY <1>2, FirstInGraphIsIn DEF ResumeInProgressTask, With
  <2> QED
    BY <1>2, <2>1 DEF ResumeInProgressTask, TypeOK, file
<1>3. CASE ApplyResult
  BY <1>3, ApplyResultType
<1>4. CASE Crash
  BY <1>4, LoopAssumption DEF Crash, TypeOK, file
<1>5. CASE CrashAfterPublication
  <2>1. published' \in [Route -> Route \cup {NoRoute}]
    BY <1>5 DEF CrashAfterPublication, PublishTo, TypeOK
  <2> QED
    BY <1>5, <2>1, LoopAssumption DEF CrashAfterPublication, TypeOK, file
<1>6. CASE UNCHANGED vars
  BY <1>6 DEF vars, file, TypeOK
<1> QED
  BY <1>1, <1>2, <1>3, <1>4, <1>5, <1>6 DEF Next

\* The variables of the loop keep their types, in every run of it.
THEOREM LoopTypeCorrect == Spec => []TypeOK
<1>1. Init => TypeOK
  BY InitType
<1>2. TypeOK /\ [Next]_vars => TypeOK'
  BY StepType
<1> QED
  BY <1>1, <1>2, PTL DEF Spec

-----------------------------------------------------------------------------
(* One stage of a route at a time.  The inductive invariant says of every  *)
(* route that the stages after an open one wait and that promotion has     *)
(* nothing left to do, and of the loop that what it executes is in         *)
(* progress.  It asks of the adapters that they report final statuses.     *)

LoopInv ==
    /\ TypeOK
    /\ claimed # NoTask => status[claimed] = "in-progress"
    /\ \A r \in Route : RouteInv(status, r)

LEMMA InitInv ==
    ASSUME Init
    PROVE  LoopInv
<1>1. TypeOK
  BY InitType
<1>2. ASSUME NEW r \in Route
      PROVE  RouteInv(status, r)
  <2>1. \A u \in RouteStage : status[<<r, u>>] = "pending"
    BY TaskOfStage DEF Init, InitialStatus, EnvTask, RouteStage, RepairableStage, StageOf
  <2>2. \A u \in RouteStage : ~Ripe(status, r, u)
    BY <2>1, PreviousValues, SMTT(30) DEF Ripe, Passed, RouteStage, RepairableStage
  <2> QED
    BY <2>1, <2>2 DEF RouteInv, Shaped, OpenStatus, RouteStage
<1> QED
  BY <1>1, <1>2 DEF LoopInv, Init

\* Claiming moves a task from one open status to the other.
LEMMA ClaimInv ==
    ASSUME LoopInv, ClaimNextTask, TypeOK'
    PROVE  LoopInv'
<1> DEFINE t == FirstInGraph(With("ready"))
<1>1. t \in Task /\ status[t] = "ready"
  BY FirstInGraphIsIn DEF ClaimNextTask, With
<1>2. status' = [status EXCEPT ![t] = "in-progress"] /\ claimed' = t
  BY DEF ClaimNextTask
<1> HIDE DEF t
<1>3. ASSUME NEW r \in Route
      PROVE  RouteInv(status', r)
  <2>1. ASSUME NEW u \in RouteStage
        PROVE  \/ status'[<<r, u>>] = status[<<r, u>>]
               \/ status[<<r, u>>] = "ready" /\ status'[<<r, u>>] = "in-progress"
    BY <1>1, <1>2, TaskOfStage DEF LoopInv, TypeOK
  <2>2. RouteInv(status, r)
    BY DEF LoopInv
  <2>3. \A u \in RouteStage : ~Ripe(status', r, u)
    BY <2>1, <2>2, PreviousValues, SMTT(30)
       DEF RouteInv, Ripe, Passed, RouteStage, RepairableStage
  <2>4. \A s \in RouteStage : RestWaits(status, r, s) => RestWaits(status', r, s)
    BY <2>1 DEF RestWaits, Waiting
  <2>5. \A s \in RouteStage : status'[<<r, s>>] \in OpenStatus => status[<<r, s>>] \in OpenStatus
    BY <2>1 DEF OpenStatus
  <2>6. Shaped(status', r)
    <3>1. \A s \in RouteStage : status'[<<r, s>>] \in OpenStatus => RestWaits(status', r, s)
      BY <2>2, <2>4, <2>5 DEF RouteInv, Shaped
    <3>2. status'[<<r, "requirements-analysis">>] = "pending" =>
            \A u \in RouteStage : status'[<<r, u>>] = "pending"
      BY <2>1, <2>2 DEF RouteInv, Shaped, RouteStage, RepairableStage
    <3>3. status'[<<r, "collaboration">>] \in OpenStatus
            => status'[<<r, "defect-feedback">>] \in Passed
      BY <2>1, <2>2, <2>5 DEF RouteInv, Shaped, Passed, RouteStage
    <3> QED
      BY <3>1, <3>2, <3>3 DEF Shaped
  <2> QED
    BY <2>3, <2>6 DEF RouteInv
<1>4. status'[claimed'] = "in-progress"
  BY <1>1, <1>2 DEF LoopInv, TypeOK
<1> QED
  BY <1>3, <1>4 DEF LoopInv

LEMMA ApplyResultInv ==
    ASSUME LoopInv, ApplyResult, TypeOK', ResultStatus \subseteq FinalStatus
    PROVE  LoopInv'
<1>1. /\ claimed \in Task /\ StageOf(claimed) \in TaskStage
      /\ status[claimed] = "in-progress" /\ status \in Statuses
  BY TaskIsPair DEF LoopInv, TypeOK, ApplyResult, Statuses
<1>2. PICK o \in Outcomes[StageOf(claimed)] :
        status' = Settled(Judged(status, claimed, o),
                          RepairDecision(Judged(status, claimed, o), repairs, claimed, o),
                          claimed, o)
  BY DEF ApplyResult
<1>3. Result(o) /\ o.status \in FinalStatus
  <2>1. Result(o)
    BY <1>1, OutcomesAreResults
  <2>2. o.status \in ResultStatus
    BY <1>1 DEF Outcomes
  <2> QED
    BY <2>1, <2>2
<1>4. \A r \in Route : RouteInv(status', r)
  BY <1>1, <1>2, <1>3, SettledShape DEF LoopInv
<1>5. claimed' = NoTask
  BY DEF ApplyResult
<1> QED
  BY <1>4, <1>5 DEF LoopInv

LEMMA StepInv ==
    ASSUME LoopInv, [Next]_vars, ResultStatus \subseteq FinalStatus
    PROVE  LoopInv'
<1>1. TypeOK'
  BY StepType DEF LoopInv
<1>2. CASE ClaimNextTask
  BY <1>1, <1>2, ClaimInv
<1>3. CASE ApplyResult
  BY <1>1, <1>3, ApplyResultInv
<1>4. CASE ResumeInProgressTask
  <2>1. status'[claimed'] = "in-progress" /\ status' = status
    BY <1>4, FirstInGraphIsIn DEF ResumeInProgressTask, With, file
  <2> QED
    BY <1>1, <2>1 DEF LoopInv
<1>5. CASE Crash \/ CrashAfterPublication
  BY <1>1, <1>5 DEF Crash, CrashAfterPublication, file, LoopInv
<1>6. CASE UNCHANGED vars
  BY <1>1, <1>6 DEF vars, file, LoopInv
<1> QED
  BY <1>2, <1>3, <1>4, <1>5, <1>6 DEF Next

\* A route never has two tasks that could be worked on (applyTaskResult and what it
\* calls), on any task graph: the later of two open stages would have to wait.
THEOREM OneStageAtATime ==
    ASSUME ResultStatus \subseteq FinalStatus
    PROVE  Spec => []OneActiveStagePerRoute
<1>1. Init => LoopInv
  BY InitInv
<1>2. LoopInv /\ [Next]_vars => LoopInv'
  BY StepInv
<1>3. LoopInv => OneActiveStagePerRoute
  <2> SUFFICES ASSUME LoopInv, NEW t \in RouteTask, NEW u \in RouteTask,
                      RouteOf(t) = RouteOf(u), status[t] \in Active, status[u] \in Active
               PROVE  t = u
    BY DEF OneActiveStagePerRoute
  <2> DEFINE r == RouteOf(t)
  <2>1. /\ r \in Route /\ StageOf(t) \in RouteStage /\ StageOf(u) \in RouteStage
        /\ t = <<r, StageOf(t)>> /\ u = <<r, StageOf(u)>>
    BY DEF RouteTask, RouteOf, StageOf
  <2>2. ASSUME NEW a \in RouteStage, NEW b \in RouteStage, StageOrder[a] > StageOrder[b],
               status[<<r, a>>] \in Active, status[<<r, b>>] \in Active
        PROVE  FALSE
    <3>1. Waiting(status, r, a)
      BY <2>1, <2>2 DEF LoopInv, RouteInv, Shaped, RestWaits, Active, OpenStatus
    <3> QED
      BY <2>2, <3>1 DEF Waiting, Active
  <2>3. StageOf(t) = StageOf(u)
    BY <2>1, <2>2, StageOrderValues, SMTT(30) DEF RouteStage, RepairableStage
  <2> QED
    BY <2>1, <2>3
<1> QED
  BY <1>1, <1>2, <1>3, PTL DEF Spec

\* Collaboration does not unlock before the defect path of its route is through.
THEOREM DefectBeforeCollaboration ==
    ASSUME ResultStatus \subseteq FinalStatus
    PROVE  Spec => []CollaborationAfterDefect
<1>1. Init => LoopInv
  BY InitInv
<1>2. LoopInv /\ [Next]_vars => LoopInv'
  BY StepInv
<1>3. LoopInv => CollaborationAfterDefect
  BY DEF LoopInv, RouteInv, Shaped, CollaborationAfterDefect, Active, OpenStatus
<1> QED
  BY <1>1, <1>2, <1>3, PTL DEF Spec


-----------------------------------------------------------------------------
(* What is accepted.  The evaluation of a route rests on its collaboration *)
(* and its verdict, a route that is begun on the routes it depends on, and *)
(* the status of the run on the statuses it was inferred from.             *)

AcceptInv ==
    /\ LoopInv
    /\ \A r \in Route : HandedOver(status, r)
    /\ \A r \in Route : status[<<r, "evaluation">>] = "completed" => verdict[r] = "accepted"
    /\ \A r \in Route : RestsOnAccepted(status, r)
    /\ \A r \in Route : status[<<r, "requirements-analysis">>] = "pending"
            => attempts[<<r, "requirements-analysis">>] = 0
    /\ runStatus = "completed" => InferRunStatus(status) = "completed"

\* What the result of the claimed task does to the run.
LEMMA ResultApplied ==
    ASSUME LoopInv, ApplyResult
    PROVE  /\ claimed \in Task /\ status[claimed] = "in-progress" /\ status \in Statuses
           /\ repairs \in Counts
           /\ \E o \in Outcomes[StageOf(claimed)] :
                /\ Result(o)
                /\ o.status \in ResultStatus
                /\ status' = SettledOf(status, repairs, claimed, o)
                /\ repairs' = NoteRepair(repairs, RepairDecision(Judged(status, claimed, o), repairs, claimed, o), claimed, o)
                /\ runStatus' = InferRunStatus(status')
                /\ verdict' = IF StageOf(claimed) = "evaluation"
                              THEN [verdict EXCEPT ![RouteOf(claimed)] = Verdict(o)]
                              ELSE verdict
<1>1. /\ claimed \in Task /\ StageOf(claimed) \in TaskStage
      /\ status[claimed] = "in-progress" /\ status \in Statuses /\ repairs \in Counts
  BY TaskIsPair DEF LoopInv, TypeOK, ApplyResult, Statuses, Counts
<1>2. PICK o \in Outcomes[StageOf(claimed)] :
        /\ \E judged \in {Judged(status, claimed, o)} :
           \E decision \in {RepairDecision(judged, repairs, claimed, o)} :
           \E settled \in {Settled(judged, decision, claimed, o)} :
               /\ status' = settled
               /\ repairs' = NoteRepair(repairs, decision, claimed, o)
               /\ runStatus' = InferRunStatus(settled)
        /\ verdict' = IF StageOf(claimed) = "evaluation"
                      THEN [verdict EXCEPT ![RouteOf(claimed)] = Verdict(o)]
                      ELSE verdict
  BY DEF ApplyResult
<1>3. Result(o)
  BY <1>1, OutcomesAreResults
<1>4. o.status \in ResultStatus
  BY <1>1 DEF Outcomes
<1>5. /\ status' = SettledOf(status, repairs, claimed, o)
      /\ repairs' = NoteRepair(repairs, RepairDecision(Judged(status, claimed, o), repairs, claimed, o), claimed, o)
      /\ runStatus' = InferRunStatus(status')
  BY <1>2 DEF SettledOf
<1> QED
  BY <1>1, <1>2, <1>3, <1>4, <1>5

LEMMA InitAccept ==
    ASSUME Init
    PROVE  AcceptInv
<1>1. LoopInv
  BY InitInv
<1>2. ASSUME NEW r \in Route
      PROVE  /\ status[<<r, "evaluation">>] = "pending"
             /\ status[<<r, "collaboration">>] = "pending"
             /\ status[<<r, "requirements-analysis">>] = "pending"
             /\ <<r, "requirements-analysis">> \in Task
  BY TaskOfStage DEF Init, InitialStatus, EnvTask, RouteStage, RepairableStage, StageOf
<1> QED
  BY <1>1, <1>2 DEF AcceptInv, HandedOver, RestsOnAccepted, OpenStatus, Init

\* Claiming neither begins a route that waits nor ends one.
LEMMA ClaimAccept ==
    ASSUME AcceptInv, ClaimNextTask, LoopInv'
    PROVE  AcceptInv'
<1> DEFINE t == FirstInGraph(With("ready"))
<1>1. t \in Task /\ status[t] = "ready"
  BY FirstInGraphIsIn DEF ClaimNextTask, With
<1>2. /\ status' = [status EXCEPT ![t] = "in-progress"]
      /\ attempts' = [attempts EXCEPT ![t] = @ + 1]
      /\ runStatus' = "running" /\ verdict' = verdict
  BY DEF ClaimNextTask
<1> HIDE DEF t
<1>3. ASSUME NEW r \in Route, NEW u \in RouteStage
      PROVE  \/ /\ status'[<<r, u>>] = status[<<r, u>>]
                /\ attempts'[<<r, u>>] = attempts[<<r, u>>]
             \/ status[<<r, u>>] = "ready" /\ status'[<<r, u>>] = "in-progress"
  BY <1>1, <1>2, TaskOfStage DEF AcceptInv, LoopInv, TypeOK
<1>4. {"requirements-analysis", "collaboration", "evaluation"} \subseteq RouteStage
  BY DEF RouteStage, RepairableStage
<1>5. ASSUME NEW r \in Route
      PROVE  /\ HandedOver(status', r)
             /\ status'[<<r, "evaluation">>] = "completed" => verdict'[r] = "accepted"
             /\ RestsOnAccepted(status', r)
             /\ status'[<<r, "requirements-analysis">>] = "pending"
                    => attempts'[<<r, "requirements-analysis">>] = 0
  <2>1. HandedOver(status', r)
    BY <1>3, <1>4 DEF AcceptInv, HandedOver, OpenStatus
  <2>2. RestsOnAccepted(status', r)
    BY <1>3, <1>4, RouteDepsAssumption DEF AcceptInv, RestsOnAccepted
  <2> QED
    BY <1>2, <1>3, <1>4, <2>1, <2>2 DEF AcceptInv
<1> QED
  BY <1>2, <1>5 DEF AcceptInv

LEMMA ApplyResultAccept ==
    ASSUME AcceptInv, ApplyResult, LoopInv', ResultStatus \subseteq ExecutedStatus
    PROVE  AcceptInv'
<1>1. PICK o \in Outcomes[StageOf(claimed)] :
        /\ Result(o)
        /\ o.status \in ExecutedStatus
        /\ status' = SettledOf(status, repairs, claimed, o)
        /\ runStatus' = InferRunStatus(status')
        /\ verdict' = IF StageOf(claimed) = "evaluation"
                      THEN [verdict EXCEPT ![RouteOf(claimed)] = Verdict(o)]
                      ELSE verdict
  BY ResultApplied DEF AcceptInv
<1>2. claimed \in Task /\ status[claimed] = "in-progress" /\ status \in Statuses
  BY ResultApplied DEF AcceptInv
<1>3. \A q \in Route : RouteInv(status, q) /\ HandedOver(status, q)
  BY DEF AcceptInv, LoopInv
<1>4. attempts' = attempts
  BY DEF ApplyResult
<1>5. ASSUME NEW r \in Route
      PROVE  /\ HandedOver(status', r)
             /\ RestsOnAccepted(status', r)
             /\ status'[<<r, "requirements-analysis">>] = "pending"
                    => attempts'[<<r, "requirements-analysis">>] = 0
  <2>1. HandedOver(status', r)
    BY <1>1, <1>2, <1>3, HandedOverStays
  <2>2. RestsOnAccepted(status', r)
    <3>1. RestsOnAccepted(status, r)
      BY DEF AcceptInv
    <3> QED
      BY <1>1, <1>2, <1>3, <3>1, RestsOnAcceptedStays
  <2>3. status'[<<r, "requirements-analysis">>] = "pending"
            => status[<<r, "requirements-analysis">>] = "pending"
    BY <1>1, <1>2, <1>3, StartedStays
  <2> QED
    BY <1>4, <2>1, <2>2, <2>3 DEF AcceptInv
<1>6. ASSUME NEW r \in Route, status'[<<r, "evaluation">>] = "completed"
      PROVE  verdict'[r] = "accepted"
  <2>1. \/ status[<<r, "evaluation">>] = "completed" /\ claimed # <<r, "evaluation">>
        \/ claimed = <<r, "evaluation">> /\ Accepts(o)
    BY <1>1, <1>2, <1>3, <1>6, HandedOverStays
  <2>2. verdict \in [Route -> {"none", "accepted", "refused", "repair"}]
    BY DEF AcceptInv, LoopInv, TypeOK
  <2>3. CASE status[<<r, "evaluation">>] = "completed" /\ claimed # <<r, "evaluation">>
    <3>1. verdict[r] = "accepted"
      BY <2>3 DEF AcceptInv
    <3>2. StageOf(claimed) = "evaluation" => RouteOf(claimed) # r
      BY <1>2, <2>3, TaskIsPair
    <3> QED
      BY <1>1, <2>2, <3>1, <3>2
  <2>4. CASE claimed = <<r, "evaluation">> /\ Accepts(o)
    <3>1. StageOf(claimed) = "evaluation" /\ RouteOf(claimed) = r
      BY <2>4 DEF StageOf, RouteOf
    <3>2. Verdict(o) = "accepted"
      BY <2>4 DEF Accepts, Verdict
    <3> QED
      BY <1>1, <2>2, <3>1, <3>2
  <2> QED
    BY <2>1, <2>3, <2>4
<1> QED
  BY <1>1, <1>5, <1>6 DEF AcceptInv

LEMMA StepAccept ==
    ASSUME AcceptInv, [Next]_vars, ResultStatus \subseteq ExecutedStatus
    PROVE  AcceptInv'
<1>1. LoopInv'
  <2>1. ExecutedStatus \subseteq FinalStatus
    BY DEF ExecutedStatus, FinalStatus
  <2> QED
    BY <2>1, StepInv DEF AcceptInv
<1>2. CASE ClaimNextTask
  BY <1>1, <1>2, ClaimAccept
<1>3. CASE ApplyResult
  BY <1>1, <1>3, ApplyResultAccept
<1>4. CASE ResumeInProgressTask \/ Crash \/ CrashAfterPublication \/ UNCHANGED vars
  <2>1. /\ status' = status /\ attempts' = attempts
        /\ runStatus' = runStatus /\ verdict' = verdict
    BY <1>4 DEF ResumeInProgressTask, Crash, CrashAfterPublication, vars, file
  <2> QED
    BY <1>1, <2>1 DEF AcceptInv
<1> QED
  BY <1>2, <1>3, <1>4 DEF Next

\* A run of the loop reports itself completed only when every route was accepted by
\* its last evaluation (executionState.status, inferRunStatus), on any task graph.
\* Adapters may report any status but "skipped", which no runner of the code reports.
THEOREM CompletionMeansAcceptance ==
    ASSUME ResultStatus \subseteq ExecutedStatus
    PROVE  Spec => []CompletedRunIsAccepted
<1>1. Init => AcceptInv
  BY InitAccept
<1>2. AcceptInv /\ [Next]_vars => AcceptInv'
  BY StepAccept
<1>3. AcceptInv => CompletedRunIsAccepted
  <2> SUFFICES ASSUME AcceptInv, runStatus = "completed", NEW r \in Route
               PROVE  /\ verdict[r] = "accepted"
                      /\ status[<<r, "evaluation">>] = "completed"
                      /\ status[<<r, "collaboration">>] = "completed"
    BY DEF CompletedRunIsAccepted
  <2> DEFINE e == <<r, "evaluation">>
  <2>1. e \in Task /\ StageOf(e) = "evaluation"
    BY TaskOfStage DEF RouteStage
  <2>2. ~ResolvedRouteFailure(status, e)
    BY <2>1 DEF ResolvedRouteFailure
  <2>3. InferRunStatus(status) = "completed"
    BY DEF AcceptInv
  <2>4. status[e] \in Passed
    BY <2>1, <2>2, <2>3 DEF InferRunStatus
  <2>5. HandedOver(status, r)
    BY DEF AcceptInv
  <2>6. status[e] = "completed" /\ status[<<r, "collaboration">>] = "completed"
    BY <2>4, <2>5 DEF HandedOver, Passed
  <2> QED
    BY <2>6 DEF AcceptInv
<1> QED
  BY <1>1, <1>2, <1>3, PTL DEF Spec

\* Work on a route starts only when the routes it depends on are accepted, and they
\* stay accepted while it is worked on (promoteReadyTasks), on any task graph.
THEOREM RoutesRestOnAcceptedRoutes ==
    ASSUME ResultStatus \subseteq ExecutedStatus
    PROVE  Spec => []DependenciesStayAccepted
<1>1. Init => AcceptInv
  BY InitAccept
<1>2. AcceptInv /\ [Next]_vars => AcceptInv'
  BY StepAccept
<1>3. AcceptInv => DependenciesStayAccepted
  <2> SUFFICES ASSUME AcceptInv, NEW r \in Route, NEW d \in RouteDeps[r],
                      attempts[<<r, "requirements-analysis">>] > 0
               PROVE  status[<<d, "evaluation">>] = "completed"
    BY DEF DependenciesStayAccepted
  <2>1. status[<<r, "requirements-analysis">>] # "pending"
    BY DEF AcceptInv
  <2> QED
    BY <2>1 DEF AcceptInv, RestsOnAccepted
<1> QED
  BY <1>1, <1>2, <1>3, PTL DEF Spec

\* No step of the loop changes a route whose evaluation is completed: neither the
\* result of another route (applyTaskResult) nor a late reroute reopens it.
THEOREM AcceptedRoutesStay ==
    ASSUME ResultStatus \subseteq FinalStatus
    PROVE  Spec => AcceptedRouteIsFinal
<1>1. Init => LoopInv
  BY InitInv
<1>2. LoopInv /\ [Next]_vars => LoopInv'
  BY StepInv
<1>3. LoopInv /\ [Next]_vars =>
        [\A r \in Route :
            status[<<r, "evaluation">>] = "completed" =>
                \A s \in RouteStage : status'[<<r, s>>] = status[<<r, s>>]]_vars
  <2> SUFFICES ASSUME LoopInv, Next, NEW r \in Route,
                      status[<<r, "evaluation">>] = "completed", NEW s \in RouteStage
               PROVE  status'[<<r, s>>] = status[<<r, s>>]
    OBVIOUS
  <2>1. CASE ClaimNextTask
    <3> DEFINE t == FirstInGraph(With("ready"))
    <3>1. t \in Task /\ status[t] = "ready" /\ status' = [status EXCEPT ![t] = "in-progress"]
      BY <2>1, FirstInGraphIsIn DEF ClaimNextTask, With
    <3>2. status[<<r, s>>] \notin OpenStatus
      BY AcceptedIsClosed DEF LoopInv, TypeOK, Statuses, Passed
    <3> HIDE DEF t
    <3> QED
      BY <3>1, <3>2, TaskOfStage DEF OpenStatus, LoopInv, TypeOK
  <2>2. CASE ApplyResult
    BY <2>2, ResultApplied, AcceptedUnchanged DEF LoopInv, Passed
  <2>3. CASE ResumeInProgressTask \/ Crash \/ CrashAfterPublication
    BY <2>3 DEF ResumeInProgressTask, Crash, CrashAfterPublication, file
  <2> QED
    BY <2>1, <2>2, <2>3 DEF Next
<1> QED
  BY <1>1, <1>2, <1>3, PTL DEF Spec, AcceptedRouteIsFinal


-----------------------------------------------------------------------------
(* The budget of claims.  Beside the claims made, the invariant counts the *)
(* claim every task still to be done is good for, and the one evaluation   *)
(* under way, which can send its route round again.                        *)

\* One claim to come.
Owed(t) == IF status[t] \in Untaken THEN 1 ELSE 0

UnderEvaluation(r) == IF status[<<r, "evaluation">>] = "in-progress" THEN 1 ELSE 0

RouteBudget(r) ==
    /\ \A s \in RepairableStage : repairs[<<r, s>>] =< MaxAutoRepair[r]
    /\ attempts[<<r, "evaluation">>] + Owed(<<r, "evaluation">>) =< 1 + RepairsOf(r)
    /\ \A s \in RouteStage \ {"evaluation"} :
        attempts[<<r, s>>] + Owed(<<r, s>>) + UnderEvaluation(r)
            =< 1 + RepairsOf(r) + attempts[<<r, "evaluation">>]

BudgetInv == LoopInv /\ \A r \in Route : RouteBudget(r)

\* Notes are counted with naturals.
LEMMA RepairsOfType ==
    ASSUME TypeOK, NEW r \in Route
    PROVE  /\ RepairsOf(r) \in Nat
           /\ \A s \in RouteStage : attempts[<<r, s>>] \in Nat /\ repairs[<<r, s>>] \in Nat
<1>1. \A s \in RouteStage : attempts[<<r, s>>] \in Nat /\ repairs[<<r, s>>] \in Nat
  BY TaskOfStage DEF TypeOK
<1> QED
  BY <1>1 DEF RepairsOf, RouteStage, RepairableStage

LEMMA InitBudget ==
    ASSUME Init
    PROVE  BudgetInv
<1>1. LoopInv
  BY InitInv
<1>2. ASSUME NEW r \in Route, NEW s \in RouteStage
      PROVE  /\ status[<<r, s>>] = "pending"
             /\ attempts[<<r, s>>] = 0 /\ repairs[<<r, s>>] = 0
  BY TaskOfStage DEF Init, InitialStatus, EnvTask, RouteStage, RepairableStage, StageOf
<1>3. ASSUME NEW r \in Route
      PROVE  RouteBudget(r)
  <2>1. RepairsOf(r) = 0
    <3>1. /\ repairs[<<r, "requirements-analysis">>] = 0
          /\ repairs[<<r, "code-implementation">>] = 0
          /\ repairs[<<r, "test-design">>] = 0
          /\ repairs[<<r, "automated-execution">>] = 0
      BY <1>2 DEF RouteStage, RepairableStage
    <3> QED
      BY <3>1 DEF RepairsOf
  <2>2. \A s \in RouteStage : Owed(<<r, s>>) = 1
    BY <1>2 DEF Owed, Untaken
  <2>3. UnderEvaluation(r) = 0 /\ "evaluation" \in RouteStage
    BY <1>2 DEF UnderEvaluation, RouteStage
  <2>4. \A s \in RepairableStage : repairs[<<r, s>>] =< MaxAutoRepair[r]
    BY <1>2, PolicyAssumption DEF RouteStage
  <2> QED
    BY <1>2, <2>1, <2>2, <2>3, <2>4 DEF RouteBudget
<1> QED
  BY <1>1, <1>3 DEF BudgetInv

\* A claim is made of what was owed; that of an evaluation opens the next round.
LEMMA ClaimBudget ==
    ASSUME BudgetInv, ClaimNextTask, LoopInv'
    PROVE  BudgetInv'
<1> DEFINE t == FirstInGraph(With("ready"))
<1>1. t \in Task /\ status[t] = "ready"
  BY FirstInGraphIsIn DEF ClaimNextTask, With
<1>2. /\ status' = [status EXCEPT ![t] = "in-progress"]
      /\ attempts' = [attempts EXCEPT ![t] = @ + 1]
      /\ repairs' = repairs
  BY DEF ClaimNextTask
<1> HIDE DEF t
<1>3. ASSUME NEW r \in Route
      PROVE  RouteBudget(r)'
  <2>1. \A s \in RouteStage :
          IF t = <<r, s>>
          THEN /\ status[<<r, s>>] = "ready" /\ status'[<<r, s>>] = "in-progress"
               /\ attempts'[<<r, s>>] = attempts[<<r, s>>] + 1
          ELSE /\ status'[<<r, s>>] = status[<<r, s>>]
               /\ attempts'[<<r, s>>] = attempts[<<r, s>>]
    BY <1>1, <1>2, TaskOfStage DEF BudgetInv, LoopInv, TypeOK
  <2>2. \A s \in RouteStage :
          attempts'[<<r, s>>] + Owed(<<r, s>>)' = attempts[<<r, s>>] + Owed(<<r, s>>)
    <3> SUFFICES ASSUME NEW s \in RouteStage
                 PROVE  attempts'[<<r, s>>] + Owed(<<r, s>>)' = attempts[<<r, s>>] + Owed(<<r, s>>)
      OBVIOUS
    <3>1. attempts[<<r, s>>] \in Nat
      BY RepairsOfType DEF BudgetInv, LoopInv
    <3>2. CASE t = <<r, s>>
      <4>1. Owed(<<r, s>>) = 1 /\ Owed(<<r, s>>)' = 0
        BY <2>1, <3>2 DEF Owed, Untaken
      <4> QED
        BY <2>1, <3>1, <3>2, <4>1
    <3>3. CASE t # <<r, s>>
      BY <2>1, <3>3 DEF Owed
    <3> QED
      BY <3>2, <3>3
  <2>3. "evaluation" \in RouteStage
    BY DEF RouteStage
  <2>4. UnderEvaluation(r)' - attempts'[<<r, "evaluation">>]
            = UnderEvaluation(r) - attempts[<<r, "evaluation">>]
    <3>1. attempts[<<r, "evaluation">>] \in Nat
      BY <2>3, RepairsOfType DEF BudgetInv, LoopInv
    <3> QED
      BY <2>1, <2>3, <3>1 DEF UnderEvaluation
  <2>5. RepairsOf(r)' = RepairsOf(r) /\ \A s \in RepairableStage : repairs'[<<r, s>>] = repairs[<<r, s>>]
    BY <1>2 DEF RepairsOf
  <2>6. RouteBudget(r)
    BY DEF BudgetInv
  <2>7. /\ RepairsOf(r) \in Nat /\ UnderEvaluation(r) \in Nat /\ UnderEvaluation(r)' \in Nat
        /\ \A s \in RouteStage : /\ attempts[<<r, s>>] \in Nat /\ attempts'[<<r, s>>] \in Nat
                                 /\ Owed(<<r, s>>) \in Nat /\ Owed(<<r, s>>)' \in Nat
    <3>1. /\ RepairsOf(r) \in Nat
          /\ \A s \in RouteStage : attempts[<<r, s>>] \in Nat
      BY RepairsOfType DEF BudgetInv, LoopInv
    <3> QED
      BY <2>1, <3>1 DEF Owed, UnderEvaluation
  <2>8. attempts'[<<r, "evaluation">>] + Owed(<<r, "evaluation">>)' =< 1 + RepairsOf(r)'
    BY <2>2, <2>3, <2>5, <2>6 DEF RouteBudget
  <2>9. ASSUME NEW s \in RouteStage \ {"evaluation"}
        PROVE  attempts'[<<r, s>>] + Owed(<<r, s>>)' + UnderEvaluation(r)'
                    =< 1 + RepairsOf(r)' + attempts'[<<r, "evaluation">>]
    <3>1. attempts[<<r, s>>] + Owed(<<r, s>>) + UnderEvaluation(r)
            =< 1 + RepairsOf(r) + attempts[<<r, "evaluation">>]
      BY <2>6 DEF RouteBudget
    <3>2. /\ attempts[<<r, s>>] \in Nat /\ attempts'[<<r, s>>] \in Nat
          /\ Owed(<<r, s>>) \in Nat /\ Owed(<<r, s>>)' \in Nat
          /\ attempts'[<<r, s>>] + Owed(<<r, s>>)' = attempts[<<r, s>>] + Owed(<<r, s>>)
      BY <2>2, <2>7
    <3>3. /\ attempts[<<r, "evaluation">>] \in Nat /\ attempts'[<<r, "evaluation">>] \in Nat
          /\ UnderEvaluation(r) \in Nat /\ UnderEvaluation(r)' \in Nat
          /\ RepairsOf(r) \in Nat /\ RepairsOf(r)' = RepairsOf(r)
      BY <2>3, <2>5, <2>7
    <3> HIDE DEF Owed
    <3> QED
      BY <2>4, <3>1, <3>2, <3>3, SMTT(30)
  <2>10. \A s \in RepairableStage : repairs'[<<r, s>>] =< MaxAutoRepair[r]
    BY <2>5, <2>6 DEF RouteBudget
  <2> QED
    BY <2>8, <2>9, <2>10 DEF RouteBudget
<1> QED
  BY <1>3 DEF BudgetInv

\* A note of a repair is one more repair of its route.
LEMMA RepairIsCounted ==
    ASSUME TypeOK, NEW t \in Task, NEW o, Result(o), NEW judged \in Statuses,
           NEW decision, decision = RepairDecision(judged, repairs, t, o),
           repairs' = NoteRepair(repairs, decision, t, o), NEW r \in Route
    PROVE  /\ RepairsOf(r)' = IF decision = "triggered" /\ t = <<r, "defect-feedback">>
                              THEN RepairsOf(r) + 1 ELSE RepairsOf(r)
           /\ (\A s \in RepairableStage : repairs[<<r, s>>] =< MaxAutoRepair[r])
                => \A s \in RepairableStage : repairs'[<<r, s>>] =< MaxAutoRepair[r]
<1>0. repairs \in Counts
  BY DEF TypeOK, Counts
<1>1. CASE decision # "triggered"
  <2>1. repairs' = repairs
    BY <1>1 DEF NoteRepair
  <2> QED
    BY <1>1, <2>1 DEF RepairsOf
<1>2. CASE decision = "triggered"
  <2> DEFINE q == RouteOf(t)
             n == repairs[<<q, o.target>>] + 1
  <2>1. /\ o.target \in RepairableStage /\ t \in RouteTask
        /\ n =< MaxAutoRepair[q] /\ <<q, o.target>> \in Task
    BY <1>0, <1>2, TriggeredHasTarget DEF Sibling
  <2>2. StageOf(t) = "defect-feedback" /\ t = <<q, "defect-feedback">> /\ q \in Route
    BY <1>2, <2>1, TaskIsPair DEF RepairDecision, RouteTask, RouteOf
  <2>3. repairs' = [repairs EXCEPT ![<<q, o.target>>] = n, ![t] = IF @ < n THEN n ELSE @]
    BY <1>2 DEF NoteRepair, Sibling
  <2>4. \A s \in RepairableStage : <<r, s>> \in Task /\ <<r, s>> # t
    BY <2>2, TaskOfStage DEF RepairableStage, RouteStage
  <2> HIDE DEF q, n
  <2>5. \A s \in RepairableStage :
          repairs'[<<r, s>>] = IF r = q /\ s = o.target THEN n ELSE repairs[<<r, s>>]
    BY <1>0, <2>1, <2>3, <2>4 DEF Counts
  <2>6. CASE r # q
    BY <2>2, <2>5, <2>6 DEF RepairsOf, RepairableStage
  <2>7. CASE r = q
    <3>1. n = repairs[<<r, o.target>>] + 1
      BY <2>7 DEF n
    <3>2. \A s \in RepairableStage : repairs[<<r, s>>] \in Nat
      BY RepairsOfType DEF RouteStage
    <3>3. RepairsOf(r)' = RepairsOf(r) + 1
      BY <2>1, <2>5, <2>7, <3>1, <3>2, SMTT(30) DEF RepairsOf, RepairableStage
    <3> QED
      BY <1>2, <2>1, <2>2, <2>5, <2>7, <3>3
  <2> QED
    BY <2>6, <2>7
<1> QED
  BY <1>1, <1>2

LEMMA ApplyResultBudget ==
    ASSUME BudgetInv, ApplyResult, LoopInv', ResultStatus \subseteq ExecutedStatus
    PROVE  BudgetInv'
<1>1. PICK o \in Outcomes[StageOf(claimed)] :
        /\ Result(o)
        /\ o.status \in ExecutedStatus
        /\ status' = SettledOf(status, repairs, claimed, o)
        /\ repairs' = NoteRepair(repairs, RepairDecision(Judged(status, claimed, o), repairs, claimed, o), claimed, o)
  BY ResultApplied DEF BudgetInv
<1>2. claimed \in Task /\ status[claimed] = "in-progress" /\ status \in Statuses
  BY ResultApplied DEF BudgetInv
<1>3. attempts' = attempts
  BY DEF ApplyResult
<1> DEFINE decision == RepairDecision(Judged(status, claimed, o), repairs, claimed, o)
<1>4. Judged(status, claimed, o) \in Statuses
  BY <1>1, <1>2, JudgedType
<1>5. ASSUME NEW r \in Route
      PROVE  RouteBudget(r)'
  <2> DEFINE e == <<r, "evaluation">>
             repaired == claimed = <<r, "defect-feedback">> /\ decision = "triggered"
  <2>1. RouteBudget(r) /\ RouteInv(status, r)
    BY DEF BudgetInv, LoopInv
  <2>2. /\ RepairsOf(r)' = IF repaired THEN RepairsOf(r) + 1 ELSE RepairsOf(r)
        /\ \A s \in RepairableStage : repairs'[<<r, s>>] =< MaxAutoRepair[r]
    BY <1>1, <1>2, <1>4, <2>1, RepairIsCounted DEF RouteBudget, BudgetInv, LoopInv
  <2>3. /\ status'[e] = "in-progress" => status[e] = "in-progress" /\ claimed # e
        /\ \A u \in RouteStage : status'[<<r, u>>] \in Untaken =>
              \/ status[<<r, u>>] \in Untaken
              \/ repaired
              \/ claimed = e /\ u # "evaluation"
    BY <1>1, <1>2, <2>1, SettledUntaken
  <2> HIDE DEF decision, repaired
  <2>4. /\ RepairsOf(r) \in Nat
        /\ \A s \in RouteStage : attempts[<<r, s>>] \in Nat
        /\ "evaluation" \in RouteStage
    BY RepairsOfType DEF BudgetInv, LoopInv, RouteStage
  <2>5. attempts'[e] + Owed(e)' =< 1 + RepairsOf(r)'
    <3>1. attempts[e] + Owed(e) =< 1 + RepairsOf(r)
      BY <2>1 DEF RouteBudget
    <3>2. Owed(e)' =< Owed(e) \/ repaired
      BY <2>3, <2>4 DEF Owed
    <3>3. Owed(e) \in {0, 1} /\ Owed(e)' \in {0, 1}
      BY DEF Owed
    <3> HIDE DEF e
    <3> QED
      BY <1>3, <2>2, <2>4, <3>1, <3>2, <3>3, SMTT(30) DEF e
  <2>6. ASSUME NEW s \in RouteStage \ {"evaluation"}
        PROVE  attempts'[<<r, s>>] + Owed(<<r, s>>)' + UnderEvaluation(r)'
                    =< 1 + RepairsOf(r)' + attempts'[e]
    <3>1. attempts[<<r, s>>] + Owed(<<r, s>>) + UnderEvaluation(r) =< 1 + RepairsOf(r) + attempts[e]
      BY <2>1 DEF RouteBudget
    <3>2. /\ Owed(<<r, s>>) \in {0, 1} /\ Owed(<<r, s>>)' \in {0, 1}
          /\ UnderEvaluation(r) \in {0, 1} /\ UnderEvaluation(r)' \in {0, 1}
      BY DEF Owed, UnderEvaluation
    <3>3. UnderEvaluation(r)' =< UnderEvaluation(r)
      BY <2>3 DEF UnderEvaluation
    <3>4. \/ Owed(<<r, s>>)' =< Owed(<<r, s>>)
          \/ repaired
          \/ UnderEvaluation(r) = 1 /\ UnderEvaluation(r)' = 0
      BY <1>2, <2>3 DEF Owed, UnderEvaluation
    <3> QED
      BY <1>3, <2>2, <2>4, <3>1, <3>2, <3>3, <3>4, SMTT(30)
  <2> QED
    BY <2>2, <2>5, <2>6 DEF RouteBudget
<1> QED
  BY <1>5 DEF BudgetInv

LEMMA StepBudget ==
    ASSUME BudgetInv, [Next]_vars, ResultStatus \subseteq ExecutedStatus
    PROVE  BudgetInv'
<1>1. LoopInv'
  <2>1. ExecutedStatus \subseteq FinalStatus
    BY DEF ExecutedStatus, FinalStatus
  <2> QED
    BY <2>1, StepInv DEF BudgetInv
<1>2. CASE ClaimNextTask
  BY <1>1, <1>2, ClaimBudget
<1>3. CASE ApplyResult
  BY <1>1, <1>3, ApplyResultBudget
<1>4. CASE ResumeInProgressTask \/ Crash \/ CrashAfterPublication \/ UNCHANGED vars
  <2>1. status' = status /\ attempts' = attempts /\ repairs' = repairs
    BY <1>4 DEF ResumeInProgressTask, Crash, CrashAfterPublication, vars, file
  <2> QED
    BY <1>1, <2>1 DEF BudgetInv, RouteBudget, RepairsOf, Owed, UnderEvaluation
<1> QED
  BY <1>2, <1>3, <1>4 DEF Next

\* However often tasks fail, are repaired or are interrupted, a route is not worked on
\* beyond what its automatic repairs and evaluations pay for, and the repairs stay within
\* reviewPolicy.maxAutoRepairAttempts (auto-repair-policy-service.ts), whatever that is.
THEOREM ClaimsArePaidFor ==
    ASSUME ResultStatus \subseteq ExecutedStatus
    PROVE  Spec => []ClaimsWithinBudget
<1>1. Init => BudgetInv
  BY InitBudget
<1>2. BudgetInv /\ [Next]_vars => BudgetInv'
  BY StepBudget
<1>3. BudgetInv => ClaimsWithinBudget
  <2> SUFFICES ASSUME BudgetInv, NEW r \in Route
               PROVE  /\ \A s \in RepairableStage : repairs[<<r, s>>] =< MaxAutoRepair[r]
                      /\ attempts[<<r, "evaluation">>] =< 1 + RepairsOf(r)
                      /\ \A s \in RouteStage :
                            attempts[<<r, s>>] =< 1 + RepairsOf(r) + attempts[<<r, "evaluation">>]
    BY DEF ClaimsWithinBudget
  <2>1. RouteBudget(r)
    BY DEF BudgetInv
  <2>2. /\ RepairsOf(r) \in Nat
        /\ \A s \in RouteStage : attempts[<<r, s>>] \in Nat
        /\ "evaluation" \in RouteStage
    BY RepairsOfType DEF BudgetInv, LoopInv, RouteStage
  <2>3. UnderEvaluation(r) \in Nat /\ \A s \in RouteStage : Owed(<<r, s>>) \in Nat
    BY DEF Owed, UnderEvaluation
  <2>4. attempts[<<r, "evaluation">>] =< 1 + RepairsOf(r)
    BY <2>1, <2>2, <2>3 DEF RouteBudget
  <2>5. \A s \in RouteStage :
            attempts[<<r, s>>] =< 1 + RepairsOf(r) + attempts[<<r, "evaluation">>]
    BY <2>1, <2>2, <2>3, <2>4 DEF RouteBudget
  <2> QED
    BY <2>1, <2>4, <2>5 DEF RouteBudget
<1> QED
  BY <1>1, <1>2, <1>3, PTL DEF Spec
=============================================================================
