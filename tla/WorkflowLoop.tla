---------------------------- MODULE WorkflowLoop -----------------------------
(***************************************************************************)
(* The file-based controller loop (runtime/workflow-loop-service.ts): one  *)
(* process claims the first ready task of execution-state.json, has an     *)
(* adapter execute it, applies the result and goes round again, until      *)
(* nothing is ready or left in progress.                                   *)
(*                                                                         *)
(* The state file survives the process.  The process may die while the     *)
(* adapter runs, or after a result has been published to git but before    *)
(* the state file is written; a new loop then resumes the task that is in  *)
(* progress.  Stopping at --max-steps is the same as not claiming again.   *)
(*                                                                         *)
(* Not modelled: the --status and --stage overrides of a run, a second     *)
(* process writing the same file, the loop summary and the claim files.    *)
(***************************************************************************)
EXTENDS TaskRouting

CONSTANTS
    NoTask,
    NoRoute,
    MaxCrashes      \* bound: how often the process dies

ASSUME LoopAssumption ==
    /\ NoTask \notin Task
    /\ NoRoute \notin Route
    /\ MaxCrashes \in Nat

VARIABLES
    status,         \* execution-state.json: the status of every task
    attempts,       \* ... how often it was claimed
    repairs,        \* ... its auto-repair-attempt notes
    runStatus,      \* ... executionState.status
    currentStage,   \* ... executionState.currentStage
    summaryOf,      \* ... the route of the first implementation-summary artifact
    published,      \* git: whose change set was published for a route
    verdict,        \* history: what the last result of a route's evaluation said
    claimed,        \* the loop: the task being executed
    crashes

file == <<status, attempts, repairs, runStatus, currentStage, summaryOf>>
vars == <<file, published, verdict, claimed, crashes>>

TypeOK ==
    /\ status \in [Task -> TaskStatus]
    /\ attempts \in [Task -> Nat]
    /\ repairs \in [Task -> Nat]
    /\ runStatus \in RunStatus
    /\ currentStage \in TaskStage
    /\ summaryOf \in Route \cup {NoRoute}
    /\ published \in [Route -> Route \cup {NoRoute}]
    /\ verdict \in [Route -> {"none", "accepted", "refused", "repair"}]
    /\ claimed \in Task \cup {NoTask}
    /\ crashes \in 0..MaxCrashes

Init ==
    /\ status = InitialStatus
    /\ attempts = [t \in Task |-> 0]
    /\ repairs = [t \in Task |-> 0]
    /\ runStatus = "pending"
    /\ currentStage = "environment-preparation"
    /\ summaryOf = NoRoute
    /\ published = [r \in Route |-> NoRoute]
    /\ verdict = [r \in Route |-> "none"]
    /\ claimed = NoTask
    /\ crashes = 0

-----------------------------------------------------------------------------

With(s) == {t \in Task : status[t] = s}

\* A ready task is claimed before an interrupted one is resumed.
ClaimNextTask ==
    /\ claimed = NoTask
    /\ With("ready") # {}
    /\ LET t == FirstInGraph(With("ready"))
       IN  /\ status' = [status EXCEPT ![t] = "in-progress"]
           /\ attempts' = [attempts EXCEPT ![t] = @ + 1]
           /\ currentStage' = StageOf(t)
           /\ claimed' = t
    /\ runStatus' = "running"
    /\ UNCHANGED <<repairs, summaryOf, published, verdict, crashes>>

\* Resuming writes nothing.
ResumeInProgressTask ==
    /\ claimed = NoTask
    /\ With("ready") = {}
    /\ With("in-progress") # {}
    /\ claimed' = FirstInGraph(With("in-progress"))
    /\ UNCHANGED <<file, published, verdict, crashes>>

\* The artifacts of an implementation result hold a summary.
CarriesSummary(o, carries) ==
    /\ carries => StageOf(claimed) = "code-implementation"
    /\ StageOf(claimed) = "code-implementation" /\ o.contract = "satisfied" => carries
    /\ o.contract = "missing" => ~carries

\* The run has one list of artifacts, and a reader takes the first match.
FirstSummary(t, carries) ==
    IF summaryOf = NoRoute /\ StageOf(t) = "code-implementation" /\ carries
    THEN RouteOf(t) ELSE summaryOf

\* Publishing stages the files of the implementation summary it finds.
PublishTo(judged, t, o) ==
    IF PublishesRoute(judged, t) /\ o.publication = "published"
    THEN [published EXCEPT ![RouteOf(t)] = summaryOf]
    ELSE published

Publishable(o) == o.publication = "published" => summaryOf # NoRoute

Verdict(o) ==
    IF RerouteRequested(o) THEN "repair"
    ELSE IF ~Unmet(o) /\ o.decision = "accepted" THEN "accepted"
    ELSE "refused"

\* applyTaskResult, from the result of the adapter to the write of the file.
ApplyResult ==
    /\ claimed # NoTask
    /\ \E o \in Outcomes[StageOf(claimed)], carries \in BOOLEAN :
        /\ Publishable(o)
        /\ CarriesSummary(o, carries)
        /\ summaryOf' = FirstSummary(claimed, carries)
        /\ \E judged \in {Judged(status, claimed, o)} :
           \E decision \in {RepairDecision(judged, repairs, claimed, o)} :
           \E settled \in {Settled(judged, decision, claimed, o)} :
               /\ status' = settled
               /\ repairs' = NoteRepair(repairs, decision, claimed, o)
               /\ runStatus' = InferRunStatus(settled)
               /\ currentStage' = NextCurrentStage(settled, decision, o, currentStage)
               /\ published' = PublishTo(judged, claimed, o)
        /\ verdict' = IF StageOf(claimed) = "evaluation"
                      THEN [verdict EXCEPT ![RouteOf(claimed)] = Verdict(o)]
                      ELSE verdict
    /\ claimed' = NoTask
    /\ UNCHANGED <<attempts, crashes>>

Crash ==
    /\ claimed # NoTask
    /\ crashes < MaxCrashes
    /\ crashes' = crashes + 1
    /\ claimed' = NoTask
    /\ UNCHANGED <<file, published, verdict>>

\* The commit is made, the state file is not written.
CrashAfterPublication ==
    /\ claimed # NoTask
    /\ crashes < MaxCrashes
    /\ \E o \in Outcomes[StageOf(claimed)] :
        /\ Publishable(o)
        /\ PublishesRoute(Judged(status, claimed, o), claimed)
        /\ published' = PublishTo(Judged(status, claimed, o), claimed, o)
    /\ crashes' = crashes + 1
    /\ claimed' = NoTask
    /\ UNCHANGED <<file, verdict>>

Next ==
    \/ ClaimNextTask
    \/ ResumeInProgressTask
    \/ ApplyResult
    \/ Crash
    \/ CrashAfterPublication

Spec == Init /\ [][Next]_vars

\* The loop goes on while there is something to claim, and every adapter run
\* ends: the runner kills it at its timeout and reports a failure.
Fairness == WF_vars(ClaimNextTask \/ ResumeInProgressTask \/ ApplyResult)

FairSpec == Spec /\ Fairness

-----------------------------------------------------------------------------
(* Properties.                                                             *)

Active == {"ready", "in-progress"}

\* Whatever fails, is repaired or is rerouted, a route never has two tasks that
\* could be worked on: its stages run one at a time.
OneActiveStagePerRoute ==
    \A t, u \in RouteTask :
        RouteOf(t) = RouteOf(u) /\ status[t] \in Active /\ status[u] \in Active => t = u

\* Collaboration does not unlock until the defect path of its route is either
\* skipped or completed, on first passage and after every repair.
CollaborationAfterDefect ==
    \A r \in Route :
        status[<<r, "collaboration">>] \in Active
            => status[<<r, "defect-feedback">>] \in Passed

\* The auto-repair triggers a route has used up.
RepairsOf(r) ==
    repairs[<<r, "requirements-analysis">>] + repairs[<<r, "code-implementation">>]
        + repairs[<<r, "test-design">>] + repairs[<<r, "automated-execution">>]

\* Every claim of a task beyond its first is paid for by an automatic repair of
\* its route or by one evaluation, evaluations by automatic repairs, and those
\* stay within the review policy; a crash costs nothing.
ClaimsWithinBudget ==
    \A r \in Route :
        /\ \A s \in RepairableStage : repairs[<<r, s>>] =< MaxAutoRepair[r]
        /\ attempts[<<r, "evaluation">>] =< 1 + RepairsOf(r)
        /\ \A s \in RouteStage :
            attempts[<<r, s>>] =< 1 + RepairsOf(r) + attempts[<<r, "evaluation">>]

\* A run reports itself completed only if the last evaluation of every route
\* accepted it and its collaboration is through, whatever failed on the way.
CompletedRunIsAccepted ==
    runStatus = "completed" =>
        \A r \in Route :
            /\ verdict[r] = "accepted"
            /\ status[<<r, "evaluation">>] = "completed"
            /\ status[<<r, "collaboration">>] = "completed"

\* Work on a route starts only when the routes it depends on are accepted, and
\* they stay accepted while it is worked on.
DependenciesStayAccepted ==
    \A r \in Route, d \in Route :
        d \in RouteDeps[r] /\ attempts[<<r, "requirements-analysis">>] > 0
            => status[<<d, "evaluation">>] = "completed"

\* No step changes a route whose evaluation is completed: neither a result of
\* another route nor a late reroute reopens it.
AcceptedRouteIsFinal ==
    [][\A r \in Route :
        status[<<r, "evaluation">>] = "completed" =>
            \A s \in RouteStage : status'[<<r, s>>] = status[<<r, s>>]]_vars

Stopped == claimed = NoTask /\ \A t \in Task : status[t] \notin Active

\* Despite auto-repair and evaluator reroutes the loop comes to rest.
LoopStops == <>[]Stopped
=============================================================================
