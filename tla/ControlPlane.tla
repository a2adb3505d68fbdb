---------------------------- MODULE ControlPlane ----------------------------
(***************************************************************************)
(* The operator of a run, over the tables its workers work on              *)
(* (platform/platform-control-plane-action-service.ts and, for what a      *)
(* worker leaves for the operator to act on, the end of                    *)
(* persistPlatformWorkerResult and platform-publication-service.ts).       *)
(*                                                                         *)
(* An operator retries a task, takes a route back to a stage, cancels a    *)
(* route, or publishes one by force.  Each action is one transaction that  *)
(* checks nothing about the workers: it resets rows under them, and they   *)
(* find out when they persist.                                             *)
(*                                                                         *)
(* approve, reject and approve-publication are left out: they ask for a    *)
(* publication that is approval-required, and nothing writes one (the only *)
(* place is the publication policy with auto-commit off, where a worker    *)
(* does not call it and an operator calls it with auto-commit forced).     *)
(* Abstracted: events, who acted, timestamps; the route an action is about *)
(* is the one updated last in the code and any that qualifies here; the    *)
(* handoff on disk that a forced publication reads may be ready or not.    *)
(***************************************************************************)
EXTENDS PlatformRun

CONSTANTS
    MaxActions,     \* bound: the actions of the operator
    RerouteStage    \* bound: the stages the operator may reroute to

ASSUME OperatorAssumption == MaxActions \in Nat /\ RerouteStage \subseteq RepairableStage

VARIABLES
    asked,      \* tasks.requested_repair_target_stage of the routes' evaluations
    records,    \* table publications: by route, those open for the operator
    carried,    \* the evaluation and the publication a worker has to persist
    acted       \* the actions of the operator so far

operatorVars == <<asked, records, carried, acted>>
allVars == <<vars, operatorVars>>

Nothing == [target |-> NoStage, record |-> "none"]

OperatorInit ==
    /\ asked = [r \in Route |-> NoStage]
    /\ records = [r \in Route |-> [blocked |-> 0, published |-> 0]]
    /\ carried = [w \in Worker |-> Nothing]
    /\ acted = 0

-----------------------------------------------------------------------------
(* The workers, and what they leave behind.                                *)

\* The receipt of a stopped worker has no artifacts; a worker at rest has no file.
Carrying(v) ==
    CASE worker'[v].phase \in {"executing", "executed"} -> carried[v]
      [] worker'[v].phase \in {"caught", "stopped"}     -> [carried[v] EXCEPT !.target = NoStage]
      [] OTHER                                          -> Nothing

\* The steps of PlatformRun that deliver nothing.
PlatformStep ==
    /\ \/ \E w \in Worker : LeaseNextTask(w) \/ RunLeasedTask(w) \/ StopDraining(w)
       \/ \E w \in Worker : PlainStep(w) \/ WorkerTrouble(w) \/ Heartbeat(w)
       \/ \E t \in Task : LeaseLapses(t)
       \/ SweepLeases
       \/ ExpireCommand
       \/ PauseOrResume
    /\ carried' = [v \in Worker |-> Carrying(v)]
    /\ UNCHANGED <<asked, records, acted>>

\* A new snapshot replaces whatever publication the file held.
Materialize(w) ==
    /\ MaterializeClaim(w)
    /\ carried' = [v \in Worker |->
                    IF v = w \/ SharesFile(v, w) THEN [carried[v] EXCEPT !.record = "none"]
                    ELSE carried[v]]
    /\ UNCHANGED <<asked, records, acted>>

\* Mutant of TargetsNamed: the stage a summary names counts whatever its decision.
TargetsNamedAnyhow(t, o) ==
    IF StageOf(t) = "evaluation" THEN RepairTarget \cup {NoStage} ELSE {NoStage}

\* An evaluation that asks for repair names the stage, or only describes it.
TargetsNamed(t, o) ==
    IF StageOf(t) = "evaluation" /\ RerouteRequested(o) THEN {o.target, NoStage} ELSE {NoStage}

RecordOf(st, t, o) ==
    IF PublishesRoute(Gated(st, t, o), t) /\ o.publication # "not-applicable"
    THEN o.publication ELSE "none"

\* The target is in the worker's receipt, the publication in the file it writes.
Deliver(w) ==
    \E o \in Outcomes[StageOf(TaskOf(w))] :
    \E target \in TargetsNamed(TaskOf(w), o), record \in {RecordOf(StateRead(w).st, TaskOf(w), o)} :
        /\ ExecuteWith(w, o)
        /\ carried' = [v \in Worker |->
                        IF v = w THEN [target |-> target, record |-> record]
                        ELSE IF SharesFile(v, w) THEN [carried[v] EXCEPT !.record = record]
                        ELSE carried[v]]
        /\ UNCHANGED <<asked, records, acted>>

\* A route writes its record to one path: only the first is a new artifact.
Recorded(rec, record) ==
    IF rec.blocked + rec.published > 0 \/ record = "none" THEN rec
    ELSE [rec EXCEPT ![record] = 1]

\* The columns of an evaluation are overwritten by every result of it.
Persist(w) ==
    LET t == TaskOf(w)
    IN  /\ PersistResult(w)
        /\ IF StageOf(t) = "evaluation"
           THEN /\ asked' = [asked EXCEPT ![RouteOf(t)] = carried[w].target]
                /\ records' = [records EXCEPT ![RouteOf(t)] = Recorded(@, carried[w].record)]
           ELSE UNCHANGED <<asked, records>>
        /\ carried' = [carried EXCEPT ![w] = Nothing]
        /\ UNCHANGED acted

-----------------------------------------------------------------------------
(* The operator.                                                           *)

\* The progress the control plane infers: a second reading of the tasks, in which
\* a failed evaluation is resolved too, and leased and cancelled rows are known.
ResolvedRow(rows, t) ==
    /\ rows[t].status \in {"blocked", "failed", "cancelled"}
    /\ StageOf(t) \notin {"environment-preparation", "collaboration"}
    /\ rows[Sibling(t, "collaboration")].status \in Passed

InferRunProgress(rows) ==
    LET active == {rows[t].status : t \in {u \in Task : /\ rows[u].status \notin Passed
                                                        /\ ~ResolvedRow(rows, u)}}
    IN  IF active = {}                                     THEN "completed"
        ELSE IF active \cap OpenStatus # {}                THEN "running"
        ELSE IF "failed" \in active                        THEN "failed"
        ELSE IF active \cap {"blocked", "cancelled"} # {}  THEN "blocked"
        ELSE IF active = {"pending"}                       THEN "pending"
        ELSE "running"

Act == acted < MaxActions /\ acted' = acted + 1

RunIsOpen == runStatus \notin {"completed", "failed"}

\* The rows an action leaves, with the progress inferred from them.
WriteRows(rows) ==
    /\ row' = rows
    /\ runStatus' = InferRunProgress(rows)
    /\ UNCHANGED <<ledger, repairs, worker, carried>>

\* Mutant of Retriable: what was cancelled stays cancelled.
RetriableUnlessCancelled == {"failed", "blocked"}

Retriable == {"failed", "blocked", "cancelled"}

RetriedRow(r) == [Released(r) EXCEPT !.status = "ready", !.retry = @ + 1]

MayRetry(t) == row[t].status \in Retriable

RetryTask(t) ==
    /\ Act
    /\ MayRetry(t)
    /\ WriteRows([row EXCEPT ![t] = RetriedRow(@)])
    /\ asked' = IF StageOf(t) = "evaluation"
                THEN [asked EXCEPT ![RouteOf(t)] = NoStage] ELSE asked
    /\ UNCHANGED <<records, paused>>

\* The route an evaluation has asked to repair.
Rerouted(r) == asked[r] # NoStage

\* The rows of route r when it is taken back to stage s.
Rearmed(r, s) ==
    LET target == <<r, s>>
    IN  [t \in Task |->
            IF t = target THEN [Released(row[t]) EXCEPT !.status = "ready"]
            ELSE IF LaterOnRoute(t, target, s)
                 THEN [Released(row[t]) EXCEPT !.status = "pending"]
                 ELSE row[t]]

MayRearm(r) == RunIsOpen /\ Rerouted(r)

RearmFrom(r, s) ==
    /\ Act
    /\ MayRearm(r)
    /\ WriteRows(Rearmed(r, s))
    /\ asked' = [asked EXCEPT ![r] = NoStage]
    /\ paused' = FALSE
    /\ UNCHANGED records

ResumeFromTargetStage(r) == Rerouted(r) /\ RearmFrom(r, asked[r])

RerouteToStage(r) == \E s \in RerouteStage : RearmFrom(r, s)

\* Mutant of OpenOnRoute: what a worker holds is left to it.
UnheldOnRoute(r) ==
    {t \in RouteTask : RouteOf(t) = r /\ row[t].status \notin Passed \cup {"cancelled"} \cup Held}

OpenOnRoute(r) ==
    {t \in RouteTask : RouteOf(t) = r /\ row[t].status \notin Passed \cup {"cancelled"}}

MayCancel(r) == RunIsOpen /\ Rerouted(r) /\ OpenOnRoute(r) # {}

CancelRoute(r) ==
    /\ Act
    /\ MayCancel(r)
    /\ WriteRows([t \in Task |->
                    IF t \in OpenOnRoute(r) THEN [Released(row[t]) EXCEPT !.status = "cancelled"]
                    ELSE row[t]])
    /\ asked' = IF <<r, "evaluation">> \in OpenOnRoute(r)
                THEN [asked EXCEPT ![r] = NoStage] ELSE asked
    /\ paused' = FALSE
    /\ UNCHANGED records

Publishable(r) ==
    /\ RunIsOpen
    /\ records[r].blocked > 0
    /\ row[<<r, "collaboration">>].status \in {"blocked", "completed"}

\* The commit is made: the record acted on is superseded, the handover completed.
ForcePublish(r) ==
    /\ Act
    /\ Publishable(r)
    /\ WriteRows([row EXCEPT ![<<r, "collaboration">>] =
                    [Released(@) EXCEPT !.status = "completed"]])
    /\ records' = [records EXCEPT ![r] = [blocked |-> @.blocked - 1, published |-> @.published + 1]]
    /\ UNCHANGED <<asked, paused>>

\* The commit fails: one more blocked record.
ForcePublishFails(r) ==
    /\ Act
    /\ Publishable(r)
    /\ records' = [records EXCEPT ![r].blocked = @ + 1]
    /\ UNCHANGED <<vars, asked, carried>>

OperatorStep ==
    \/ \E t \in Task : RetryTask(t)
    \/ \E r \in Route : ResumeFromTargetStage(r)
    \/ \E r \in Route : RerouteToStage(r)
    \/ \E r \in Route : CancelRoute(r)
    \/ \E r \in Route : ForcePublish(r)
    \/ \E r \in Route : ForcePublishFails(r)

ControlPlaneNext ==
    \/ PlatformStep
    \/ \E w \in Worker : Materialize(w)
    \/ \E w \in Worker : Deliver(w)
    \/ \E w \in Worker : Persist(w)
    \/ OperatorStep

ControlPlaneSpec == Init /\ OperatorInit /\ [][ControlPlaneNext]_allVars

-----------------------------------------------------------------------------
(* Properties.                                                             *)

\* A repair an evaluation asked for does not outlive it: once a route is accepted,
\* by whatever way through retries and repairs, the operator's reroute and cancel
\* actions find no target to take it back to.
AcceptedRouteHasNoTarget ==
    \A r \in Route : row[<<r, "evaluation">>].status = "completed" => ~Rerouted(r)

\* A result computed before a route was cancelled does not bring its tasks back. Only
\* the operator does, or a result computed on the cancelled rows (a snapshot shows them
\* blocked) after he retried one.
CancelIsNotUndone ==
    [][\A t \in Task :
        row[t].status = "cancelled" /\ row'[t].status # "cancelled" =>
            \/ acted' # acted
            \/ \E w \in Worker :
                /\ worker[w].phase \in {"executed", "stopped"}
                /\ worker'[w].phase \in {"idle", "draining"}
                /\ worker[w].base.st[t] = "blocked"]_allVars
=============================================================================
