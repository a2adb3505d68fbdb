----------------------------- MODULE PlatformRun -----------------------------
(***************************************************************************)
(* A run kept in PostgreSQL and executed by several workers                *)
(* (platform/platform-scheduler-service.ts, platform-worker-service.ts,    *)
(* platform-auto-runner-service.ts, platform-auto-repair-service.ts and    *)
(* cli/run-platform-worker-task-command.ts).                               *)
(*                                                                         *)
(* A worker leases a ready task, starts it, materializes a snapshot of the *)
(* run into an execution-state file, executes the task on that snapshot    *)
(* and persists what changed.  The auto-runner is a worker that drains a   *)
(* run and also sweeps expired leases; the other workers are one-shot      *)
(* commands that heartbeat.  A worker stands for all the processes that    *)
(* come one after the other in its place.  They go by a worker id: the     *)
(* auto-runner makes up its own, a command is given one by its caller, and *)
(* several commands may be given the same (docs/usage-guide.md:224-285).   *)
(* The tables know workers by their ids only.                              *)
(*                                                                         *)
(* One database transaction is one action.  Time is the fact that a lease  *)
(* lapses; a renewal keeps it from lapsing.                                *)
(* Abstracted: events, artifacts, evaluation columns, publications, the    *)
(* run's current stage, timestamps (a task changed iff its status did).    *)
(* Reading the materialized file is one step with writing it.              *)
(***************************************************************************)
EXTENDS TaskRouting, Sequences

CONSTANTS
    Worker,
    AutoRunner,     \* the workers that are the auto-runner of some process
    WorkerId,
    IdOf,           \* the worker id each worker goes by
    NoWorker,
    OwnBase,        \* the commands given an --output-base of their own
    MaxRetries,     \* tasks.max_retries
    Rerun,          \* bound: the commands run for a task leased under their id already
    Pausing,        \* bound: whether an operator pauses the run
    Troubled        \* bound: the tasks whose worker may crash, throw or be late

ASSUME PlatformAssumption ==
    /\ AutoRunner \subseteq Worker
    /\ OwnBase \subseteq Worker \ AutoRunner
    /\ IdOf \in [Worker -> WorkerId]
    /\ NoWorker \notin WorkerId
    /\ \A w \in AutoRunner : \A v \in Worker : IdOf[v] = IdOf[w] => v = w
    /\ Rerun \subseteq Worker \ AutoRunner
    /\ MaxRetries \in [Task -> Nat]
    /\ Pausing \in BOOLEAN
    /\ Troubled \subseteq Task

VARIABLES
    row,            \* table tasks
    ledger,         \* table task_attempts: the statuses of a task's attempts
    repairs,        \* table repair_attempts
    runStatus,      \* runs.status
    paused,         \* runs.metadata.controlPlane.paused
    worker          \* the worker processes and their execution-state files

tables == <<row, ledger, repairs, runStatus>>
vars == <<tables, paused, worker>>

Held == {"leased", "in-progress"}

RowStatus == TaskStatus \cup {"leased", "cancelled"}

\* lease is the number of the attempt current_lease_id points to, 0 for NULL.
Row == [status : RowStatus, attempts : Nat, retry : Nat,
        lease : Nat, owner : WorkerId \cup {NoWorker}, live : BOOLEAN]

AttemptStatus == RowStatus \cup {"expired"}

RepairAttempt == [task : Task, number : Nat \ {0},
                  status : {"requested", "blocked", "succeeded", "failed"}]

\* The statuses, attempts and repair notes of an execution state, and the target
\* of the repair it escalated.
File == [st : [Task -> TaskStatus], att : [Task -> Nat], rep : [Task -> Nat],
         esc : RepairableStage \cup {NoStage}]

Phase == {"idle", "draining", "leased", "started", "executing", "executed",
          "caught", "stopped"}

\* given is the attempt a worker set out on, base the snapshot it materialized, file
\* what its execution-state file holds now.
WorkerState == [phase : Phase, task : Task, given : Nat, base : File, file : File,
                receipt : TaskStatus]

TypeOK ==
    /\ row \in [Task -> Row]
    /\ ledger \in [Task -> Seq(AttemptStatus)]
    /\ repairs \subseteq RepairAttempt
    /\ runStatus \in RunStatus
    /\ paused \in BOOLEAN
    /\ worker \in [Worker -> WorkerState]

NoFile == [st |-> InitialStatus, att |-> [t \in Task |-> 0],
           rep |-> [t \in Task |-> 0], esc |-> NoStage]

Resting(phase) == [phase |-> phase, task |-> EnvTask, given |-> 0, base |-> NoFile,
                   file |-> NoFile, receipt |-> "pending"]

Init ==
    /\ row = [t \in Task |-> [status |-> InitialStatus[t], attempts |-> 0, retry |-> 0,
                              lease |-> 0, owner |-> NoWorker, live |-> FALSE]]
    /\ ledger = [t \in Task |-> <<>>]
    /\ repairs = {}
    /\ runStatus = "pending"
    /\ paused = FALSE
    /\ worker = [w \in Worker |-> Resting("idle")]

-----------------------------------------------------------------------------
(* Leasing.                                                                *)

Working(w) == worker[w].phase \notin {"idle", "draining"}

TaskOf(w) == worker[w].task

\* Mutant of Holds: the worker's id is not compared.
HoldsForAnyone(w) == row[TaskOf(w)].status \in Held /\ row[TaskOf(w)].live

\* What start, heartbeat, materialization and persist ask of the row: the worker's
\* id is on it, whichever attempt and process the id was put there for.
Holds(w) ==
    LET r == row[TaskOf(w)]
    IN  r.status \in Held /\ r.owner = IdOf[w] /\ r.live

Leave(w, phase) == worker' = [worker EXCEPT ![w] = Resting(phase)]

\* The auto-runner goes on draining the run, a command ends.
Finish(w) == Leave(w, IF w \in AutoRunner THEN "draining" ELSE "idle")

Ready == {t \in Task : row[t].status = "ready"}

\* Environment preparation first, then by number of dependencies; ties are free.
Precedes(t, u) ==
    \/ t = EnvTask /\ u # EnvTask
    \/ u # EnvTask /\ Cardinality(DependsOn[t]) < Cardinality(DependsOn[u])

NextToLease == {t \in Ready : \A u \in Ready : ~Precedes(u, t)}

\* task_attempts has one row per task and attempt number.
AttemptIsFree(t) == row[t].attempts + 1 > Len(ledger[t])

Polling(w) ==
    \/ worker[w].phase = "draining"
    \/ worker[w].phase = "idle" /\ (w \in AutoRunner => runStatus \in {"pending", "running"})

\* A row held under the id of w and attempt n, and a row nobody holds.
Leased(r, n, w) ==
    [r EXCEPT !.status = "leased", !.attempts = r.attempts + 1,
              !.lease = n, !.owner = IdOf[w], !.live = TRUE]

Released(r) == [r EXCEPT !.lease = 0, !.owner = NoWorker, !.live = FALSE]

LeaseNextTask(w) ==
    /\ Polling(w)
    /\ ~paused
    /\ \E t \in NextToLease :
        /\ AttemptIsFree(t)
        /\ row' = [row EXCEPT ![t] = Leased(row[t], Len(ledger[t]) + 1, w)]
        /\ ledger' = [ledger EXCEPT ![t] = Append(@, "leased")]
        /\ worker' = [worker EXCEPT ![w] =
                        [Resting("leased") EXCEPT !.task = t, !.given = Len(ledger[t]) + 1]]
    /\ runStatus' = "running"
    /\ UNCHANGED <<repairs, paused>>

\* A command is told its task and its id.  Nothing tells it whether the process the task
\* was leased for has stopped, nor which attempt that was.
RunLeasedTask(w) ==
    /\ w \in Rerun
    /\ worker[w].phase = "idle"
    /\ \E t \in Task :
        /\ row[t].status \in Held
        /\ row[t].owner = IdOf[w]
        /\ worker' = [worker EXCEPT ![w] =
                        [Resting("leased") EXCEPT !.task = t, !.given = row[t].lease]]
    /\ UNCHANGED <<tables, paused>>

\* Nothing to lease, or the insert of the attempt fails and rolls back.
StopDraining(w) ==
    /\ worker[w].phase = "draining"
    /\ paused \/ NextToLease = {} \/ \E t \in NextToLease : ~AttemptIsFree(t)
    /\ Leave(w, "idle")
    /\ UNCHANGED <<tables, paused>>

StartTask(w) ==
    /\ worker[w].phase = "leased"
    /\ Holds(w)
    /\ row[TaskOf(w)].status = "leased"
    /\ row' = [row EXCEPT ![TaskOf(w)].status = "in-progress"]
    /\ ledger' = [ledger EXCEPT ![TaskOf(w)][row[TaskOf(w)].lease] = "in-progress"]
    /\ worker' = [worker EXCEPT ![w].phase = "started"]
    /\ runStatus' = "running"
    /\ UNCHANGED <<repairs, paused>>

\* The auto-runner leaves the task alone; a command goes on, and stops only if the row
\* does not have its id when it materializes its claim.
StartRejected(w) ==
    /\ worker[w].phase = "leased"
    /\ ~(Holds(w) /\ row[TaskOf(w)].status = "leased")
    /\ IF w \in AutoRunner
       THEN Finish(w)
       ELSE worker' = [worker EXCEPT ![w].phase = "started"]
    /\ UNCHANGED <<tables, paused>>

\* A platform status as an execution state knows it.
SeenAs(s) == IF s = "leased" THEN "in-progress" ELSE IF s = "cancelled" THEN "blocked" ELSE s

\* What a run looks like to a worker; notes are not carried over.
Snapshot ==
    [st  |-> [t \in Task |-> SeenAs(row[t].status)],
     att |-> [t \in Task |-> row[t].attempts],
     rep |-> [t \in Task |-> 0],
     esc |-> NoStage]

\* Without an output base of its own a worker writes to the directory of the task,
\* which every other such worker at work on the task shares.
SharesFile(v, w) ==
    Working(v) /\ TaskOf(v) = TaskOf(w) /\ v \notin OwnBase /\ w \notin OwnBase

WriteFile(w, f, state) ==
    worker' = [v \in Worker |->
                IF v = w THEN [state EXCEPT !.file = f]
                ELSE IF SharesFile(v, w) THEN [worker[v] EXCEPT !.file = f]
                ELSE worker[v]]

MaterializeClaim(w) ==
    /\ worker[w].phase = "started"
    /\ Holds(w)
    /\ \E snapshot \in {Snapshot} :
        WriteFile(w, snapshot, [worker[w] EXCEPT !.phase = "executing", !.base = snapshot])
    /\ UNCHANGED <<tables, paused>>

MaterializeFails(w) ==
    /\ worker[w].phase = "started"
    /\ ~Holds(w)
    /\ Finish(w)
    /\ UNCHANGED <<tables, paused>>

-----------------------------------------------------------------------------
(* Executing: a result is applied to an execution state and the file of    *)
(* the task is overwritten with what comes of it.                          *)

ApplyTo(f, w, o, phase) ==
    \E judged \in {Judged(f.st, TaskOf(w), o)} :
    \E decision \in {RepairDecision(judged, f.rep, TaskOf(w), o)} :
    \E settled \in {Settled(judged, decision, TaskOf(w), o)} :
        WriteFile(w,
            [st  |-> settled,
             att |-> f.att,
             rep |-> NoteRepair(f.rep, decision, TaskOf(w), o),
             esc |-> IF decision = "escalated" THEN o.target ELSE f.esc],
            [worker[w] EXCEPT !.phase = phase, !.receipt = settled[TaskOf(w)]])

\* A deterministic task reads the file again after it has run, an adapter run
\* works on the state it read before.
Deterministic == {"environment-preparation", "automated-execution"}

StateRead(w) ==
    IF StageOf(TaskOf(w)) \in Deterministic THEN worker[w].file ELSE worker[w].base

ExecuteWith(w, o) ==
    /\ worker[w].phase = "executing"
    /\ \E f \in {StateRead(w)} : ApplyTo(f, w, o, "executed")
    /\ UNCHANGED <<tables, paused>>

Execute(w) == \E o \in Outcomes[StageOf(TaskOf(w))] : ExecuteWith(w, o)

\* The result written in place of the one a stopped worker did not get.
StoppedOutcome(recoverable) ==
    [status |-> "blocked", contract |-> "missing", recoverable |-> recoverable,
     handoff |-> "ready", decision |-> "accepted", target |-> NoStage,
     publication |-> "not-applicable"]

\* Only the auto-runner catches the error and reports it.
ExecutionThrows(w) ==
    /\ worker[w].phase = "executing"
    /\ TaskOf(w) \in Troubled
    /\ IF w \in AutoRunner
       THEN worker' = [worker EXCEPT ![w].phase = "caught"]
       ELSE Finish(w)
    /\ UNCHANGED <<tables, paused>>

WriteStopped(w) ==
    /\ worker[w].phase = "caught"
    /\ ApplyTo(worker[w].file, w, StoppedOutcome(FALSE), "stopped")
    /\ UNCHANGED <<tables, paused>>

\* A renewal writes the status of the row to the attempt of the row.
Heartbeat(w) ==
    /\ w \notin AutoRunner
    /\ worker[w].phase = "executing"
    /\ Holds(w)
    /\ LET r == row[TaskOf(w)]
       IN  ledger' = [ledger EXCEPT ![TaskOf(w)][r.lease] = r.status]
    /\ UNCHANGED <<row, repairs, runStatus, paused, worker>>

\* A rejected heartbeat aborts the adapter of a command, and its result is lost.
HeartbeatRejected(w) ==
    /\ w \notin AutoRunner
    /\ worker[w].phase = "executing"
    /\ ~Holds(w)
    /\ Finish(w)
    /\ UNCHANGED <<tables, paused>>

\* Heartbeats that cannot be sent abort it too, but leave a blocked receipt.
HeartbeatErrors(w) ==
    /\ w \notin AutoRunner
    /\ worker[w].phase = "executing"
    /\ TaskOf(w) \in Troubled
    /\ ApplyTo(worker[w].file, w, StoppedOutcome(TRUE), "stopped")
    /\ UNCHANGED <<tables, paused>>

-----------------------------------------------------------------------------
(* Persisting.                                                             *)

\* The rows reconcilePlatformAutoRepair inserts into repair_attempts.
RepairInserts(t, next) ==
    {[task |-> u, number |-> next.rep[u], status |-> "requested"] :
        u \in {v \in Task : next.rep[v] > 0}}
    \cup {[task |-> u, number |-> next.rep[u] + 1, status |-> "blocked"] :
        u \in {v \in Task : next.esc # NoStage /\ v = Sibling(t, next.esc)}}

\* repair_attempts has one row per source task and attempt number.
RepairIsTaken(inserts) ==
    \E a \in inserts, b \in repairs : a.task = b.task /\ a.number = b.number

\* A task that carries the note of a repair and is through settles that repair.
SettleRepair(attempts, t, next) ==
    {IF a.task = t /\ a.status = "requested" /\ next.rep[t] = a.number
     THEN CASE next.st[t] = "completed" -> [a EXCEPT !.status = "succeeded"]
            [] next.st[t] = "blocked"   -> [a EXCEPT !.status = "blocked"]
            [] next.st[t] = "failed"    -> [a EXCEPT !.status = "failed"]
            [] OTHER                    -> a
     ELSE a : a \in attempts}

Persistable(w) == Holds(w) /\ ~RepairIsTaken(RepairInserts(TaskOf(w), worker[w].file))

Terminal == {"completed", "failed", "blocked", "skipped"}

Overwritten(u, next) ==
    [row[u] EXCEPT !.status = next.st[u], !.attempts = next.att[u]]

\* Mutant of PersistRow: every row is overwritten, changed or not.
PersistWholeState(w, next, u) ==
    IF u = TaskOf(w) /\ next.st[u] \in Terminal THEN Released(Overwritten(u, next))
    ELSE Overwritten(u, next)

\* Rows whose status differs between the snapshot and the file are overwritten,
\* whatever became of them since; the worker's own row is released at the end.
PersistRow(w, next, u) ==
    IF next.st[u] = worker[w].base.st[u] THEN row[u]
    ELSE IF u = TaskOf(w) /\ next.st[u] \in Terminal
         THEN Released(Overwritten(u, next))
         ELSE Overwritten(u, next)

PersistResult(w) ==
    /\ worker[w].phase \in {"executed", "stopped"}
    /\ Persistable(w)
    /\ LET t == TaskOf(w)
           next == worker[w].file
       IN  /\ row' = [u \in Task |-> PersistRow(w, next, u)]
           /\ ledger' = [ledger EXCEPT ![t][row[t].lease] = worker[w].receipt]
           /\ repairs' = SettleRepair(repairs \cup RepairInserts(t, next), t, next)
           /\ runStatus' = InferRunStatus(next.st)
    /\ Finish(w)
    /\ UNCHANGED paused

\* The transaction rolls back; the auto-runner then tries to report the error.
PersistFails(w) ==
    /\ worker[w].phase \in {"executed", "stopped"}
    /\ ~Persistable(w)
    /\ IF w \in AutoRunner /\ worker[w].phase = "executed"
       THEN worker' = [worker EXCEPT ![w].phase = "caught"]
       ELSE Finish(w)
    /\ UNCHANGED <<tables, paused>>

-----------------------------------------------------------------------------
(* Failures, expiry and pausing.                                           *)

Crash(w) ==
    /\ Working(w)
    /\ TaskOf(w) \in Troubled
    /\ Leave(w, "idle")
    /\ UNCHANGED <<tables, paused>>

\* No process is left that would finish the task or renew its lease.
Abandoned(t) ==
    \A w \in Worker : ~(Working(w) /\ TaskOf(w) = t /\ IdOf[w] = row[t].owner)

\* The time to live of a lease passes.
LeaseLapses(t) ==
    /\ row[t].status \in Held
    /\ row[t].live
    /\ t \in Troubled \/ Abandoned(t)
    /\ row' = [row EXCEPT ![t].live = FALSE]
    /\ UNCHANGED <<ledger, repairs, runStatus, paused, worker>>

\* Mutant of Lapsed: leases of tasks never started are not swept.
LapsedInProgress ==
    {t \in Task : row[t].status = "in-progress" /\ row[t].lease # 0 /\ ~row[t].live}

Lapsed == {t \in Task : row[t].status \in Held /\ row[t].lease # 0 /\ ~row[t].live}

CanRetry(t) == row[t].retry + 1 =< MaxRetries[t]

\* Mutant of ExpireRow: the task takes the status of its attempt.
ExpireRowToo(t) ==
    [Released(row[t]) EXCEPT !.status = IF CanRetry(t) THEN "ready" ELSE "expired",
                             !.retry = @ + 1]

ExpireRow(t) ==
    [Released(row[t]) EXCEPT !.status = IF CanRetry(t) THEN "ready" ELSE "blocked",
                             !.retry = row[t].retry + 1]

\* Mutant of ExpireAttempt: only the attempts of a task given up are closed.
ExpireLastAttempt(t) ==
    IF CanRetry(t) THEN ledger[t] ELSE [ledger[t] EXCEPT ![row[t].lease] = "expired"]

ExpireAttempt(t) == [ledger[t] EXCEPT ![row[t].lease] = "expired"]

ExpireLeases ==
    /\ Lapsed # {}
    /\ row' = [t \in Task |-> IF t \in Lapsed THEN ExpireRow(t) ELSE row[t]]
    /\ ledger' = [t \in Task |-> IF t \in Lapsed THEN ExpireAttempt(t) ELSE ledger[t]]
    /\ runStatus' = IF \E t \in Lapsed : ~CanRetry(t) THEN "blocked" ELSE runStatus
    /\ UNCHANGED <<repairs, paused, worker>>

\* The sweep of the auto-runner looks at running runs only.
SweepLeases == AutoRunner # {} /\ runStatus = "running" /\ ExpireLeases

\* The expire-leases command looks at the run it is given.
ExpireCommand == ExpireLeases

PauseOrResume ==
    /\ Pausing
    /\ runStatus \notin {"completed", "failed"}
    /\ paused' = ~paused
    /\ UNCHANGED <<tables, worker>>

\* The steps that neither read nor deliver a file.
PlainStep(w) ==
    \/ StartTask(w)
    \/ StartRejected(w)
    \/ MaterializeFails(w)
    \/ WriteStopped(w)
    \/ PersistFails(w)

WorkerStep(w) ==
    \/ PlainStep(w)
    \/ MaterializeClaim(w)
    \/ Execute(w)
    \/ PersistResult(w)

WorkerTrouble(w) ==
    \/ ExecutionThrows(w)
    \/ HeartbeatRejected(w)
    \/ HeartbeatErrors(w)
    \/ Crash(w)

Next ==
    \/ \E w \in Worker : LeaseNextTask(w)
    \/ \E w \in Worker : RunLeasedTask(w)
    \/ \E w \in Worker : StopDraining(w)
    \/ \E w \in Worker : WorkerStep(w)
    \/ \E w \in Worker : WorkerTrouble(w)
    \/ \E w \in Worker : Heartbeat(w)
    \/ \E t \in Task : LeaseLapses(t)
    \/ SweepLeases
    \/ ExpireCommand
    \/ PauseOrResume

Spec == Init /\ [][Next]_vars

\* A live worker goes on, adapters end, the clock runs, the auto-runner polls.
Fairness ==
    /\ \A w \in Worker : WF_vars(WorkerStep(w))
    /\ \A w \in AutoRunner : WF_vars(LeaseNextTask(w)) /\ WF_vars(StopDraining(w))
    /\ WF_vars(\E t \in Task : Abandoned(t) /\ LeaseLapses(t))
    /\ WF_vars(SweepLeases)

FairSpec == Spec /\ Fairness

-----------------------------------------------------------------------------
(* The lease service this implements.                                      *)

AttemptAs(s) == IF s \in Held THEN "open" ELSE IF s = "expired" THEN s ELSE "reported"

AttemptLog(t) == [n \in DOMAIN ledger[t] |-> AttemptAs(ledger[t][n])]

Holder(t) == IF row[t].lease = 0 THEN NoWorker ELSE <<row[t].owner, row[t].lease>>

Given(w) == IF Working(w) THEN <<TaskOf(w), worker[w].given>> ELSE NoWorker

Leases ==
    INSTANCE TaskLease WITH
        Id <- WorkerId,
        Free <- NoWorker,
        log <- [t \in Task |-> AttemptLog(t)],
        current <- [t \in Task |-> Holder(t)],
        believes <- [w \in Worker |-> Given(w)]

-----------------------------------------------------------------------------
(* Properties.                                                             *)

\* Rows, ledger, snapshots and late workers implement TaskLease: every lease is a new
\* attempt, only a worker that goes by the id of the current lease writes to an attempt,
\* to that of the lease, and an attempt that expired stays expired (the checks of start,
\* heartbeat, persist and expiry in the scheduler and the worker, taken together).
LeasesAreFenced == Leases!LeaseSpec

\* Row and ledger agree: a task is held exactly under the last attempt on its ledger,
\* open in the same status, no earlier attempt is open, and every attempt the row counts
\* is there: no snapshot sets the counter back, where the next lease would collide.
\* (Lease, start, expiry and persist write the two tables one after the other.)
RowMatchesLedger ==
    \A t \in Task :
        /\ row[t].attempts = Len(ledger[t])
        /\ row[t].status \in Held =>
            /\ row[t].owner # NoWorker
            /\ row[t].lease = Len(ledger[t])
            /\ row[t].lease > 0 /\ ledger[t][row[t].lease] = row[t].status
        /\ \A n \in DOMAIN ledger[t] :
            ledger[t][n] \in Held => row[t].status \in Held /\ n = row[t].lease

\* Every expired attempt was paid for from the retry budget, and once: neither a late
\* result nor another worker's snapshot sets a retry back or reopens an expired attempt.
RetriesAreExpiries ==
    \A t \in Task :
        row[t].retry = Cardinality({n \in DOMAIN ledger[t] : ledger[t][n] = "expired"})

\* However leases lapse and results arrive late, one stage of a route at a time is
\* ready, leased or in progress.
OneOpenStagePerRoute ==
    \A t, u \in RouteTask :
        /\ RouteOf(t) = RouteOf(u)
        /\ row[t].status \in Held \cup {"ready"}
        /\ row[u].status \in Held \cup {"ready"}
        => t = u

\* A run that is closed has no work left that a worker could lease or holds.
ClosedRunIsQuiet ==
    runStatus \in {"completed", "failed"} =>
        \A t \in Task : row[t].status \notin Held \cup {"ready"}

\* No other worker goes by the id of w.
IdIsOwn(w) == \A v \in Worker : IdOf[v] = IdOf[w] => v = w

\* An attempt is closed with a result of its task, by the worker that set out on that very
\* attempt or by one that shares its id with another: a late worker never closes the
\* attempt of the one that took over, unless both go by one id, as rows are checked for
\* the id and not for the attempt (platform-worker-service.ts:251).
ResultsCloseOwnAttempt ==
    [][\A t \in Task : \A n \in DOMAIN ledger[t] :
        ledger'[t][n] # ledger[t][n] /\ ledger'[t][n] \in TaskStatus \ {"in-progress"} =>
            \E w \in Worker :
                /\ worker[w].phase \in {"executed", "stopped"}
                /\ TaskOf(w) = t
                /\ IdOf[w] = row[t].owner
                /\ IdIsOwn(w) => worker[w].given = n]_vars

\* A task whose worker crashed, threw or is late is in the end given a result, requeued or
\* given up, as long as its run goes on.  Less than docs/ops-startup-guide.md:221 promises,
\* "a crashed adapter process can never permanently block a run": the sweep looks at
\* running runs only (platform-auto-runner-service.ts:349), so that a task can stay
\* held for ever in a run that another task's worker has closed or blocked meanwhile.
HeldTaskIsReleased ==
    \A t \in Troubled :
        row[t].status \in Held ~> row[t].status \notin Held \/ runStatus # "running"

\* docs/ops-startup-guide.md:226 - persisting a result promotes the tasks downstream:
\* while no worker is at work, no task waits on dependencies that are all through.
PromotionIsNotLost ==
    (\A w \in Worker : ~Working(w)) =>
        \A t \in Task : row[t].status = "pending" =>
            \E d \in DependsOn[t] : row[d].status \notin Passed
=============================================================================
