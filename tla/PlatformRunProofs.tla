-------------------------- MODULE PlatformRunProofs --------------------------
(***************************************************************************)
(* Theorems about a run on the platform, for every task graph, every       *)
(* policy, every number of workers, whatever lapses, crashes or is late;   *)
(* and about the same run under an operator, whatever he does.             *)
(***************************************************************************)
EXTENDS OperatorConsole, TaskRoutingProofs, SequenceTheorems, FiniteSetTheorems

-----------------------------------------------------------------------------
(* Type correctness.                                                       *)

LEMMA EnvTaskIsTask == EnvTask \in Task
BY DEF Task

LEMMA NoFileType == NoFile \in File
BY InitialStatusType DEF NoFile, File, Statuses

LEMMA RestingType ==
    ASSUME NEW phase \in Phase
    PROVE  Resting(phase) \in WorkerState
BY NoFileType, EnvTaskIsTask DEF Resting, WorkerState, TaskStatus

LEMMA InitType ==
    ASSUME Init
    PROVE  TypeOK
<1>1. row \in [Task -> Row]
  BY InitialStatusType DEF Init, Row, RowStatus, Statuses
<1>2. ledger \in [Task -> Seq(AttemptStatus)]
  BY DEF Init
<1>3. worker \in [Worker -> WorkerState]
  BY RestingType DEF Init, Phase
<1>4. runStatus \in RunStatus /\ paused \in BOOLEAN /\ repairs \subseteq RepairAttempt
  BY DEF Init, RunStatus
<1> QED
  BY <1>1, <1>2, <1>3, <1>4 DEF TypeOK

LEMMA LeaveType ==
    ASSUME TypeOK, NEW w \in Worker, NEW phase \in Phase, Leave(w, phase)
    PROVE  worker' \in [Worker -> WorkerState]
BY RestingType DEF Leave, TypeOK

LEMMA FinishType ==
    ASSUME TypeOK, NEW w \in Worker, Finish(w)
    PROVE  worker' \in [Worker -> WorkerState]
BY LeaveType DEF Finish, Phase

\* A worker whose phase, snapshot or receipt changes is still a worker.
LEMMA WriteFileType ==
    ASSUME TypeOK, NEW w \in Worker, NEW f \in File, NEW state \in WorkerState,
           WriteFile(w, f, state)
    PROVE  worker' \in [Worker -> WorkerState]
<1>1. \A v \in WorkerState : [v EXCEPT !.file = f] \in WorkerState
  BY DEF WorkerState
<1> QED
  BY <1>1 DEF WriteFile, TypeOK

\* The execution state a claim is materialized with.
LEMMA SnapshotType ==
    ASSUME TypeOK
    PROVE  Snapshot \in File
<1>1. \A t \in Task : row[t].status \in RowStatus /\ row[t].attempts \in Nat
  BY DEF TypeOK, Row
<1>2. \A t \in Task : SeenAs(row[t].status) \in TaskStatus
  BY <1>1 DEF SeenAs, RowStatus, TaskStatus
<1> QED
  BY <1>1, <1>2 DEF Snapshot, File

\* What a result makes of an execution state is one again.
LEMMA ApplyToType ==
    ASSUME TypeOK, NEW w \in Worker, NEW f \in File, NEW o, Result(o),
           NEW phase \in Phase, ApplyTo(f, w, o, phase)
    PROVE  worker' \in [Worker -> WorkerState]
<1> DEFINE t == TaskOf(w)
           judged == Judged(f.st, t, o)
           decision == RepairDecision(judged, f.rep, t, o)
           settled == Settled(judged, decision, t, o)
           noted == NoteRepair(f.rep, decision, t, o)
           esc == IF decision = "escalated" THEN o.target ELSE f.esc
           new == [st |-> settled, att |-> f.att, rep |-> noted, esc |-> esc]
           state == [worker[w] EXCEPT !.phase = phase, !.receipt = settled[t]]
<1>1. WriteFile(w, new, state)
  BY DEF ApplyTo
<1>2. worker[w] \in WorkerState /\ t \in Task
  BY DEF TypeOK, TaskOf, WorkerState
<1>3. f.st \in Statuses /\ f.att \in Counts /\ f.rep \in Counts /\ f.esc \in RepairableStage \cup {NoStage}
  BY DEF File, Statuses, Counts
<1>4. judged \in Statuses
  BY <1>2, <1>3, JudgedType
<1> HIDE DEF judged
<1>5. decision \in {"not-applicable", "escalated", "triggered"}
  BY DecisionType
<1>6. noted \in Counts
  BY <1>2, <1>3, <1>4, NoteRepairType
<1> HIDE DEF decision
<1>7. settled \in Statuses
  BY <1>2, <1>4, <1>5, SettledType
<1>8. esc \in RepairableStage \cup {NoStage}
  BY <1>3 DEF Result
<1> HIDE DEF settled, noted, esc
<1>9. new \in File
  BY <1>3, <1>6, <1>7, <1>8 DEF File, Statuses, Counts
<1>10. settled[t] \in TaskStatus
  BY <1>2, <1>7 DEF Statuses
<1>11. state \in WorkerState
  BY <1>2, <1>10 DEF WorkerState
<1> QED
  BY <1>1, <1>9, <1>11, WriteFileType

\* Writing to an attempt of the ledger, or to none, leaves a ledger.
LEMMA LedgerWriteType ==
    ASSUME TypeOK, NEW t \in Task, NEW n \in Nat, NEW s \in AttemptStatus
    PROVE  [ledger EXCEPT ![t][n] = s] \in [Task -> Seq(AttemptStatus)]
<1>1. ledger[t] \in Seq(AttemptStatus)
  BY DEF TypeOK
<1>2. [ledger[t] EXCEPT ![n] = s] \in Seq(AttemptStatus)
  <2>1. CASE n \in 1..Len(ledger[t])
    BY <1>1, <2>1, ExceptSeq
  <2>2. CASE n \notin 1..Len(ledger[t])
    <3>1. [ledger[t] EXCEPT ![n] = s] = ledger[t]
      BY <1>1, <2>2, LenProperties
    <3> QED
      BY <1>1, <3>1
  <2> QED
    BY <2>1, <2>2
<1> QED
  BY <1>2 DEF TypeOK

\* What leasing, lapsing and releasing write to a row.
LEMMA LeasedRowType ==
    ASSUME NEW x \in Row, NEW n \in Nat, NEW w \in Worker
    PROVE  /\ Leased(x, n, w) \in Row
           /\ Leased(x, n, w).retry = x.retry
           /\ Leased(x, n, w).lease = n
           /\ Leased(x, n, w).owner = IdOf[w]
<1> DEFINE a == x.attempts + 1
<1>1. a \in Nat /\ "leased" \in RowStatus /\ IdOf[w] \in WorkerId
  BY PlatformAssumption DEF Row, RowStatus
<1>2. Leased(x, n, w) = [x EXCEPT !.status = "leased", !.attempts = a,
                                  !.lease = n, !.owner = IdOf[w], !.live = TRUE]
  BY DEF Leased
<1> HIDE DEF a
<1> QED
  BY <1>1, <1>2 DEF Row

LEMMA LapsedRowType ==
    ASSUME NEW x \in Row
    PROVE  [x EXCEPT !.live = FALSE] \in Row
BY DEF Row

LEMMA ReleasedRowType ==
    ASSUME NEW x \in Row
    PROVE  /\ Released(x) \in Row
           /\ Released(x).retry = x.retry
           /\ Released(x).lease = 0
           /\ Released(x).owner = NoWorker
BY DEF Row, Released

LEMMA LeaseType ==
    ASSUME TypeOK, NEW w \in Worker, LeaseNextTask(w)
    PROVE  TypeOK'
<1>1. PICK t \in NextToLease :
        /\ row' = [row EXCEPT ![t] = Leased(row[t], Len(ledger[t]) + 1, w)]
        /\ ledger' = [ledger EXCEPT ![t] = Append(@, "leased")]
        /\ worker' = [worker EXCEPT ![w] =
                        [Resting("leased") EXCEPT !.task = t, !.given = Len(ledger[t]) + 1]]
  BY DEF LeaseNextTask
<1>2. t \in Task
  BY DEF NextToLease, Ready
<1>3. ledger[t] \in Seq(AttemptStatus) /\ Len(ledger[t]) + 1 \in Nat
  BY <1>2, LenProperties DEF TypeOK
<1>4. row' \in [Task -> Row]
  <2>1. Leased(row[t], Len(ledger[t]) + 1, w) \in Row
    BY <1>2, <1>3, LeasedRowType DEF TypeOK
  <2> QED
    BY <1>1, <1>2, <2>1 DEF TypeOK
<1>5. ledger' \in [Task -> Seq(AttemptStatus)]
  <2>1. Append(ledger[t], "leased") \in Seq(AttemptStatus)
    BY <1>3, AppendProperties DEF AttemptStatus, RowStatus
  <2> QED
    BY <1>1, <1>2, <2>1 DEF TypeOK
<1>6. worker' \in [Worker -> WorkerState]
  <2>1. Resting("leased") \in WorkerState
    BY RestingType DEF Phase
  <2>2. [Resting("leased") EXCEPT !.task = t, !.given = Len(ledger[t]) + 1] \in WorkerState
    BY <1>2, <1>3, <2>1 DEF WorkerState
  <2> QED
    BY <1>1, <2>2 DEF TypeOK
<1> QED
  BY <1>4, <1>5, <1>6 DEF LeaseNextTask, TypeOK, RunStatus

LEMMA RerunType ==
    ASSUME TypeOK, NEW w \in Worker, RunLeasedTask(w)
    PROVE  TypeOK'
<1>1. PICK t \in Task :
        worker' = [worker EXCEPT ![w] =
                    [Resting("leased") EXCEPT !.task = t, !.given = row[t].lease]]
  BY DEF RunLeasedTask
<1>2. row[t].lease \in Nat /\ Resting("leased") \in WorkerState
  BY RestingType DEF TypeOK, Row, Phase
<1>3. [Resting("leased") EXCEPT !.task = t, !.given = row[t].lease] \in WorkerState
  BY <1>2 DEF WorkerState
<1>4. worker' \in [Worker -> WorkerState]
  BY <1>1, <1>3 DEF TypeOK
<1> QED
  BY <1>4 DEF RunLeasedTask, tables, TypeOK

LEMMA HeartbeatType ==
    ASSUME TypeOK, NEW w \in Worker, Heartbeat(w)
    PROVE  TypeOK'
<1>1. TaskOf(w) \in Task
  BY DEF TypeOK, WorkerState, TaskOf
<1>2. row[TaskOf(w)].lease \in Nat /\ row[TaskOf(w)].status \in AttemptStatus
  BY <1>1 DEF TypeOK, Row, AttemptStatus
<1>3. ledger' \in [Task -> Seq(AttemptStatus)]
  BY <1>1, <1>2, LedgerWriteType DEF Heartbeat
<1> QED
  BY <1>3 DEF Heartbeat, TypeOK

\* A rejected start ends an auto-runner's work on the task, and changes nothing else.
LEMMA StartRejectedType ==
    ASSUME TypeOK, NEW w \in Worker, StartRejected(w)
    PROVE  TypeOK'
<1>1. [worker[w] EXCEPT !.phase = "started"] \in WorkerState
  BY DEF TypeOK, WorkerState, Phase
<1>2. worker' \in [Worker -> WorkerState]
  BY <1>1, FinishType DEF StartRejected, TypeOK
<1> QED
  BY <1>2 DEF StartRejected, tables, TypeOK

LEMMA StartType ==
    ASSUME TypeOK, NEW w \in Worker, StartTask(w)
    PROVE  TypeOK'
<1> DEFINE t == TaskOf(w)
<1>1. worker[w] \in WorkerState /\ t \in Task /\ row[t] \in Row /\ row[t].lease \in Nat
  BY DEF TypeOK, TaskOf, WorkerState, Row
<1>2. row' \in [Task -> Row]
  BY <1>1 DEF StartTask, TypeOK, Row, RowStatus, TaskStatus
<1>3. ledger' \in [Task -> Seq(AttemptStatus)]
  BY <1>1, LedgerWriteType DEF StartTask, AttemptStatus, RowStatus, TaskStatus
<1>4. [worker[w] EXCEPT !.phase = "started"] \in WorkerState
  BY <1>1 DEF WorkerState, Phase
<1>5. worker' \in [Worker -> WorkerState]
  BY <1>4 DEF StartTask, TypeOK
<1> QED
  BY <1>2, <1>3, <1>5 DEF StartTask, TypeOK, RunStatus

\* Persisting overwrites rows with statuses and counters of an execution state.
LEMMA PersistRowType ==
    ASSUME TypeOK, NEW w \in Worker, NEW next \in File, NEW u \in Task
    PROVE  /\ PersistRow(w, next, u) \in Row
           /\ PersistRow(w, next, u).retry = row[u].retry
           /\ \/ /\ PersistRow(w, next, u).lease = row[u].lease
                 /\ PersistRow(w, next, u).owner = row[u].owner
              \/ /\ PersistRow(w, next, u).lease = 0
                 /\ PersistRow(w, next, u).owner = NoWorker
<1>1. row[u] \in Row
  BY DEF TypeOK
<1>2. next.st[u] \in TaskStatus /\ next.att[u] \in Nat
  BY DEF File
<1>3. /\ Overwritten(u, next) \in Row
      /\ Overwritten(u, next).lease = row[u].lease
      /\ Overwritten(u, next).owner = row[u].owner
      /\ Overwritten(u, next).retry = row[u].retry
  BY <1>1, <1>2 DEF Overwritten, Row, RowStatus
<1> QED
  BY <1>1, <1>3, ReleasedRowType DEF PersistRow

LEMMA PersistType ==
    ASSUME TypeOK, NEW w \in Worker, PersistResult(w)
    PROVE  TypeOK'
<1> DEFINE t == TaskOf(w)
           next == worker[w].file
<1>1. worker[w] \in WorkerState /\ t \in Task /\ next \in File
  BY DEF TypeOK, TaskOf, WorkerState
<1>2. row[t].lease \in Nat /\ worker[w].receipt \in AttemptStatus
  BY <1>1 DEF TypeOK, Row, WorkerState, AttemptStatus, RowStatus
<1>3. row' \in [Task -> Row]
  <2>1. row' = [u \in Task |-> PersistRow(w, next, u)]
    BY DEF PersistResult
  <2> HIDE DEF next
  <2> QED
    BY <1>1, <2>1, PersistRowType
<1>4. ledger' \in [Task -> Seq(AttemptStatus)]
  BY <1>1, <1>2, LedgerWriteType DEF PersistResult
<1>5. repairs' \subseteq RepairAttempt
  <2>1. next.rep \in [Task -> Nat]
    BY <1>1 DEF File
  <2>2. RepairInserts(t, next) \subseteq RepairAttempt
    <3> HIDE DEF next, t
    <3>1. \A u \in Task : next.rep[u] > 0 =>
            [task |-> u, number |-> next.rep[u], status |-> "requested"] \in RepairAttempt
      BY <2>1 DEF RepairAttempt
    <3>2. \A u \in Task :
            [task |-> u, number |-> next.rep[u] + 1, status |-> "blocked"] \in RepairAttempt
      BY <2>1 DEF RepairAttempt
    <3> QED
      BY <3>1, <3>2 DEF RepairInserts
  <2>3. ASSUME NEW A \in SUBSET RepairAttempt
        PROVE  SettleRepair(A, t, next) \subseteq RepairAttempt
    <3> HIDE DEF next, t
    <3>1. \A a \in RepairAttempt :
            /\ [a EXCEPT !.status = "succeeded"] \in RepairAttempt
            /\ [a EXCEPT !.status = "blocked"] \in RepairAttempt
            /\ [a EXCEPT !.status = "failed"] \in RepairAttempt
      BY DEF RepairAttempt
    <3>2. ASSUME NEW a \in A
          PROVE  (IF a.task = t /\ a.status = "requested" /\ next.rep[t] = a.number
                  THEN CASE next.st[t] = "completed" -> [a EXCEPT !.status = "succeeded"]
                         [] next.st[t] = "blocked"   -> [a EXCEPT !.status = "blocked"]
                         [] next.st[t] = "failed"    -> [a EXCEPT !.status = "failed"]
                         [] OTHER                    -> a
                  ELSE a) \in RepairAttempt
      BY <3>1
    <3> QED
      BY <3>2 DEF SettleRepair
  <2>4. repairs \cup RepairInserts(t, next) \in SUBSET RepairAttempt
    BY <2>2 DEF TypeOK
  <2> QED
    BY <2>3, <2>4 DEF PersistResult
<1>6. worker' \in [Worker -> WorkerState]
  BY FinishType DEF PersistResult
<1>7. runStatus' \in RunStatus
  BY DEF PersistResult, InferRunStatus, RunStatus
<1> QED
  BY <1>3, <1>4, <1>5, <1>6, <1>7 DEF PersistResult, TypeOK

LEMMA ExpireRowType ==
    ASSUME TypeOK, NEW t \in Task
    PROVE  /\ ExpireRow(t) \in Row
           /\ ExpireRow(t).retry = row[t].retry + 1
           /\ ExpireRow(t).lease = 0
           /\ ExpireRow(t).owner = NoWorker
<1> DEFINE x == Released(row[t])
           s == IF CanRetry(t) THEN "ready" ELSE "blocked"
           n == row[t].retry + 1
<1>1. row[t] \in Row
  BY DEF TypeOK
<1>2. x \in Row /\ x.lease = 0 /\ x.owner = NoWorker
  BY <1>1, ReleasedRowType
<1>3. s \in RowStatus /\ n \in Nat
  BY <1>1 DEF Row, RowStatus, TaskStatus
<1>4. ExpireRow(t) = [x EXCEPT !.status = s, !.retry = n]
  BY DEF ExpireRow
<1> HIDE DEF x, s, n
<1>5. /\ ExpireRow(t) \in Row
      /\ ExpireRow(t).retry = n
      /\ ExpireRow(t).lease = x.lease
      /\ ExpireRow(t).owner = x.owner
  BY <1>2, <1>3, <1>4 DEF Row
<1> QED
  BY <1>2, <1>5 DEF n

LEMMA ExpireType ==
    ASSUME TypeOK, ExpireLeases
    PROVE  TypeOK'
<1>1. row' \in [Task -> Row]
  BY ExpireRowType DEF ExpireLeases, TypeOK
<1>2. ledger' \in [Task -> Seq(AttemptStatus)]
  <2>1. ASSUME NEW t \in Task
        PROVE  ExpireAttempt(t) \in Seq(AttemptStatus)
    <3>1. row[t].lease \in Nat /\ "expired" \in AttemptStatus
      BY DEF TypeOK, Row, AttemptStatus
    <3>2. [ledger EXCEPT ![t][row[t].lease] = "expired"] \in [Task -> Seq(AttemptStatus)]
      BY <3>1, LedgerWriteType
    <3> QED
      BY <3>2 DEF ExpireAttempt, TypeOK
  <2> QED
    BY <2>1 DEF ExpireLeases, TypeOK
<1> QED
  BY <1>1, <1>2 DEF ExpireLeases, TypeOK, RunStatus

LEMMA StoppedIsResult ==
    ASSUME NEW recoverable \in BOOLEAN
    PROVE  Result(StoppedOutcome(recoverable))
BY DEF StoppedOutcome, Result, TaskStatus

LEMMA WorkerStepType ==
    ASSUME TypeOK, NEW w \in Worker, WorkerStep(w)
    PROVE  TypeOK'
<1>0. /\ worker[w] \in WorkerState /\ worker[w].file \in File /\ worker[w].base \in File
      /\ TaskOf(w) \in Task
  BY DEF TypeOK, WorkerState, TaskOf
<1>1. CASE StartTask(w)
  BY <1>1, StartType
<1>2. CASE StartRejected(w) \/ MaterializeFails(w)
  BY <1>2, StartRejectedType, FinishType DEF MaterializeFails, tables, TypeOK
<1>3. CASE MaterializeClaim(w)
  <2>1. [worker[w] EXCEPT !.phase = "executing", !.base = Snapshot] \in WorkerState
    BY <1>0, SnapshotType DEF WorkerState, Phase
  <2>2. worker' \in [Worker -> WorkerState]
    BY <1>3, <2>1, SnapshotType, WriteFileType DEF MaterializeClaim
  <2> QED
    BY <1>3, <2>2 DEF MaterializeClaim, tables, TypeOK
<1>4. CASE Execute(w)
  <2>1. PICK o \in Outcomes[StageOf(TaskOf(w))] : ApplyTo(StateRead(w), w, o, "executed")
    BY <1>4 DEF Execute, ExecuteWith
  <2>2. Result(o)
    BY <1>0, OutcomesAreResults, TaskIsPair
  <2>3. StateRead(w) \in File
    BY <1>0 DEF StateRead
  <2>4. worker' \in [Worker -> WorkerState]
    BY <2>1, <2>2, <2>3, ApplyToType DEF Phase
  <2> QED
    BY <1>4, <2>4 DEF Execute, ExecuteWith, tables, TypeOK
<1>5. CASE WriteStopped(w)
  <2>1. worker' \in [Worker -> WorkerState]
    BY <1>0, <1>5, StoppedIsResult, ApplyToType DEF WriteStopped, Phase
  <2> QED
    BY <1>5, <2>1 DEF WriteStopped, tables, TypeOK
<1>6. CASE PersistResult(w)
  BY <1>6, PersistType
<1>7. CASE PersistFails(w)
  <2>1. [worker[w] EXCEPT !.phase = "caught"] \in WorkerState
    BY <1>0 DEF WorkerState, Phase
  <2>2. worker' \in [Worker -> WorkerState]
    BY <1>7, <2>1, FinishType DEF PersistFails, TypeOK
  <2> QED
    BY <1>7, <2>2 DEF PersistFails, tables, TypeOK
<1> QED
  BY <1>1, <1>2, <1>3, <1>4, <1>5, <1>6, <1>7 DEF WorkerStep, PlainStep

LEMMA WorkerTroubleType ==
    ASSUME TypeOK, NEW w \in Worker, WorkerTrouble(w)
    PROVE  TypeOK'
<1>0. worker[w] \in WorkerState /\ worker[w].file \in File
  BY DEF TypeOK, WorkerState
<1>1. CASE ExecutionThrows(w)
  <2>1. [worker[w] EXCEPT !.phase = "caught"] \in WorkerState
    BY <1>0 DEF WorkerState, Phase
  <2>2. worker' \in [Worker -> WorkerState]
    BY <1>1, <2>1, FinishType DEF ExecutionThrows, TypeOK
  <2> QED
    BY <1>1, <2>2 DEF ExecutionThrows, tables, TypeOK
<1>2. CASE HeartbeatRejected(w)
  BY <1>2, FinishType DEF HeartbeatRejected, tables, TypeOK
<1>3. CASE HeartbeatErrors(w)
  <2>1. worker' \in [Worker -> WorkerState]
    BY <1>0, <1>3, StoppedIsResult, ApplyToType DEF HeartbeatErrors, Phase
  <2> QED
    BY <1>3, <2>1 DEF HeartbeatErrors, tables, TypeOK
<1>4. CASE Crash(w)
  BY <1>4, LeaveType DEF Crash, Phase, tables, TypeOK
<1> QED
  BY <1>1, <1>2, <1>3, <1>4 DEF WorkerTrouble

\* Every transaction and every step of a worker preserves the types.
LEMMA StepType ==
    ASSUME TypeOK, [Next]_vars
    PROVE  TypeOK'
<1>1. CASE \E w \in Worker : LeaseNextTask(w)
  BY <1>1, LeaseType
<1>2. CASE \E w \in Worker : StopDraining(w)
  BY <1>2, LeaveType DEF StopDraining, Phase, tables, TypeOK
<1>3. CASE \E w \in Worker : WorkerStep(w)
  BY <1>3, WorkerStepType
<1>4. CASE \E w \in Worker : WorkerTrouble(w)
  BY <1>4, WorkerTroubleType
<1>5. CASE \E t \in Task : LeaseLapses(t)
  <2>1. PICK t \in Task : row' = [row EXCEPT ![t] = [@ EXCEPT !.live = FALSE]]
    BY <1>5 DEF LeaseLapses
  <2>2. [row[t] EXCEPT !.live = FALSE] \in Row
    BY LapsedRowType DEF TypeOK
  <2> QED
    BY <1>5, <2>1, <2>2 DEF LeaseLapses, TypeOK
<1>6. CASE SweepLeases \/ ExpireCommand
  BY <1>6, ExpireType DEF SweepLeases, ExpireCommand
<1>7. CASE PauseOrResume
  BY <1>7 DEF PauseOrResume, tables, TypeOK
<1>8. CASE UNCHANGED vars
  BY <1>8 DEF vars, tables, TypeOK
<1>9. CASE \E w \in Worker : RunLeasedTask(w) \/ Heartbeat(w)
  BY <1>9, RerunType, HeartbeatType
<1> QED
  BY <1>1, <1>2, <1>3, <1>4, <1>5, <1>6, <1>7, <1>8, <1>9 DEF Next

\* The tables and the workers keep their types, in every run of the platform.
THEOREM PlatformTypeCorrect == Spec => []TypeOK
<1>1. Init => TypeOK
  BY InitType
<1>2. TypeOK /\ [Next]_vars => TypeOK'
  BY StepType
<1> QED
  BY <1>1, <1>2, PTL DEF Spec

-----------------------------------------------------------------------------
(* Attempts and their workers.  The rows are checked for the id of a       *)
(* worker only; the invariant says what that check is enough for: a row    *)
(* that carries the id of a working worker, and nobody else's, carries the *)
(* attempt it set out on.                                                  *)

OwnerLease ==
    \A w \in Worker :
        Working(w) /\ IdIsOwn(w) /\ row[TaskOf(w)].owner = IdOf[w] =>
            row[TaskOf(w)].lease = worker[w].given

\* No worker comes to work, or to another attempt.
KeepsWork ==
    \A v \in Worker : Working(v)' =>
        Working(v) /\ TaskOf(v)' = TaskOf(v) /\ worker'[v].given = worker[v].given

\* A row keeps its owner and its attempt, or loses both.
KeepsOwners ==
    \A t \in Task :
        \/ row'[t].owner = row[t].owner /\ row'[t].lease = row[t].lease
        \/ row'[t].owner = NoWorker /\ row'[t].lease = 0

LEMMA LeaveKeepsWork ==
    ASSUME TypeOK, NEW w \in Worker, NEW phase \in {"idle", "draining"}, Leave(w, phase)
    PROVE  KeepsWork
BY DEF Leave, KeepsWork, Working, TaskOf, Resting, TypeOK

LEMMA FinishKeepsWork ==
    ASSUME TypeOK, NEW w \in Worker, Finish(w)
    PROVE  KeepsWork
BY LeaveKeepsWork DEF Finish

LEMMA WriteKeepsWork ==
    ASSUME TypeOK, NEW w \in Worker, NEW f, NEW state \in WorkerState, WriteFile(w, f, state),
           Working(w), state.task = worker[w].task, state.given = worker[w].given
    PROVE  KeepsWork
<1> SUFFICES ASSUME NEW v \in Worker, Working(v)'
             PROVE  Working(v) /\ TaskOf(v)' = TaskOf(v) /\ worker'[v].given = worker[v].given
  BY DEF KeepsWork
<1>1. worker[v] \in WorkerState
  BY DEF TypeOK
<1>2. CASE v = w
  <2>1. worker'[v] = [state EXCEPT !.file = f]
    BY <1>2 DEF WriteFile
  <2> QED
    BY <1>2, <2>1 DEF TaskOf, WorkerState
<1>3. CASE v # w
  <2>1. worker'[v] = worker[v] \/ worker'[v] = [worker[v] EXCEPT !.file = f]
    BY <1>3 DEF WriteFile
  <2>2. /\ worker'[v].phase = worker[v].phase
        /\ worker'[v].task = worker[v].task
        /\ worker'[v].given = worker[v].given
    BY <1>1, <2>1 DEF WorkerState
  <2> QED
    BY <2>2 DEF Working, TaskOf
<1> QED
  BY <1>2, <1>3

LEMMA ApplyToKeepsWork ==
    ASSUME TypeOK, NEW w \in Worker, NEW f, NEW o, NEW phase, ApplyTo(f, w, o, phase), Working(w)
    PROVE  KeepsWork
<1> SUFFICES ASSUME NEW v \in Worker, Working(v)'
             PROVE  Working(v) /\ TaskOf(v)' = TaskOf(v) /\ worker'[v].given = worker[v].given
  BY DEF KeepsWork
<1>1. worker[v] \in WorkerState /\ worker[w] \in WorkerState
  BY DEF TypeOK
<1>2. PICK next, receipt :
        WriteFile(w, next, [worker[w] EXCEPT !.phase = phase, !.receipt = receipt])
  BY DEF ApplyTo
<1>3. \/ worker'[v] = worker[v]
      \/ worker'[v] = [worker[v] EXCEPT !.file = next]
      \/ /\ v = w
         /\ worker'[v] = [[worker[w] EXCEPT !.phase = phase, !.receipt = receipt]
                           EXCEPT !.file = next]
  BY <1>2 DEF WriteFile
<1>4. /\ worker'[v].phase = worker[v].phase \/ v = w
      /\ worker'[v].task = worker[v].task
      /\ worker'[v].given = worker[v].given
  BY <1>1, <1>3 DEF WorkerState
<1> QED
  BY <1>4 DEF Working, TaskOf

LEMMA PhaseKeepsWork ==
    ASSUME TypeOK, NEW w \in Worker, NEW phase, Working(w),
           worker' = [worker EXCEPT ![w].phase = phase]
    PROVE  KeepsWork
<1>1. \A v \in Worker : worker[v] \in WorkerState
  BY DEF TypeOK
<1>2. \A v \in Worker :
        /\ worker'[v].phase = worker[v].phase \/ v = w
        /\ worker'[v].task = worker[v].task
        /\ worker'[v].given = worker[v].given
  BY <1>1 DEF TypeOK, WorkerState
<1> QED
  BY <1>2 DEF KeepsWork, Working, TaskOf

LEMMA WorkerKeepsWork ==
    ASSUME TypeOK, NEW w \in Worker, WorkerStep(w) \/ WorkerTrouble(w)
    PROVE  KeepsWork
<1>0. worker[w] \in WorkerState
  BY DEF TypeOK
<1>1. CASE StartTask(w)
  BY <1>1, PhaseKeepsWork DEF StartTask, Working
<1>2. CASE StartRejected(w) \/ MaterializeFails(w) \/ PersistResult(w) \/ HeartbeatRejected(w)
  BY <1>2, PhaseKeepsWork, FinishKeepsWork
     DEF StartRejected, MaterializeFails, PersistResult, HeartbeatRejected, Working
<1>3. CASE MaterializeClaim(w)
  <2> DEFINE state == [worker[w] EXCEPT !.phase = "executing", !.base = Snapshot]
  <2>1. state \in WorkerState /\ state.task = worker[w].task /\ state.given = worker[w].given
    BY <1>0, SnapshotType DEF WorkerState, Phase
  <2>2. WriteFile(w, Snapshot, state) /\ Working(w)
    BY <1>3 DEF MaterializeClaim, Working
  <2> HIDE DEF state
  <2> QED
    BY <2>1, <2>2, WriteKeepsWork
<1>4. CASE Execute(w)
  BY <1>4, ApplyToKeepsWork DEF Execute, ExecuteWith, Working
<1>5. CASE WriteStopped(w) \/ HeartbeatErrors(w)
  BY <1>5, ApplyToKeepsWork DEF WriteStopped, HeartbeatErrors, Working
<1>6. CASE PersistFails(w) \/ ExecutionThrows(w)
  BY <1>6, PhaseKeepsWork, FinishKeepsWork DEF PersistFails, ExecutionThrows, Working
<1>7. CASE Crash(w)
  BY <1>7, LeaveKeepsWork DEF Crash
<1> QED
  BY <1>1, <1>2, <1>3, <1>4, <1>5, <1>6, <1>7 DEF WorkerStep, PlainStep, WorkerTrouble

LEMMA WorkerKeepsOwners ==
    ASSUME TypeOK, NEW w \in Worker, WorkerStep(w) \/ WorkerTrouble(w)
    PROVE  KeepsOwners
<1>1. \A t \in Task : row[t] \in Row
  BY DEF TypeOK
<1>2. CASE StartTask(w)
  BY <1>1, <1>2 DEF StartTask, KeepsOwners, TypeOK, Row
<1>3. CASE PersistResult(w)
  <2>1. worker[w].file \in File
    BY DEF TypeOK, WorkerState
  <2>2. row' = [u \in Task |-> PersistRow(w, worker[w].file, u)]
    BY <1>3 DEF PersistResult
  <2> QED
    BY <2>1, <2>2, PersistRowType DEF KeepsOwners
<1>4. CASE row' = row
  BY <1>4 DEF KeepsOwners
<1> QED
  BY <1>2, <1>3, <1>4
     DEF WorkerStep, PlainStep, WorkerTrouble, StartRejected, MaterializeClaim, MaterializeFails, Execute, ExecuteWith,
         WriteStopped, PersistFails, ExecutionThrows, HeartbeatRejected, HeartbeatErrors, Crash,
         tables

\* Keeping both keeps the owner of a row at the attempt of the row.
LEMMA KeptOwnerLease ==
    ASSUME TypeOK, TypeOK', OwnerLease, KeepsWork, KeepsOwners
    PROVE  OwnerLease'
<1> SUFFICES ASSUME NEW w \in Worker, Working(w)', IdIsOwn(w), row'[TaskOf(w)'].owner = IdOf[w]
             PROVE  row'[TaskOf(w)'].lease = worker'[w].given
  BY DEF OwnerLease, IdIsOwn
<1>1. Working(w) /\ TaskOf(w)' = TaskOf(w) /\ worker'[w].given = worker[w].given
  BY DEF KeepsWork
<1>2. TaskOf(w) \in Task
  BY DEF TypeOK, WorkerState, TaskOf
<1>3. row'[TaskOf(w)].owner = row[TaskOf(w)].owner /\ row'[TaskOf(w)].lease = row[TaskOf(w)].lease
  BY <1>1, <1>2, PlatformAssumption DEF KeepsOwners
<1> QED
  BY <1>1, <1>3 DEF OwnerLease

LEMMA LeaseOwnerLease ==
    ASSUME TypeOK, OwnerLease, NEW w \in Worker, LeaseNextTask(w)
    PROVE  OwnerLease'
<1>1. PICK t \in NextToLease :
        /\ row' = [row EXCEPT ![t] = Leased(row[t], Len(ledger[t]) + 1, w)]
        /\ worker' = [worker EXCEPT ![w] =
                        [Resting("leased") EXCEPT !.task = t, !.given = Len(ledger[t]) + 1]]
  BY DEF LeaseNextTask
<1>2. t \in Task /\ ledger[t] \in Seq(AttemptStatus)
  BY DEF NextToLease, Ready, TypeOK
<1>3. /\ row'[t].owner = IdOf[w] /\ row'[t].lease = Len(ledger[t]) + 1
      /\ \A u \in Task : u # t => row'[u] = row[u]
  <2> DEFINE n == Len(ledger[t]) + 1
             leased == Leased(row[t], n, w)
  <2>1. row[t] \in Row /\ n \in Nat
    BY <1>2, LenProperties DEF TypeOK
  <2>2. row' = [row EXCEPT ![t] = leased]
    BY <1>1
  <2> HIDE DEF n
  <2>3. leased.owner = IdOf[w] /\ leased.lease = n
    BY <2>1, LeasedRowType
  <2> HIDE DEF leased
  <2>4. /\ row'[t].owner = IdOf[w] /\ row'[t].lease = n
        /\ \A u \in Task : u # t => row'[u] = row[u]
    BY <1>2, <2>2, <2>3 DEF TypeOK
  <2> QED
    BY <2>4 DEF n
<1>4. /\ worker'[w].task = t /\ worker'[w].given = Len(ledger[t]) + 1
      /\ \A v \in Worker : v # w => worker'[v] = worker[v]
  BY <1>1 DEF TypeOK, Resting
<1> SUFFICES ASSUME NEW v \in Worker, Working(v)', IdIsOwn(v), row'[TaskOf(v)'].owner = IdOf[v]
             PROVE  row'[TaskOf(v)'].lease = worker'[v].given
  BY DEF OwnerLease, IdIsOwn
<1>5. CASE v = w
  BY <1>3, <1>4, <1>5 DEF TaskOf
<1>6. CASE v # w
  <2>1. worker'[v] = worker[v] /\ TaskOf(v) \in Task
    BY <1>4, <1>6 DEF TypeOK, WorkerState, TaskOf
  <2>2. TaskOf(v) # t
    BY <1>3, <1>6, <2>1 DEF TaskOf, IdIsOwn
  <2> QED
    BY <1>3, <2>1, <2>2 DEF OwnerLease, Working, TaskOf
<1> QED
  BY <1>5, <1>6

\* A command run for a task leased under its id sets out on the attempt of the row.
LEMMA RerunOwnerLease ==
    ASSUME TypeOK, OwnerLease, NEW w \in Worker, RunLeasedTask(w)
    PROVE  OwnerLease'
<1>1. PICK t \in Task :
        worker' = [worker EXCEPT ![w] =
                    [Resting("leased") EXCEPT !.task = t, !.given = row[t].lease]]
  BY DEF RunLeasedTask
<1>2. /\ worker'[w].task = t /\ worker'[w].given = row[t].lease
      /\ \A v \in Worker : v # w => worker'[v] = worker[v]
  BY <1>1 DEF TypeOK, Resting
<1>3. row' = row
  BY DEF RunLeasedTask, tables
<1> QED
  BY <1>2, <1>3 DEF OwnerLease, Working, TaskOf, IdIsOwn

LEMMA StepOwnerLease ==
    ASSUME TypeOK, OwnerLease, [Next]_vars
    PROVE  OwnerLease'
<1>1. TypeOK'
  BY StepType
<1>2. CASE \E w \in Worker : LeaseNextTask(w)
  BY <1>2, LeaseOwnerLease
<1>3. CASE \E w \in Worker : WorkerStep(w) \/ WorkerTrouble(w)
  BY <1>1, <1>3, WorkerKeepsWork, WorkerKeepsOwners, KeptOwnerLease
<1>4. CASE \E w \in Worker : StopDraining(w)
  <2>1. KeepsWork
    BY <1>4, LeaveKeepsWork DEF StopDraining
  <2>2. KeepsOwners
    BY <1>4 DEF StopDraining, tables, KeepsOwners
  <2> QED
    BY <1>1, <2>1, <2>2, KeptOwnerLease
<1>5. worker' = worker => KeepsWork
  BY DEF KeepsWork, Working, TaskOf
<1>6. CASE \E t \in Task : LeaseLapses(t)
  <2>1. \A t \in Task : row[t] \in Row
    BY DEF TypeOK
  <2>2. KeepsOwners
    BY <1>6, <2>1 DEF LeaseLapses, KeepsOwners, TypeOK, Row
  <2> QED
    BY <1>1, <1>5, <1>6, <2>2, KeptOwnerLease DEF LeaseLapses
<1>7. CASE SweepLeases \/ ExpireCommand
  <2>1. KeepsOwners
    BY <1>7, ExpireRowType DEF SweepLeases, ExpireCommand, ExpireLeases, KeepsOwners
  <2> QED
    BY <1>1, <1>5, <1>7, <2>1, KeptOwnerLease DEF SweepLeases, ExpireCommand, ExpireLeases
<1>8. CASE PauseOrResume \/ UNCHANGED vars
  <2>1. KeepsOwners
    BY <1>8 DEF PauseOrResume, vars, tables, KeepsOwners
  <2> QED
    BY <1>1, <1>5, <1>8, <2>1, KeptOwnerLease DEF PauseOrResume, vars
<1>9. CASE \E w \in Worker : RunLeasedTask(w)
  BY <1>9, RerunOwnerLease
<1>10. CASE \E w \in Worker : Heartbeat(w)
  <2>1. KeepsOwners
    BY <1>10 DEF Heartbeat, KeepsOwners
  <2> QED
    BY <1>1, <1>5, <1>10, <2>1, KeptOwnerLease DEF Heartbeat
<1> QED
  BY <1>2, <1>3, <1>4, <1>6, <1>7, <1>8, <1>9, <1>10 DEF Next

-----------------------------------------------------------------------------
(* A result closes the attempt its worker set out on, or one of its id.    *)

LEMMA PersistClosesOwn ==
    ASSUME TypeOK, OwnerLease, NEW w \in Worker, PersistResult(w),
           NEW t \in Task, NEW n \in DOMAIN ledger[t], ledger'[t][n] # ledger[t][n]
    PROVE  /\ worker[w].phase \in {"executed", "stopped"}
           /\ TaskOf(w) = t
           /\ IdOf[w] = row[t].owner
           /\ IdIsOwn(w) => worker[w].given = n
<1>1. TaskOf(w) \in Task /\ ledger[t] \in Seq(AttemptStatus)
  BY DEF TypeOK, WorkerState, TaskOf
<1>2. ledger' = [ledger EXCEPT ![TaskOf(w)][row[TaskOf(w)].lease] = worker[w].receipt]
  BY DEF PersistResult
<1>3. TaskOf(w) = t /\ row[t].lease = n
  BY <1>1, <1>2 DEF TypeOK
<1>4. worker[w].phase \in {"executed", "stopped"} /\ row[t].owner = IdOf[w]
  BY <1>3 DEF PersistResult, Persistable, Holds
<1>5. IdIsOwn(w) => worker[w].given = n
  BY <1>3, <1>4 DEF OwnerLease, Working
<1> QED
  BY <1>3, <1>4, <1>5

\* Nothing but persisting a result gives an attempt one.
LEMMA StepResult ==
    ASSUME TypeOK, [Next]_vars,
           NEW t \in Task, NEW n \in DOMAIN ledger[t],
           ledger'[t][n] # ledger[t][n], ledger'[t][n] \in TaskStatus \ {"in-progress"}
    PROVE  \E w \in Worker : PersistResult(w)
<1>1. ledger[t] \in Seq(AttemptStatus) /\ n \in 1..Len(ledger[t])
  BY LenProperties DEF TypeOK
<1>2. ASSUME NEW w \in Worker, LeaseNextTask(w)
      PROVE  FALSE
  <2>1. PICK u \in NextToLease : ledger' = [ledger EXCEPT ![u] = Append(@, "leased")]
    BY <1>2 DEF LeaseNextTask
  <2>2. ledger'[t] = ledger[t] \/ ledger'[t] = Append(ledger[t], "leased")
    BY <2>1 DEF TypeOK
  <2>3. Append(ledger[t], "leased")[n] = ledger[t][n]
    BY <1>1, AppendProperties DEF AttemptStatus, RowStatus
  <2> QED
    BY <2>2, <2>3
<1>3. ASSUME NEW w \in Worker, StartTask(w)
      PROVE  FALSE
  <2>1. ledger' = [ledger EXCEPT ![TaskOf(w)][row[TaskOf(w)].lease] = "in-progress"]
    BY <1>3 DEF StartTask
  <2>2. ledger'[t][n] = ledger[t][n] \/ ledger'[t][n] = "in-progress"
    BY <1>1, <2>1 DEF TypeOK
  <2> QED
    BY <2>2
<1>4. ASSUME ExpireLeases
      PROVE  FALSE
  <2>1. ledger'[t] = ledger[t] \/ ledger'[t] = [ledger[t] EXCEPT ![row[t].lease] = "expired"]
    BY <1>4 DEF ExpireLeases, ExpireAttempt
  <2>2. ledger'[t][n] = ledger[t][n] \/ ledger'[t][n] = "expired"
    BY <1>1, <2>1
  <2> QED
    BY <2>2 DEF TaskStatus
<1>5. ASSUME NEW w \in Worker, Heartbeat(w)
      PROVE  FALSE
  <2>1. ledger' = [ledger EXCEPT ![TaskOf(w)][row[TaskOf(w)].lease] = row[TaskOf(w)].status]
    BY <1>5 DEF Heartbeat
  <2>2. ledger'[t][n] = ledger[t][n] \/ ledger'[t][n] \in Held
    BY <1>1, <1>5, <2>1 DEF TypeOK, Heartbeat, Holds
  <2> QED
    BY <2>2 DEF Held, TaskStatus
<1> QED
  BY <1>2, <1>3, <1>4, <1>5
     DEF Next, WorkerStep, PlainStep, WorkerTrouble, StopDraining, RunLeasedTask, StartRejected, MaterializeClaim,
         MaterializeFails, Execute, ExecuteWith, WriteStopped, PersistFails, ExecutionThrows,
         HeartbeatRejected, HeartbeatErrors, Crash, LeaseLapses, SweepLeases, ExpireCommand,
         PauseOrResume, tables, vars

LEMMA StepClosesOwn ==
    ASSUME TypeOK, OwnerLease, [Next]_vars,
           NEW t \in Task, NEW n \in DOMAIN ledger[t],
           ledger'[t][n] # ledger[t][n], ledger'[t][n] \in TaskStatus \ {"in-progress"}
    PROVE  \E w \in Worker :
                /\ worker[w].phase \in {"executed", "stopped"}
                /\ TaskOf(w) = t
                /\ IdOf[w] = row[t].owner
                /\ IdIsOwn(w) => worker[w].given = n
BY StepResult, PersistClosesOwn

\* An attempt is closed with a result of its task by a worker of the id on the row, and
\* by the very one that set out on the attempt if nobody shares its id: start,
\* materialization and persist compare the worker's id and not the attempt.
THEOREM ResultsCloseTheirAttempt == Spec => ResultsCloseOwnAttempt
<1>1. Init => TypeOK /\ OwnerLease
  <2> SUFFICES ASSUME Init
               PROVE  OwnerLease
    BY InitType
  <2>1. \A w \in Worker : worker[w].phase = "idle"
    BY DEF Init, Resting
  <2> QED
    BY <2>1 DEF OwnerLease, Working
<1>2. TypeOK /\ OwnerLease /\ [Next]_vars => TypeOK' /\ OwnerLease'
  BY StepType, StepOwnerLease
<1>3. TypeOK /\ OwnerLease /\ [Next]_vars =>
        [\A t \in Task : \A n \in DOMAIN ledger[t] :
            ledger'[t][n] # ledger[t][n] /\ ledger'[t][n] \in TaskStatus \ {"in-progress"} =>
                \E w \in Worker :
                    /\ worker[w].phase \in {"executed", "stopped"}
                    /\ TaskOf(w) = t
                    /\ IdOf[w] = row[t].owner
                    /\ IdIsOwn(w) => worker[w].given = n]_vars
  BY StepClosesOwn
<1> QED
  BY <1>1, <1>2, <1>3, PTL DEF Spec, ResultsCloseOwnAttempt

-----------------------------------------------------------------------------
(* Retries are expired attempts.  The attempt a row points to has not      *)
(* expired, so that expiring it adds one attempt and one retry, and no     *)
(* other write to the ledger touches an expired attempt.                   *)

LeaseIsUnexpired ==
    \A t \in Task :
        row[t].lease # 0 =>
            row[t].lease \in DOMAIN ledger[t] /\ ledger[t][row[t].lease] # "expired"

ExpiredOf(t) == {n \in DOMAIN ledger[t] : ledger[t][n] = "expired"}

RetryInv == TypeOK /\ LeaseIsUnexpired /\ RetriesAreExpiries

\* What a step that neither leases nor expires does to the row and to the attempts of t.
KeepsExpired(t) ==
    /\ row'[t].retry = row[t].retry
    /\ row'[t].lease \in {row[t].lease, 0}
    /\ DOMAIN ledger'[t] = DOMAIN ledger[t]
    /\ \A n \in DOMAIN ledger[t] :
        \/ ledger'[t][n] = ledger[t][n]
        \/ n = row[t].lease /\ ledger'[t][n] # "expired"

LEMMA KeptRetries ==
    ASSUME RetryInv, NEW t \in Task, KeepsExpired(t)
    PROVE  /\ row'[t].lease # 0 =>
                row'[t].lease \in DOMAIN ledger'[t] /\ ledger'[t][row'[t].lease] # "expired"
           /\ row'[t].retry = Cardinality(ExpiredOf(t)')
<1>1. ledger[t] \in Seq(AttemptStatus) /\ DOMAIN ledger[t] = 1..Len(ledger[t])
  BY LenProperties DEF RetryInv, TypeOK
<1>2. \A n \in DOMAIN ledger[t] : n # 0
  BY <1>1
<1>3. \A n \in DOMAIN ledger[t] : (ledger'[t][n] = "expired" <=> ledger[t][n] = "expired")
  BY <1>2 DEF RetryInv, LeaseIsUnexpired, KeepsExpired
<1>4. ExpiredOf(t)' = ExpiredOf(t)
  BY <1>3 DEF ExpiredOf, KeepsExpired
<1>5. row[t].retry = Cardinality(ExpiredOf(t))
  BY DEF RetryInv, RetriesAreExpiries, ExpiredOf
<1> QED
  BY <1>3, <1>4, <1>5 DEF RetryInv, LeaseIsUnexpired, KeepsExpired

LEMMA LeasedRetries ==
    ASSUME RetryInv, NEW w \in Worker, LeaseNextTask(w), NEW t \in Task
    PROVE  /\ row'[t].lease # 0 =>
                row'[t].lease \in DOMAIN ledger'[t] /\ ledger'[t][row'[t].lease] # "expired"
           /\ row'[t].retry = Cardinality(ExpiredOf(t)')
<1>1. PICK u \in NextToLease :
        /\ row' = [row EXCEPT ![u] = Leased(row[u], Len(ledger[u]) + 1, w)]
        /\ ledger' = [ledger EXCEPT ![u] = Append(@, "leased")]
  BY DEF LeaseNextTask
<1>2. u \in Task
  BY DEF NextToLease, Ready
<1>3. CASE t # u
  <2>1. row'[t] = row[t] /\ ledger'[t] = ledger[t]
    BY <1>1, <1>3 DEF RetryInv, TypeOK
  <2> QED
    BY <2>1, KeptRetries DEF KeepsExpired
<1>4. CASE t = u
  <2> DEFINE n == Len(ledger[t]) + 1
             leased == Leased(row[t], n, w)
  <2>1. ledger[t] \in Seq(AttemptStatus) /\ "leased" \in AttemptStatus
    BY DEF RetryInv, TypeOK, AttemptStatus, RowStatus
  <2>2. /\ row[t] \in Row /\ n \in Nat /\ n # 0
        /\ DOMAIN ledger[t] = 1..Len(ledger[t])
    BY <2>1, LenProperties DEF RetryInv, TypeOK
  <2>3. row'[t] = leased /\ ledger'[t] = Append(ledger[t], "leased")
    BY <1>1, <1>4 DEF RetryInv, TypeOK
  <2>4. /\ Len(ledger'[t]) = n
        /\ ledger'[t] \in Seq(AttemptStatus)
        /\ \A i \in 1..Len(ledger[t]) : ledger'[t][i] = ledger[t][i]
        /\ ledger'[t][n] = "leased"
    BY <2>1, <2>3, AppendProperties
  <2>5. DOMAIN ledger'[t] = 1..n
    BY <2>4, LenProperties
  <2>6. leased.lease = n /\ leased.retry = row[t].retry
    BY <2>2, LeasedRowType
  <2>7. ExpiredOf(t)' = ExpiredOf(t)
    BY <2>1, <2>2, <2>4, <2>5, LenProperties DEF ExpiredOf
  <2>8. row[t].retry = Cardinality(ExpiredOf(t))
    BY DEF RetryInv, RetriesAreExpiries, ExpiredOf
  <2> HIDE DEF leased, n
  <2>9. row'[t].lease = n /\ row'[t].retry = Cardinality(ExpiredOf(t)')
    BY <2>3, <2>6, <2>7, <2>8
  <2>10. n \in DOMAIN ledger'[t] /\ ledger'[t][n] # "expired"
    BY <2>2, <2>4, <2>5
  <2> QED
    BY <2>9, <2>10
<1> QED
  BY <1>3, <1>4

LEMMA ExpiredRetries ==
    ASSUME RetryInv, ExpireLeases, NEW t \in Task
    PROVE  /\ row'[t].lease # 0 =>
                row'[t].lease \in DOMAIN ledger'[t] /\ ledger'[t][row'[t].lease] # "expired"
           /\ row'[t].retry = Cardinality(ExpiredOf(t)')
<1>0. TypeOK
  BY DEF RetryInv
<1>1. CASE t \notin Lapsed
  <2>1. row'[t] = row[t] /\ ledger'[t] = ledger[t]
    BY <1>1 DEF ExpireLeases
  <2> QED
    BY <2>1, KeptRetries DEF KeepsExpired
<1>2. CASE t \in Lapsed
  <2> DEFINE n == row[t].lease
  <2>1. ledger[t] \in Seq(AttemptStatus) /\ DOMAIN ledger[t] = 1..Len(ledger[t])
    BY <1>0, LenProperties DEF TypeOK
  <2>2. n \in DOMAIN ledger[t] /\ ledger[t][n] # "expired"
    BY <1>2 DEF Lapsed, RetryInv, LeaseIsUnexpired
  <2>3. row'[t].retry = row[t].retry + 1 /\ row'[t].lease = 0
    BY <1>0, <1>2, ExpireRowType DEF ExpireLeases
  <2>4. ledger'[t] = [ledger[t] EXCEPT ![n] = "expired"]
    BY <1>2 DEF ExpireLeases, ExpireAttempt
  <2> HIDE DEF n
  <2>5. ExpiredOf(t)' = ExpiredOf(t) \cup {n}
    BY <2>1, <2>2, <2>4 DEF ExpiredOf
  <2>6. n \notin ExpiredOf(t)
    BY <2>2 DEF ExpiredOf
  <2>7. IsFiniteSet(ExpiredOf(t))
    <3>1. IsFiniteSet(1..Len(ledger[t]))
      BY <2>1, FS_Interval, LenProperties
    <3> QED
      BY <2>1, <3>1, FS_Subset DEF ExpiredOf
  <2>8. Cardinality(ExpiredOf(t)') = Cardinality(ExpiredOf(t)) + 1
    BY <2>5, <2>6, <2>7, FS_AddElement
  <2>9. row[t].retry = Cardinality(ExpiredOf(t))
    BY DEF RetryInv, RetriesAreExpiries, ExpiredOf
  <2> QED
    BY <2>3, <2>8, <2>9
<1> QED
  BY <1>1, <1>2

\* A write of a result, of a start or of a renewal to the attempt a row points to.
LEMMA WriteKeepsExpired ==
    ASSUME TypeOK, NEW u \in Task, NEW s \in RowStatus, NEW t \in Task,
           ledger' = [ledger EXCEPT ![u][row[u].lease] = s],
           row'[t].retry = row[t].retry, row'[t].lease \in {row[t].lease, 0}
    PROVE  KeepsExpired(t)
<1>1. ledger[t] \in Seq(AttemptStatus)
  BY DEF TypeOK
<1>2. ledger'[t] = IF t = u THEN [ledger[t] EXCEPT ![row[t].lease] = s] ELSE ledger[t]
  BY DEF TypeOK
<1>3. s # "expired"
  BY DEF RowStatus, TaskStatus
<1> QED
  BY <1>1, <1>2, <1>3 DEF KeepsExpired

LEMMA WorkerKeepsExpired ==
    ASSUME TypeOK, NEW w \in Worker, WorkerStep(w) \/ WorkerTrouble(w), NEW t \in Task
    PROVE  KeepsExpired(t)
<1>0. /\ row[t] \in Row /\ worker[w] \in WorkerState /\ TaskOf(w) \in Task
      /\ worker[w].file \in File /\ worker[w].receipt \in TaskStatus
  BY DEF TypeOK, WorkerState, TaskOf
<1>1. CASE StartTask(w)
  <2>1. row'[t].retry = row[t].retry /\ row'[t].lease = row[t].lease
    BY <1>0, <1>1 DEF StartTask, TypeOK, Row
  <2>2. "in-progress" \in RowStatus
    BY DEF RowStatus, TaskStatus
  <2> QED
    BY <1>0, <1>1, <2>1, <2>2, WriteKeepsExpired DEF StartTask
<1>2. CASE PersistResult(w)
  <2>1. row'[t] = PersistRow(w, worker[w].file, t)
    BY <1>2 DEF PersistResult
  <2>2. row'[t].retry = row[t].retry /\ row'[t].lease \in {row[t].lease, 0}
    BY <1>0, <2>1, PersistRowType
  <2> QED
    BY <1>0, <1>2, <2>2, WriteKeepsExpired DEF PersistResult, RowStatus
<1>3. CASE row' = row /\ ledger' = ledger
  BY <1>3 DEF KeepsExpired
<1> QED
  BY <1>1, <1>2, <1>3
     DEF WorkerStep, PlainStep, WorkerTrouble, StartRejected, MaterializeClaim, MaterializeFails, Execute, ExecuteWith,
         WriteStopped, PersistFails, ExecutionThrows, HeartbeatRejected, HeartbeatErrors, Crash,
         tables

LEMMA StepRetries ==
    ASSUME RetryInv, [Next]_vars
    PROVE  RetryInv'
<1>1. TypeOK'
  BY StepType DEF RetryInv
<1>2. SUFFICES ASSUME NEW t \in Task
               PROVE  /\ row'[t].lease # 0 =>
                            /\ row'[t].lease \in DOMAIN ledger'[t]
                            /\ ledger'[t][row'[t].lease] # "expired"
                      /\ row'[t].retry = Cardinality(ExpiredOf(t)')
  BY <1>1 DEF RetryInv, LeaseIsUnexpired, RetriesAreExpiries, ExpiredOf
<1>3. CASE \E w \in Worker : LeaseNextTask(w)
  BY <1>3, LeasedRetries
<1>4. CASE \E w \in Worker : WorkerStep(w) \/ WorkerTrouble(w)
  BY <1>4, WorkerKeepsExpired, KeptRetries DEF RetryInv
<1>5. CASE SweepLeases \/ ExpireCommand
  BY <1>5, ExpiredRetries DEF SweepLeases, ExpireCommand
<1>6. CASE \E u \in Task : LeaseLapses(u)
  <2>1. \A u \in Task : row[u] \in Row
    BY DEF RetryInv, TypeOK
  <2>2. KeepsExpired(t)
    BY <1>6, <2>1 DEF LeaseLapses, KeepsExpired, RetryInv, TypeOK, Row
  <2> QED
    BY <2>2, KeptRetries
<1>7. CASE (\E w \in Worker : StopDraining(w) \/ RunLeasedTask(w)) \/ PauseOrResume \/ UNCHANGED vars
  <2>1. KeepsExpired(t)
    BY <1>7 DEF StopDraining, RunLeasedTask, PauseOrResume, vars, tables, KeepsExpired
  <2> QED
    BY <2>1, KeptRetries
<1>8. CASE \E w \in Worker : Heartbeat(w)
  <2>1. PICK w \in Worker : Heartbeat(w)
    BY <1>8
  <2>2. TaskOf(w) \in Task /\ row[TaskOf(w)].status \in RowStatus
    BY DEF RetryInv, TypeOK, WorkerState, TaskOf, Row
  <2>3. KeepsExpired(t)
    BY <2>1, <2>2, WriteKeepsExpired DEF Heartbeat, RetryInv
  <2> QED
    BY <2>3, KeptRetries
<1> QED
  BY <1>3, <1>4, <1>5, <1>6, <1>7, <1>8 DEF Next

\* The retry counter of a task is the number of its expired attempts, however late
\* results come and whatever stale snapshots overwrite (expirePlatformLeases).
THEOREM RetriesCountExpiries == Spec => []RetriesAreExpiries
<1>1. Init => RetryInv
  <2> SUFFICES ASSUME Init
               PROVE  LeaseIsUnexpired /\ RetriesAreExpiries
    BY InitType DEF RetryInv
  <2>1. \A t \in Task : row[t].lease = 0 /\ row[t].retry = 0 /\ ledger[t] = <<>>
    BY DEF Init
  <2>2. \A t \in Task : {n \in DOMAIN ledger[t] : ledger[t][n] = "expired"} = {}
    BY <2>1
  <2> QED
    BY <2>1, <2>2, FS_EmptySet DEF LeaseIsUnexpired, RetriesAreExpiries
<1>2. RetryInv /\ [Next]_vars => RetryInv'
  BY StepRetries
<1>3. RetryInv => RetriesAreExpiries
  BY DEF RetryInv
<1> QED
  BY <1>1, <1>2, <1>3, PTL DEF Spec

-----------------------------------------------------------------------------
(* Rows, ledger and workers implement the leases of TaskLease, for every   *)
(* task graph, every policy, every number of workers and every fault.      *)

\* A worker sets out on an attempt of its task.
GivenIsAttempt ==
    \A w \in Worker : Working(w) => worker[w].given \in DOMAIN ledger[TaskOf(w)]

\* A row points to an attempt if and only if it names a holder.
LeaseHasOwner == \A t \in Task : row[t].lease # 0 <=> row[t].owner # NoWorker

FenceInv == RetryInv /\ GivenIsAttempt /\ LeaseHasOwner

LEMMA FenceType ==
    ASSUME FenceInv
    PROVE  /\ TypeOK
           /\ \A t \in Task : row[t] \in Row
           /\ \A t \in Task : ledger[t] \in Seq(AttemptStatus)
           /\ \A w \in Worker : worker[w] \in WorkerState /\ TaskOf(w) \in Task
BY DEF FenceInv, RetryInv, TypeOK, WorkerState, TaskOf

-----------------------------------------------------------------------------
(* What a step of one worker leaves to the others.                         *)

KeepsOthers(w) ==
    \A v \in Worker \ {w} :
        Working(v)' = Working(v) /\ TaskOf(v)' = TaskOf(v) /\ worker'[v].given = worker[v].given

LEMMA WriteKeepsOthers ==
    ASSUME TypeOK, NEW w \in Worker, NEW f, NEW state, WriteFile(w, f, state)
    PROVE  KeepsOthers(w)
<1> SUFFICES ASSUME NEW v \in Worker \ {w}
             PROVE  /\ worker'[v].phase = worker[v].phase
                    /\ worker'[v].task = worker[v].task
                    /\ worker'[v].given = worker[v].given
  BY DEF KeepsOthers, Working, TaskOf
<1>1. worker[v] \in WorkerState
  BY DEF TypeOK
<1>2. worker'[v] = worker[v] \/ worker'[v] = [worker[v] EXCEPT !.file = f]
  BY DEF WriteFile
<1> QED
  BY <1>1, <1>2 DEF WorkerState

LEMMA ChangeKeepsOthers ==
    ASSUME TypeOK, NEW w \in Worker, NEW state, worker' = [worker EXCEPT ![w] = state]
    PROVE  KeepsOthers(w)
BY DEF KeepsOthers, Working, TaskOf, TypeOK

LEMMA WorkerKeepsOthers ==
    ASSUME TypeOK, NEW w \in Worker, WorkerStep(w) \/ WorkerTrouble(w)
    PROVE  KeepsOthers(w)
<1>1. ASSUME NEW f, NEW o, NEW phase, ApplyTo(f, w, o, phase)
      PROVE  KeepsOthers(w)
  <2>1. PICK next, state : WriteFile(w, next, state)
    BY <1>1 DEF ApplyTo
  <2> QED
    BY <2>1, WriteKeepsOthers
<1>2. ASSUME Finish(w) \/ Leave(w, "idle")
      PROVE  KeepsOthers(w)
  <2>1. PICK phase : worker' = [worker EXCEPT ![w] = Resting(phase)]
    BY <1>2 DEF Finish, Leave
  <2> QED
    BY <2>1, ChangeKeepsOthers
<1>3. ASSUME NEW phase, worker' = [worker EXCEPT ![w].phase = phase]
      PROVE  KeepsOthers(w)
  <2>1. worker' = [worker EXCEPT ![w] = [worker[w] EXCEPT !.phase = phase]]
    BY <1>3
  <2> QED
    BY <2>1, ChangeKeepsOthers
<1>4. CASE StartTask(w) \/ PersistFails(w) \/ ExecutionThrows(w)
  BY <1>2, <1>3, <1>4 DEF StartTask, PersistFails, ExecutionThrows
<1>5. CASE \/ StartRejected(w) \/ MaterializeFails(w) \/ PersistResult(w)
           \/ HeartbeatRejected(w) \/ Crash(w)
  BY <1>2, <1>3, <1>5
     DEF StartRejected, MaterializeFails, PersistResult, HeartbeatRejected, Crash
<1>6. CASE MaterializeClaim(w)
  BY <1>6, WriteKeepsOthers DEF MaterializeClaim
<1>7. CASE Execute(w) \/ WriteStopped(w) \/ HeartbeatErrors(w)
  BY <1>1, <1>7 DEF Execute, ExecuteWith, WriteStopped, HeartbeatErrors
<1> QED
  BY <1>4, <1>5, <1>6, <1>7 DEF WorkerStep, PlainStep, WorkerTrouble

-----------------------------------------------------------------------------
(* The invariant.                                                          *)

\* A step that begins no work and takes no attempt away.
LEMMA KeptFence ==
    ASSUME FenceInv, KeepsWork, KeepsOwners,
           \A t \in Task : DOMAIN ledger'[t] = DOMAIN ledger[t]
    PROVE  GivenIsAttempt' /\ LeaseHasOwner'
<1>1. GivenIsAttempt'
  BY FenceType DEF FenceInv, GivenIsAttempt, KeepsWork
<1>2. LeaseHasOwner'
  BY DEF FenceInv, LeaseHasOwner, KeepsOwners
<1> QED
  BY <1>1, <1>2

LEMMA LeaseFence ==
    ASSUME FenceInv, NEW w \in Worker, LeaseNextTask(w)
    PROVE  GivenIsAttempt' /\ LeaseHasOwner'
<1>1. PICK t \in NextToLease :
        /\ row' = [row EXCEPT ![t] = Leased(row[t], Len(ledger[t]) + 1, w)]
        /\ ledger' = [ledger EXCEPT ![t] = Append(@, "leased")]
        /\ worker' = [worker EXCEPT ![w] =
                        [Resting("leased") EXCEPT !.task = t, !.given = Len(ledger[t]) + 1]]
  BY DEF LeaseNextTask
<1> DEFINE n == Len(ledger[t]) + 1
           leased == Leased(row[t], n, w)
<1>2. t \in Task /\ ledger[t] \in Seq(AttemptStatus) /\ "leased" \in AttemptStatus
  BY FenceType DEF NextToLease, Ready, AttemptStatus, RowStatus
<1>3. row[t] \in Row /\ n \in Nat /\ n # 0
  BY <1>2, FenceType, LenProperties
<1>4. leased.owner = IdOf[w] /\ leased.lease = n /\ IdOf[w] # NoWorker
  BY <1>3, LeasedRowType, PlatformAssumption
<1>5. /\ DOMAIN ledger[t] = 1..Len(ledger[t])
      /\ DOMAIN Append(ledger[t], "leased") = 1..n
  BY <1>2, LenProperties, AppendProperties
<1>6. /\ row'[t] = leased /\ ledger'[t] = Append(ledger[t], "leased")
      /\ \A u \in Task \ {t} : row'[u] = row[u] /\ ledger'[u] = ledger[u]
  BY <1>1, <1>2, FenceType DEF TypeOK
<1>7. /\ worker'[w].task = t /\ worker'[w].given = n
      /\ \A v \in Worker \ {w} : worker'[v] = worker[v]
  BY <1>1, FenceType DEF TypeOK, Resting
<1>8. LeaseHasOwner'
  <2> HIDE DEF n, leased
  <2> QED
    BY <1>3, <1>4, <1>6 DEF LeaseHasOwner, FenceInv
<1>9. n \in DOMAIN ledger'[t] /\ DOMAIN ledger[t] \subseteq DOMAIN ledger'[t]
  BY <1>2, <1>5, <1>6, LenProperties
<1> HIDE DEF n, leased
<1>10. \A v \in Worker : Working(v)' => worker'[v].given \in DOMAIN ledger'[TaskOf(v)']
  <2> SUFFICES ASSUME NEW v \in Worker, Working(v)'
               PROVE  worker'[v].given \in DOMAIN ledger'[TaskOf(v)']
    OBVIOUS
  <2>1. CASE v = w
    BY <1>7, <1>9, <2>1 DEF TaskOf
  <2>2. CASE v # w
    <3>1. Working(v) /\ TaskOf(v)' = TaskOf(v) /\ worker'[v].given = worker[v].given
      BY <1>7, <2>2 DEF Working, TaskOf
    <3>2. worker[v].given \in DOMAIN ledger[TaskOf(v)] /\ TaskOf(v) \in Task
      BY <3>1, FenceType DEF FenceInv, GivenIsAttempt
    <3> QED
      BY <1>6, <1>9, <3>1, <3>2
  <2> QED
    BY <2>1, <2>2
<1> QED
  BY <1>8, <1>10 DEF GivenIsAttempt

\* The attempt of a row that has an id.
LEMMA OwnedAttempt ==
    ASSUME FenceInv, NEW t \in Task, row[t].owner # NoWorker
    PROVE  /\ row[t].lease \in DOMAIN ledger[t]
           /\ ledger[t][row[t].lease] # "expired"
           /\ Holder(t) = <<row[t].owner, row[t].lease>>
BY DEF FenceInv, LeaseHasOwner, RetryInv, LeaseIsUnexpired, Holder

LEMMA RerunFence ==
    ASSUME FenceInv, NEW w \in Worker, RunLeasedTask(w)
    PROVE  GivenIsAttempt' /\ LeaseHasOwner'
<1>1. PICK t \in Task :
        /\ row[t].owner = IdOf[w]
        /\ worker' = [worker EXCEPT ![w] =
                        [Resting("leased") EXCEPT !.task = t, !.given = row[t].lease]]
  BY DEF RunLeasedTask
<1>2. row[t].lease \in DOMAIN ledger[t]
  BY <1>1, OwnedAttempt, PlatformAssumption
<1>3. /\ worker'[w].task = t /\ worker'[w].given = row[t].lease
      /\ \A v \in Worker \ {w} : worker'[v] = worker[v]
  BY <1>1, FenceType DEF TypeOK, Resting
<1>4. row' = row /\ ledger' = ledger
  BY DEF RunLeasedTask, tables
<1> QED
  BY <1>2, <1>3, <1>4 DEF GivenIsAttempt, LeaseHasOwner, FenceInv, Working, TaskOf

LEMMA WorkerFence ==
    ASSUME FenceInv, NEW w \in Worker, WorkerStep(w) \/ WorkerTrouble(w)
    PROVE  GivenIsAttempt' /\ LeaseHasOwner'
<1>1. KeepsWork /\ KeepsOwners
  BY FenceType, WorkerKeepsWork, WorkerKeepsOwners
<1>2. \A t \in Task : DOMAIN ledger'[t] = DOMAIN ledger[t]
  BY FenceType, WorkerKeepsExpired DEF KeepsExpired
<1> QED
  BY <1>1, <1>2, KeptFence

LEMMA StepFence ==
    ASSUME FenceInv, [Next]_vars
    PROVE  FenceInv'
<1>0. TypeOK /\ RetryInv'
  BY FenceType, StepRetries DEF FenceInv
<1> SUFFICES GivenIsAttempt' /\ LeaseHasOwner'
  BY <1>0 DEF FenceInv
<1>1. CASE \E w \in Worker : LeaseNextTask(w)
  BY <1>1, LeaseFence
<1>2. CASE \E w \in Worker : WorkerStep(w) \/ WorkerTrouble(w)
  BY <1>2, WorkerFence
<1>3. CASE SweepLeases \/ ExpireCommand
  <2>1. ExpireLeases
    BY <1>3 DEF SweepLeases, ExpireCommand
  <2>2. KeepsOwners
    BY <1>0, <2>1, ExpireRowType DEF ExpireLeases, KeepsOwners
  <2>3. KeepsWork
    BY <2>1 DEF ExpireLeases, KeepsWork, Working, TaskOf
  <2>4. \A t \in Task : DOMAIN ledger'[t] = DOMAIN ledger[t]
    BY <2>1 DEF ExpireLeases, ExpireAttempt
  <2> QED
    BY <2>2, <2>3, <2>4, KeptFence
<1>4. CASE \E w \in Worker : StopDraining(w)
  <2>1. KeepsWork
    BY <1>0, <1>4, LeaveKeepsWork DEF StopDraining
  <2>2. KeepsOwners /\ UNCHANGED ledger
    BY <1>4 DEF StopDraining, tables, KeepsOwners
  <2> QED
    BY <2>1, <2>2, KeptFence
<1>5. CASE \E t \in Task : LeaseLapses(t)
  <2>1. KeepsOwners
    BY <1>0, <1>5, FenceType DEF LeaseLapses, KeepsOwners, TypeOK, Row
  <2>2. KeepsWork /\ UNCHANGED ledger
    BY <1>5 DEF LeaseLapses, KeepsWork, Working, TaskOf
  <2> QED
    BY <2>1, <2>2, KeptFence
<1>6. CASE PauseOrResume \/ UNCHANGED vars
  <2>1. KeepsOwners /\ KeepsWork /\ UNCHANGED ledger
    BY <1>6 DEF PauseOrResume, vars, tables, KeepsOwners, KeepsWork, Working, TaskOf
  <2> QED
    BY <2>1, KeptFence
<1>7. CASE \E w \in Worker : RunLeasedTask(w)
  BY <1>7, RerunFence
<1>8. CASE \E w \in Worker : Heartbeat(w)
  <2>1. KeepsOwners /\ KeepsWork
    BY <1>8 DEF Heartbeat, KeepsOwners, KeepsWork, Working, TaskOf
  <2>2. \A t \in Task : DOMAIN ledger'[t] = DOMAIN ledger[t]
    BY <1>0, <1>8 DEF Heartbeat, TypeOK
  <2> QED
    BY <2>1, <2>2, KeptFence
<1> QED
  BY <1>1, <1>2, <1>3, <1>4, <1>5, <1>6, <1>7, <1>8 DEF Next

-----------------------------------------------------------------------------
(* Steps as steps of TaskLease.                                            *)

Logs == [t \in Task |-> AttemptLog(t)]

Holders == [t \in Task |-> Holder(t)]

Beliefs == [w \in Worker |-> Given(w)]

LeaseState == {"open", "reported", "expired"}

LEMMA LogType ==
    ASSUME FenceInv, NEW t \in Task
    PROVE  /\ AttemptLog(t) \in Seq(LeaseState)
           /\ Len(AttemptLog(t)) = Len(ledger[t])
           /\ DOMAIN AttemptLog(t) = 1..Len(ledger[t])
           /\ DOMAIN ledger[t] = 1..Len(ledger[t])
           /\ Len(ledger[t]) \in Nat
<1>1. DOMAIN ledger[t] = 1..Len(ledger[t]) /\ Len(ledger[t]) \in Nat
  BY FenceType, LenProperties
<1>2. \A s : AttemptAs(s) \in LeaseState
  BY DEF AttemptAs, LeaseState
<1>3. AttemptLog(t) \in Seq(LeaseState)
  BY <1>1, <1>2 DEF AttemptLog
<1>4. DOMAIN AttemptLog(t) = 1..Len(ledger[t])
  BY <1>1 DEF AttemptLog
<1>5. DOMAIN AttemptLog(t) = 1..Len(AttemptLog(t)) /\ Len(AttemptLog(t)) \in Nat
  BY <1>3, LenProperties
<1> QED
  BY <1>1, <1>3, <1>4, <1>5

LEMMA GrantStep ==
    ASSUME FenceInv, NEW w \in Worker, LeaseNextTask(w)
    PROVE  \E t \in Task : Leases!Grant(w, t)
<1>1. PICK t \in NextToLease :
        /\ row' = [row EXCEPT ![t] = Leased(row[t], Len(ledger[t]) + 1, w)]
        /\ ledger' = [ledger EXCEPT ![t] = Append(@, "leased")]
        /\ worker' = [worker EXCEPT ![w] =
                        [Resting("leased") EXCEPT !.task = t, !.given = Len(ledger[t]) + 1]]
  BY DEF LeaseNextTask
<1> DEFINE n == Len(ledger[t]) + 1
           leased == Leased(row[t], n, w)
<1>2. t \in Task /\ ledger[t] \in Seq(AttemptStatus) /\ "leased" \in AttemptStatus
  BY FenceType DEF NextToLease, Ready, AttemptStatus, RowStatus
<1>3. row[t] \in Row /\ n \in Nat /\ n # 0
  BY <1>2, FenceType, LenProperties
<1>4. leased.owner = IdOf[w] /\ leased.lease = n
  BY <1>3, LeasedRowType
<1>5. /\ row'[t] = leased /\ ledger'[t] = Append(ledger[t], "leased")
      /\ \A u \in Task \ {t} : row'[u] = row[u] /\ ledger'[u] = ledger[u]
  BY <1>1, <1>2, FenceType DEF TypeOK
<1>6. /\ worker'[w].task = t /\ worker'[w].given = n /\ worker'[w].phase = "leased"
      /\ \A v \in Worker \ {w} : worker'[v] = worker[v]
  BY <1>1, FenceType DEF TypeOK, Resting
<1>7. Given(w) = NoWorker
  BY DEF LeaseNextTask, Polling, Given, Working
<1>8. AttemptLog(t)' = Append(AttemptLog(t), "open")
  <2>1. /\ ledger'[t] \in Seq(AttemptStatus)
        /\ Len(ledger'[t]) = n
        /\ \A i \in 1..Len(ledger[t]) : ledger'[t][i] = ledger[t][i]
        /\ ledger'[t][n] = "leased"
    BY <1>2, <1>5, AppendProperties
  <2>2. DOMAIN ledger'[t] = 1..n
    BY <2>1, LenProperties
  <2>3. /\ AttemptLog(t) \in Seq(LeaseState) /\ Len(AttemptLog(t)) = Len(ledger[t])
        /\ Len(ledger[t]) \in Nat /\ "open" \in LeaseState
        /\ \A i \in 1..Len(ledger[t]) : AttemptLog(t)[i] = AttemptAs(ledger[t][i])
    BY <1>2, LogType DEF AttemptLog, LeaseState
  <2>4. /\ Append(AttemptLog(t), "open") \in Seq(LeaseState)
        /\ Len(Append(AttemptLog(t), "open")) = n
        /\ \A i \in 1..Len(ledger[t]) :
            Append(AttemptLog(t), "open")[i] = AttemptLog(t)[i]
        /\ Append(AttemptLog(t), "open")[n] = "open"
    BY <2>3, AppendProperties
  <2>5. /\ DOMAIN Append(AttemptLog(t), "open") = 1..n
        /\ Append(AttemptLog(t), "open") \in [1..n -> LeaseState]
    BY <2>4, LenProperties
  <2>6. /\ AttemptLog(t)' = [i \in 1..n |-> AttemptAs(ledger'[t][i])]
        /\ AttemptAs("leased") = "open"
    BY <2>2 DEF AttemptLog, AttemptAs, Held
  <2>7. \A i \in 1..n : AttemptAs(ledger'[t][i]) = Append(AttemptLog(t), "open")[i]
    BY <2>1, <2>3, <2>4, <2>6
  <2> QED
    BY <2>5, <2>6, <2>7
<1>9. \A u \in Task \ {t} : AttemptLog(u)' = AttemptLog(u) /\ Holder(u)' = Holder(u)
  BY <1>5 DEF AttemptLog, Holder
<1>10. Holder(t)' = <<IdOf[w], n>>
  BY <1>3, <1>4, <1>5 DEF Holder
<1>11. Given(w)' = <<t, n>> /\ \A v \in Worker \ {w} : Given(v)' = Given(v)
  BY <1>6 DEF Given, Working, TaskOf
<1>12. Len(Logs[t]) + 1 = n
  BY <1>2, LogType DEF Logs
<1> HIDE DEF n, leased
<1>13. Logs' = [Logs EXCEPT ![t] = Append(@, "open")]
  BY <1>2, <1>8, <1>9 DEF Logs
<1>14. Holders' = [Holders EXCEPT ![t] = <<IdOf[w], n>>]
  BY <1>2, <1>9, <1>10 DEF Holders
<1>15. Beliefs' = [Beliefs EXCEPT ![w] = <<t, n>>] /\ Beliefs[w] = NoWorker
  BY <1>7, <1>11 DEF Beliefs
<1> QED
  BY <1>2, <1>12, <1>13, <1>14, <1>15 DEF Leases!Grant, Logs, Holders, Beliefs

\* A write to an attempt is a write to the log.
AttemptTakes(t, n, s) == ledger' = [ledger EXCEPT ![t][n] = s]

LogTakes(t, n, s) == Logs' = [Logs EXCEPT ![t][n] = AttemptAs(s)]

LEMMA LogWrite ==
    ASSUME FenceInv, NEW t \in Task, NEW n \in DOMAIN ledger[t], NEW s, AttemptTakes(t, n, s)
    PROVE  LogTakes(t, n, s)
<1> USE DEF AttemptTakes, LogTakes
<1>1. /\ ledger'[t] = [ledger[t] EXCEPT ![n] = s]
      /\ \A u \in Task \ {t} : ledger'[u] = ledger[u]
  BY FenceType DEF TypeOK
<1>2. AttemptLog(t)' = [AttemptLog(t) EXCEPT ![n] = AttemptAs(s)]
  <2>1. /\ DOMAIN ledger'[t] = DOMAIN ledger[t] /\ ledger'[t][n] = s
        /\ \A i \in DOMAIN ledger[t] \ {n} : ledger'[t][i] = ledger[t][i]
    BY <1>1
  <2>2. AttemptLog(t)' = [i \in DOMAIN ledger[t] |-> AttemptAs(ledger'[t][i])]
    BY <2>1 DEF AttemptLog
  <2>3. [AttemptLog(t) EXCEPT ![n] = AttemptAs(s)]
            = [i \in DOMAIN ledger[t] |-> IF i = n THEN AttemptAs(s) ELSE AttemptAs(ledger[t][i])]
    BY DEF AttemptLog
  <2>4. \A i \in DOMAIN ledger[t] :
            AttemptAs(ledger'[t][i]) = IF i = n THEN AttemptAs(s) ELSE AttemptAs(ledger[t][i])
    BY <2>1
  <2> QED
    BY <2>2, <2>3, <2>4
<1>3. \A u \in Task \ {t} : AttemptLog(u)' = AttemptLog(u)
  BY <1>1 DEF AttemptLog
<1> QED
  BY <1>2, <1>3 DEF Logs

\* A command that joins takes up the lease its id has.
LEMMA JoinStep ==
    ASSUME FenceInv, NEW w \in Worker, RunLeasedTask(w)
    PROVE  \E t \in Task : Leases!Join(w, t)
<1>1. PICK t \in Task :
        /\ row[t].owner = IdOf[w]
        /\ worker' = [worker EXCEPT ![w] =
                        [Resting("leased") EXCEPT !.task = t, !.given = row[t].lease]]
  BY DEF RunLeasedTask
<1>2. PICK n \in DOMAIN Logs[t] : n = row[t].lease /\ Holders[t] = <<IdOf[w], n>>
  BY <1>1, OwnedAttempt, PlatformAssumption DEF Logs, AttemptLog, Holders
<1>3. /\ worker'[w].task = t /\ worker'[w].given = n /\ worker'[w].phase = "leased"
      /\ \A v \in Worker \ {w} : worker'[v] = worker[v]
  BY <1>1, <1>2, FenceType DEF TypeOK, Resting
<1>4. row' = row /\ ledger' = ledger
  BY DEF RunLeasedTask, tables
<1>5. Logs' = Logs /\ Holders' = Holders
  BY <1>4 DEF Logs, Holders, AttemptLog, Holder
<1>6. Given(w)' = <<t, n>> /\ \A v \in Worker \ {w} : Given(v)' = Given(v)
  BY <1>3 DEF Given, Working, TaskOf
<1>7. Beliefs' = [Beliefs EXCEPT ![w] = <<t, n>>] /\ Beliefs[w] = NoWorker
  BY <1>6 DEF Beliefs, Given, RunLeasedTask, Working
<1> QED
  BY <1>2, <1>5, <1>7 DEF Leases!Join, Logs, Holders, Beliefs

\* A write to the attempt of a row that has the worker's id, with the row left as it is
\* or released, and the worker left at its task or let go.
LEMMA WriteStep ==
    ASSUME FenceInv, NEW w \in Worker, Working(w), Holds(w), NEW s \in RowStatus,
           NEW t \in Task, t = TaskOf(w),
           ledger' = [ledger EXCEPT ![t][row[t].lease] = s],
           Holder(t)' = NoWorker \/ Holder(t)' = Holder(t),
           \A u \in Task \ {t} : Holder(u)' = Holder(u),
           Given(w)' = NoWorker \/ Given(w)' = Given(w),
           \A v \in Worker \ {w} : Given(v)' = Given(v)
    PROVE  Leases!Write(w)
<1>1. t = TaskOf(w)
  OBVIOUS
<1>2. PICK n \in DOMAIN ledger[t] :
        n = row[t].lease /\ ledger[t][n] # "expired" /\ Holder(t) = <<IdOf[w], n>>
  BY <1>1, OwnedAttempt, PlatformAssumption DEF Holds
<1>3. PICK m \in DOMAIN ledger[t] : Given(w) = <<t, m>>
  <2>1. worker[w].given \in DOMAIN ledger[t]
    BY <1>1 DEF FenceInv, GivenIsAttempt
  <2>2. Given(w) = <<t, worker[w].given>>
    BY <1>1 DEF Given
  <2> QED
    BY <2>1, <2>2
<1>4. Logs' = [Logs EXCEPT ![t][n] = AttemptAs(s)]
  <2>1. AttemptTakes(t, n, s)
    BY <1>2 DEF AttemptTakes
  <2>2. LogTakes(t, n, s)
    BY <2>1, LogWrite
  <2> QED
    BY <2>2 DEF LogTakes
<1>5. AttemptAs(s) \in {"open", "reported"}
  BY DEF AttemptAs, RowStatus, TaskStatus
<1>6. DOMAIN Logs[t] = DOMAIN ledger[t] /\ Logs[t][n] # "expired"
  BY <1>2 DEF Logs, AttemptLog, AttemptAs
<1>7. Holders[t] = <<IdOf[w], n>> /\ \E after \in {NoWorker, Holders[t]} :
                                        Holders' = [Holders EXCEPT ![t] = after]
  <2>1. Holders' = [Holders EXCEPT ![t] = Holder(t)']
    BY <1>1 DEF Holders
  <2>2. Holders[t] = Holder(t)
    BY DEF Holders
  <2>3. Holder(t)' \in {NoWorker, Holder(t)}
    BY <1>1
  <2> QED
    BY <1>2, <2>1, <2>2, <2>3
<1>8. Beliefs[w] = <<t, m>> /\ Beliefs' \in {Beliefs, [Beliefs EXCEPT ![w] = NoWorker]}
  <2>1. Beliefs[w] = Given(w)
    BY DEF Beliefs
  <2>2. Beliefs' = [Beliefs EXCEPT ![w] = Given(w)']
    BY DEF Beliefs
  <2>3. Given(w)' = Given(w) => Beliefs' = Beliefs
    BY <2>1, <2>2 DEF Beliefs
  <2> QED
    BY <1>3, <2>1, <2>2, <2>3
<1>9. /\ \E k \in DOMAIN Logs[t] : Beliefs[w] = <<t, k>>
      /\ \E outcome \in {"open", "reported"} : Logs' = [Logs EXCEPT ![t][n] = outcome]
  BY <1>3, <1>4, <1>5, <1>6, <1>8
<1>10. \E u \in Task : \E i \in DOMAIN Logs[u] :
        /\ \E k \in DOMAIN Logs[u] : Beliefs[w] = <<u, k>>
        /\ Holders[u] = <<IdOf[w], i>>
        /\ Logs[u][i] # "expired"
        /\ \E after \in {NoWorker, Holders[u]} : Holders' = [Holders EXCEPT ![u] = after]
        /\ \E outcome \in {"open", "reported"} : Logs' = [Logs EXCEPT ![u][i] = outcome]
  <2>1. n \in DOMAIN Logs[t]
    BY <1>6
  <2> WITNESS t \in Task, n \in DOMAIN Logs[t]
  <2> QED
    BY <1>6, <1>7, <1>9
<1> QED
  BY <1>8, <1>10, Zenon DEF Leases!Write, Logs, Holders, Beliefs

LEMMA StartStep ==
    ASSUME FenceInv, NEW w \in Worker, StartTask(w)
    PROVE  Leases!Write(w)
<1>1. Working(w) /\ Holds(w) /\ "in-progress" \in RowStatus
  BY DEF StartTask, Working, RowStatus, TaskStatus
<1>2. PICK t \in Task : t = TaskOf(w)
  BY FenceType
<1>3. /\ worker' = [worker EXCEPT ![w].phase = "started"]
      /\ row' = [row EXCEPT ![t].status = "in-progress"]
      /\ ledger' = [ledger EXCEPT ![t][row[t].lease] = "in-progress"]
  BY <1>2 DEF StartTask
<1>4. \A u \in Task : Holder(u)' = Holder(u)
  <2>1. \A u \in Task : row'[u].owner = row[u].owner /\ row'[u].lease = row[u].lease
    BY <1>3, FenceType DEF TypeOK, Row
  <2> QED
    BY <2>1 DEF Holder
<1>5. \A v \in Worker : Given(v)' = Given(v)
  <2>1. \A v \in Worker : Working(v)' = Working(v) /\ TaskOf(v)' = TaskOf(v)
                           /\ worker'[v].given = worker[v].given
    BY <1>1, <1>3, FenceType DEF TypeOK, WorkerState, Working, TaskOf
  <2> QED
    BY <2>1 DEF Given
<1> QED
  BY <1>1, <1>2, <1>3, <1>4, <1>5, WriteStep

LEMMA HeartbeatStep ==
    ASSUME FenceInv, NEW w \in Worker, Heartbeat(w)
    PROVE  Leases!Write(w)
<1>1. PICK t \in Task : t = TaskOf(w)
  BY FenceType
<1>2. Working(w) /\ Holds(w) /\ row[t].status \in RowStatus
  BY <1>1, FenceType DEF Heartbeat, Working, Row
<1>3. \A u \in Task : Holder(u)' = Holder(u)
  BY DEF Heartbeat, Holder
<1>4. \A v \in Worker : Given(v)' = Given(v)
  BY DEF Heartbeat, Given, Working, TaskOf
<1>5. ledger' = [ledger EXCEPT ![t][row[t].lease] = row[t].status]
  BY <1>1 DEF Heartbeat
<1> QED
  BY <1>1, <1>2, <1>3, <1>4, <1>5, WriteStep

LEMMA ReportStep ==
    ASSUME FenceInv, NEW w \in Worker, PersistResult(w)
    PROVE  Leases!Write(w)
<1>1. PICK t \in Task : t = TaskOf(w)
  BY FenceType
<1>2. Working(w) /\ Holds(w)
  BY DEF PersistResult, Persistable, Working
<1>3. /\ TypeOK /\ worker[w].receipt \in TaskStatus /\ worker[w].file \in File
      /\ worker[w].receipt \in RowStatus
  BY FenceType DEF WorkerState, RowStatus
<1>4. ASSUME NEW u \in Task
      PROVE  /\ row'[u] = PersistRow(w, worker[w].file, u)
             /\ \/ row'[u].lease = row[u].lease /\ row'[u].owner = row[u].owner
                \/ row'[u].lease = 0
  BY <1>3, PersistRowType DEF PersistResult
<1>5. Holder(t)' = NoWorker \/ Holder(t)' = Holder(t)
  BY <1>4 DEF Holder
<1>6. ASSUME NEW u \in Task \ {t}
      PROVE  Holder(u)' = Holder(u)
  <2>1. row'[u].lease = row[u].lease /\ row'[u].owner = row[u].owner
    BY <1>1, <1>3, <1>4, FenceType DEF PersistRow, Overwritten, Row
  <2> QED
    BY <2>1 DEF Holder
<1>7. Given(w)' = NoWorker
  BY <1>3 DEF PersistResult, Finish, Leave, Resting, Given, Working, TypeOK
<1>8. \A v \in Worker \ {w} : Given(v)' = Given(v)
  BY <1>3, WorkerKeepsOthers DEF WorkerStep, KeepsOthers, Given
<1>9. ledger' = [ledger EXCEPT ![t][row[t].lease] = worker[w].receipt]
  BY <1>1 DEF PersistResult
<1> QED
  BY <1>1, <1>2, <1>3, <1>5, <1>6, <1>7, <1>8, <1>9, WriteStep

LEMMA OtherWorkerStep ==
    ASSUME FenceInv, NEW w \in Worker, WorkerStep(w) \/ WorkerTrouble(w),
           ~StartTask(w), ~PersistResult(w)
    PROVE  Leases!GiveUp(w) \/ UNCHANGED <<Logs, Holders, Beliefs>>
<1>1. row' = row /\ ledger' = ledger
  BY DEF WorkerStep, PlainStep, WorkerTrouble, StartRejected, MaterializeClaim, MaterializeFails,
         Execute, ExecuteWith, WriteStopped, PersistFails, ExecutionThrows, HeartbeatRejected,
         HeartbeatErrors, Crash, tables
<1>2. Logs' = Logs /\ Holders' = Holders
  BY <1>1 DEF Logs, Holders, AttemptLog, Holder
<1>3. KeepsWork /\ KeepsOthers(w)
  BY FenceType, WorkerKeepsWork, WorkerKeepsOthers
<1>4. \A v \in Worker \ {w} : Given(v)' = Given(v)
  BY <1>3 DEF KeepsOthers, Given
<1>5. Given(w)' = Given(w) \/ Given(w)' = NoWorker
  BY <1>3 DEF KeepsWork, Given
<1>6. Beliefs' = Beliefs \/ Beliefs' = [Beliefs EXCEPT ![w] = NoWorker]
  BY <1>4, <1>5 DEF Beliefs
<1> QED
  BY <1>2, <1>6 DEF Leases!GiveUp, Logs, Holders, Beliefs

LEMMA ExpireStep ==
    ASSUME FenceInv, ExpireLeases
    PROVE  Leases!Expire
<1>1. ASSUME NEW t \in Lapsed
      PROVE  /\ t \in Task /\ Leases!Held(t)
             /\ Holders[t][2] = row[t].lease
             /\ Logs[t][row[t].lease] # "expired"
             /\ AttemptLog(t)' = [AttemptLog(t) EXCEPT ![row[t].lease] = "expired"]
             /\ Holder(t)' = NoWorker
  <2> DEFINE n == row[t].lease
  <2>1. t \in Task /\ n # 0
    BY DEF Lapsed
  <2>2. row[t].owner \in WorkerId /\ n \in DOMAIN ledger[t] /\ ledger[t][n] # "expired"
    BY <2>1, FenceType DEF FenceInv, LeaseHasOwner, RetryInv, LeaseIsUnexpired, Row
  <2>3. Holders[t] = <<row[t].owner, n>> /\ n \in DOMAIN Logs[t]
    BY <2>1, <2>2 DEF Holders, Holder, Logs, AttemptLog
  <2>4. Leases!Held(t)
    BY <2>2, <2>3 DEF Leases!Held, Logs, Holders
  <2>5. Logs[t][n] # "expired"
    BY <2>1, <2>2 DEF Logs, AttemptLog, AttemptAs
  <2>6. ledger'[t] = [ledger[t] EXCEPT ![n] = "expired"]
    BY <2>1 DEF ExpireLeases, ExpireAttempt
  <2>7. AttemptLog(t)' = [AttemptLog(t) EXCEPT ![n] = "expired"]
    <3>1. /\ DOMAIN ledger'[t] = DOMAIN ledger[t] /\ ledger'[t][n] = "expired"
          /\ \A i \in DOMAIN ledger[t] \ {n} : ledger'[t][i] = ledger[t][i]
      BY <2>2, <2>6
    <3>2. AttemptAs("expired") = "expired"
      BY DEF AttemptAs, Held
    <3>3. AttemptLog(t)' = [i \in DOMAIN ledger[t] |-> AttemptAs(ledger'[t][i])]
      BY <3>1 DEF AttemptLog
    <3>4. [AttemptLog(t) EXCEPT ![n] = "expired"]
            = [i \in DOMAIN ledger[t] |-> IF i = n THEN "expired" ELSE AttemptAs(ledger[t][i])]
      BY DEF AttemptLog
    <3>5. \A i \in DOMAIN ledger[t] :
            AttemptAs(ledger'[t][i]) = IF i = n THEN "expired" ELSE AttemptAs(ledger[t][i])
      BY <3>1, <3>2
    <3> QED
      BY <3>3, <3>4, <3>5
  <2>8. Holder(t)' = NoWorker
    BY <2>1, FenceType, ExpireRowType DEF ExpireLeases, Holder
  <2> QED
    BY <2>1, <2>3, <2>4, <2>5, <2>7, <2>8
<1>2. \A t \in Task \ Lapsed : AttemptLog(t)' = AttemptLog(t) /\ Holder(t)' = Holder(t)
  BY DEF ExpireLeases, AttemptLog, Holder
<1>3. Logs' = [t \in Task |-> IF t \in Lapsed THEN [Logs[t] EXCEPT ![Holders[t][2]] = "expired"]
                             ELSE Logs[t]]
  BY <1>1, <1>2 DEF Logs
<1>4. Holders' = [t \in Task |-> IF t \in Lapsed THEN NoWorker ELSE Holders[t]]
  BY <1>1, <1>2 DEF Holders
<1>5. Beliefs' = Beliefs
  BY DEF ExpireLeases, Beliefs, Given, Working, TaskOf
<1>6. Lapsed \in SUBSET {t \in Task : Leases!Held(t)}
  BY <1>1
<1>7. \A t \in Lapsed : Logs[t][Holders[t][2]] # "expired"
  BY <1>1
<1>8. /\ \E lapsed \in SUBSET {t \in Task : Leases!Held(t)} :
            /\ \A t \in lapsed : Logs[t][Holders[t][2]] # "expired"
            /\ Logs' = [t \in Task |-> IF t \in lapsed
                                      THEN [Logs[t] EXCEPT ![Holders[t][2]] = "expired"]
                                      ELSE Logs[t]]
            /\ Holders' = [t \in Task |-> IF t \in lapsed THEN NoWorker ELSE Holders[t]]
  BY <1>3, <1>4, <1>6, <1>7, Zenon
<1> QED
  BY <1>5, <1>8, Zenon DEF Leases!Expire, Logs, Holders, Beliefs

LEMMA QuietStep ==
    ASSUME FenceInv,
           \/ \E w \in Worker : StopDraining(w)
           \/ \E t \in Task : LeaseLapses(t)
           \/ PauseOrResume
           \/ UNCHANGED vars
    PROVE  UNCHANGED <<Logs, Holders, Beliefs>>
<1>1. ledger' = ledger
  BY DEF StopDraining, LeaseLapses, PauseOrResume, vars, tables
<1>2. \A t \in Task : row'[t].owner = row[t].owner /\ row'[t].lease = row[t].lease
  <2>1. CASE \E t \in Task : LeaseLapses(t)
    BY <2>1, FenceType DEF LeaseLapses, TypeOK, Row
  <2>2. CASE row' = row
    BY <2>2
  <2> QED
    BY <2>1, <2>2 DEF StopDraining, PauseOrResume, vars, tables
<1>3. \A w \in Worker : Given(w)' = Given(w)
  <2>1. ASSUME NEW w \in Worker, StopDraining(w), NEW v \in Worker
        PROVE  Given(v)' = Given(v)
    BY <2>1, FenceType DEF StopDraining, Leave, Resting, Given, Working, TaskOf, TypeOK
  <2>2. CASE worker' = worker
    BY <2>2 DEF Given, Working, TaskOf
  <2> QED
    BY <2>1, <2>2 DEF LeaseLapses, PauseOrResume, vars
<1>4. Logs' = Logs
  BY <1>1 DEF Logs, AttemptLog
<1>5. Holders' = Holders
  BY <1>2 DEF Holders, Holder
<1>6. Beliefs' = Beliefs
  BY <1>3 DEF Beliefs
<1> QED
  BY <1>4, <1>5, <1>6

LEMMA StepIsLeaseStep ==
    ASSUME FenceInv, [Next]_vars
    PROVE  [Leases!LeaseNext]_(Leases!leaseVars)
<1>0. UNCHANGED <<Logs, Holders, Beliefs>> => UNCHANGED Leases!leaseVars
  BY DEF Leases!leaseVars, Logs, Holders, Beliefs
<1>1. CASE \E w \in Worker : LeaseNextTask(w)
  BY <1>1, GrantStep DEF Leases!LeaseNext
<1>5. CASE \E w \in Worker : RunLeasedTask(w)
  BY <1>5, JoinStep DEF Leases!LeaseNext
<1>6. CASE \E w \in Worker : Heartbeat(w)
  BY <1>6, HeartbeatStep DEF Leases!LeaseNext
<1>2. CASE \E w \in Worker : WorkerStep(w) \/ WorkerTrouble(w)
  <2>1. PICK w \in Worker : WorkerStep(w) \/ WorkerTrouble(w)
    BY <1>2
  <2>2. CASE StartTask(w)
    BY <2>2, StartStep DEF Leases!LeaseNext
  <2>3. CASE PersistResult(w)
    BY <2>3, ReportStep DEF Leases!LeaseNext
  <2>4. CASE ~StartTask(w) /\ ~PersistResult(w)
    BY <1>0, <2>1, <2>4, OtherWorkerStep DEF Leases!LeaseNext
  <2> QED
    BY <2>2, <2>3, <2>4
<1>3. CASE SweepLeases \/ ExpireCommand
  BY <1>3, ExpireStep DEF SweepLeases, ExpireCommand, Leases!LeaseNext
<1>4. CASE \/ \E w \in Worker : StopDraining(w)
           \/ \E t \in Task : LeaseLapses(t)
           \/ PauseOrResume
           \/ UNCHANGED vars
  BY <1>0, <1>4, QuietStep
<1> QED
  BY <1>1, <1>2, <1>3, <1>4, <1>5, <1>6 DEF Next

LEMMA InitFence ==
    ASSUME Init
    PROVE  FenceInv /\ Leases!LeaseInit
<1>1. TypeOK
  BY InitType
<1>2. \A t \in Task : row[t].lease = 0 /\ row[t].retry = 0 /\ ledger[t] = <<>>
  BY DEF Init
<1>9. \A t \in Task : row[t].lease = 0 /\ row[t].owner = NoWorker
  BY DEF Init
<1>3. \A w \in Worker : ~Working(w)
  BY DEF Init, Resting, Working
<1>4. \A t \in Task : {n \in DOMAIN ledger[t] : ledger[t][n] = "expired"} = {}
  BY <1>2
<1>5. RetryInv
  BY <1>1, <1>2, <1>4, FS_EmptySet DEF RetryInv, LeaseIsUnexpired, RetriesAreExpiries
<1>6. FenceInv
  BY <1>3, <1>5, <1>9 DEF FenceInv, GivenIsAttempt, LeaseHasOwner
<1>7. \A t \in Task : DOMAIN AttemptLog(t) = {} /\ Holder(t) = NoWorker
  BY <1>2 DEF AttemptLog, Holder
<1>8. \A w \in Worker : Given(w) = NoWorker
  BY <1>3 DEF Given
<1> QED
  BY <1>6, <1>7, <1>8 DEF Leases!LeaseInit

\* The tables, snapshots and files of a run implement the leases of TaskLease, whoever
\* shares a worker id: every lease is an attempt of its own, nobody but the id a task is
\* leased to writes to its attempts, and an expired attempt is never written again.
THEOREM LeasesAreImplemented == Spec => LeasesAreFenced
<1>1. FenceInv /\ [Next]_vars => FenceInv'
  BY StepFence
<1>2. FenceInv /\ [Next]_vars => [Leases!LeaseNext]_(Leases!leaseVars)
  BY StepIsLeaseStep
<1> QED
  BY <1>1, <1>2, InitFence, PTL DEF Spec, LeasesAreFenced, Leases!LeaseSpec
-----------------------------------------------------------------------------
(* Workers that do not share their files: what a step does to a worker     *)
(* that has materialized its claim.                                        *)

\* At most one worker has no output base of its own. A claim the auto-runner executes has
\* none, nor has a command without --output-base: those of one run share its state file,
\* and two of them at work on it read each other's result.
FilesAreOwn == \A v, w \in Worker : v # w => v \in OwnBase \/ w \in OwnBase

\* Every worker goes by an id of its own, as the auto-runner's do.  A command whose caller
\* repeats an id holds what a process before it was leased, and may persist a snapshot
\* taken for another lease.
IdsAreOwn == \A w \in Worker : IdIsOwn(w)

FilePhase == {"executing", "executed", "caught", "stopped"}

\* What applying the result o of task t makes of an execution state.
FileAfter(f, t, o) ==
    LET decision == RepairDecision(Judged(f.st, t, o), f.rep, t, o)
    IN  [st  |-> SettledOf(f.st, f.rep, t, o),
         att |-> f.att,
         rep |-> NoteRepair(f.rep, decision, t, o),
         esc |-> IF decision = "escalated" THEN o.target ELSE f.esc]

Materializes(w) ==
    /\ Holds(w)
    /\ worker' = [worker EXCEPT ![w] =
                    [worker[w] EXCEPT !.phase = "executing", !.base = Snapshot, !.file = Snapshot]]

Delivers(w, f, o, phase) ==
    worker' = [worker EXCEPT ![w] =
                [worker[w] EXCEPT !.phase = phase, !.file = FileAfter(f, TaskOf(w), o),
                                  !.receipt = FileAfter(f, TaskOf(w), o).st[TaskOf(w)]]]

Catches(w) ==
    /\ \/ worker[w].phase = "executing"
       \/ worker[w].phase = "executed" /\ ~Persistable(w)
    /\ worker' = [worker EXCEPT ![w] = [worker[w] EXCEPT !.phase = "caught"]]

\* A step of a worker that leaves the tables alone.
FileStep(w) ==
    \/ Materializes(w)
    \/ /\ worker[w].phase = "executing"
       /\ \E f \in {worker[w].base, worker[w].file} : \E o \in Outcomes[StageOf(TaskOf(w))] :
            Delivers(w, f, o, "executed")
    \/ /\ worker[w].phase = "executing"
       /\ Delivers(w, worker[w].file, StoppedOutcome(TRUE), "stopped")
    \/ /\ worker[w].phase = "caught"
       /\ Delivers(w, worker[w].file, StoppedOutcome(FALSE), "stopped")
    \/ Catches(w)

\* A worker comes to rest, starts or is given a task.
Rests(w) ==
    /\ worker'[w].phase \notin FilePhase
    /\ \A v \in Worker \ {w} : worker'[v] = worker[v]

LEMMA OwnWrite ==
    ASSUME FilesAreOwn, TypeOK, NEW w \in Worker, NEW f, NEW new, WriteFile(w, f, new)
    PROVE  worker' = [worker EXCEPT ![w] = [new EXCEPT !.file = f]]
<1>1. ASSUME NEW v \in Worker, v # w
      PROVE  ~SharesFile(v, w)
  BY <1>1 DEF FilesAreOwn, SharesFile
<1>2. worker' = [v \in Worker |-> IF v = w THEN [new EXCEPT !.file = f] ELSE worker[v]]
  BY <1>1 DEF WriteFile
<1> QED
  BY <1>2 DEF TypeOK

LEMMA OwnApply ==
    ASSUME FilesAreOwn, TypeOK, NEW w \in Worker, NEW f, NEW o, NEW phase, ApplyTo(f, w, o, phase)
    PROVE  Delivers(w, f, o, phase)
<1> DEFINE next == FileAfter(f, TaskOf(w), o)
           settled == SettledOf(f.st, f.rep, TaskOf(w), o)
           new == [worker[w] EXCEPT !.phase = phase, !.receipt = settled[TaskOf(w)]]
<1>1. WriteFile(w, next, new)
  BY DEF ApplyTo, FileAfter, SettledOf
<1>2. next.st = settled
  BY DEF FileAfter
<1> HIDE DEF next, settled
<1>3. worker[w] \in WorkerState
  BY DEF TypeOK
<1>4. [new EXCEPT !.file = next]
        = [worker[w] EXCEPT !.phase = phase, !.file = next, !.receipt = settled[TaskOf(w)]]
  BY <1>3 DEF WorkerState
<1> HIDE DEF new
<1>5. worker' = [worker EXCEPT ![w] = [new EXCEPT !.file = next]]
  BY <1>1, OwnWrite
<1> QED
  BY <1>2, <1>4, <1>5 DEF Delivers, next

LEMMA LeaveRests ==
    ASSUME TypeOK, NEW w \in Worker, Finish(w) \/ Leave(w, "idle")
    PROVE  Rests(w)
<1>1. PICK phase \in {"idle", "draining"} : worker' = [worker EXCEPT ![w] = Resting(phase)]
  BY DEF Finish, Leave
<1> QED
  BY <1>1 DEF Rests, Resting, FilePhase, TypeOK

\* A worker's step is one of these, and all but start and persist leave the tables alone.
LEMMA WorkerMoves ==
    ASSUME FilesAreOwn, TypeOK, NEW w \in Worker, WorkerStep(w) \/ WorkerTrouble(w)
    PROVE  /\ Rests(w) \/ FileStep(w)
           /\ StartTask(w) \/ PersistResult(w) \/ UNCHANGED tables
           /\ StartTask(w) \/ PersistResult(w) => Rests(w)
<1>0. worker[w] \in WorkerState
  BY DEF TypeOK
<1>1. CASE StartTask(w)
  <2>1. Rests(w)
    BY <1>0, <1>1 DEF StartTask, Rests, FilePhase, TypeOK, WorkerState
  <2> QED
    BY <1>1, <2>1
<1>2. CASE PersistResult(w)
  BY <1>2, LeaveRests DEF PersistResult
<1>3. CASE StartRejected(w) \/ MaterializeFails(w) \/ HeartbeatRejected(w) \/ Crash(w)
  <2>1. StartTask(w) \/ PersistResult(w) => Rests(w)
    BY <1>1, <1>2
  <2>2. worker' = [worker EXCEPT ![w].phase = "started"] => Rests(w)
    BY <1>0 DEF Rests, FilePhase, TypeOK, WorkerState
  <2> QED
    BY <1>3, <2>1, <2>2, LeaveRests DEF StartRejected, MaterializeFails, HeartbeatRejected, Crash
<1>4. CASE MaterializeClaim(w)
  <2>1. Holds(w) /\ UNCHANGED tables
        /\ WriteFile(w, Snapshot, [worker[w] EXCEPT !.phase = "executing", !.base = Snapshot])
    BY <1>4 DEF MaterializeClaim
  <2> HIDE DEF Snapshot
  <2>2. [[worker[w] EXCEPT !.phase = "executing", !.base = Snapshot] EXCEPT !.file = Snapshot]
        = [worker[w] EXCEPT !.phase = "executing", !.base = Snapshot, !.file = Snapshot]
    BY <1>0 DEF WorkerState
  <2>3. FileStep(w)
    BY <2>1, <2>2, OwnWrite DEF FileStep, Materializes
  <2> QED
    BY <1>1, <1>2, <2>1, <2>3
<1>5. CASE Execute(w)
  <2>1. PICK o \in Outcomes[StageOf(TaskOf(w))] :
            /\ worker[w].phase = "executing" /\ UNCHANGED tables
            /\ ApplyTo(StateRead(w), w, o, "executed")
    BY <1>5 DEF Execute, ExecuteWith
  <2>2. StateRead(w) \in {worker[w].base, worker[w].file}
    BY DEF StateRead
  <2>3. FileStep(w)
    BY <2>1, <2>2, OwnApply DEF FileStep
  <2> QED
    BY <1>1, <1>2, <2>1, <2>3
<1>6. CASE WriteStopped(w) \/ HeartbeatErrors(w)
  <2>1. FileStep(w) /\ UNCHANGED tables
    BY <1>6, OwnApply DEF WriteStopped, HeartbeatErrors, FileStep
  <2> QED
    BY <1>1, <1>2, <2>1
<1>7. CASE PersistFails(w) \/ ExecutionThrows(w)
  <2>0. worker' = [worker EXCEPT ![w].phase = "caught"]
            => worker' = [worker EXCEPT ![w] = [worker[w] EXCEPT !.phase = "caught"]]
    OBVIOUS
  <2>1. UNCHANGED tables /\ (Rests(w) \/ Catches(w))
    <3>1. CASE PersistFails(w)
      BY <2>0, <3>1, LeaveRests DEF PersistFails, Catches
    <3>2. CASE ExecutionThrows(w)
      BY <2>0, <3>2, LeaveRests DEF ExecutionThrows, Catches
    <3> QED
      BY <1>7, <3>1, <3>2
  <2> QED
    BY <1>1, <1>2, <2>1 DEF FileStep
<1> QED
  BY <1>1, <1>2, <1>3, <1>4, <1>5, <1>6, <1>7 DEF WorkerStep, PlainStep, WorkerTrouble

LEMMA LeaseRests ==
    ASSUME TypeOK, NEW w \in Worker, LeaseNextTask(w)
    PROVE  Rests(w)
<1>1. PICK t, n : worker' = [worker EXCEPT ![w] = [Resting("leased") EXCEPT !.task = t, !.given = n]]
  BY DEF LeaseNextTask
<1> QED
  BY <1>1 DEF Rests, Resting, FilePhase, TypeOK

LEMMA RerunRests ==
    ASSUME TypeOK, NEW w \in Worker, RunLeasedTask(w)
    PROVE  Rests(w)
<1>1. PICK t, n : worker' = [worker EXCEPT ![w] = [Resting("leased") EXCEPT !.task = t, !.given = n]]
  BY DEF RunLeasedTask
<1> QED
  BY <1>1 DEF Rests, Resting, FilePhase, TypeOK

\* A lease and a rerun move one worker, and the other steps none.
LEMMA OtherMoves ==
    ASSUME TypeOK, [Next]_vars, ~\E w \in Worker : WorkerStep(w) \/ WorkerTrouble(w)
    PROVE  (\E w \in Worker : Rests(w)) \/ UNCHANGED worker
<1>1. ASSUME NEW w \in Worker, LeaseNextTask(w)
      PROVE  Rests(w)
  BY <1>1, LeaseRests
<1>2. ASSUME NEW w \in Worker, StopDraining(w)
      PROVE  Rests(w)
  BY <1>2, LeaveRests DEF StopDraining
<1>3. ASSUME NEW w \in Worker, RunLeasedTask(w)
      PROVE  Rests(w)
  BY <1>3, RerunRests
<1> QED
  BY <1>1, <1>2, <1>3 DEF Next, Heartbeat, LeaseLapses, SweepLeases, ExpireCommand, ExpireLeases, PauseOrResume, vars

-----------------------------------------------------------------------------
(* A result is reported as it is written.                                  *)

Reported(w) ==
    /\ worker[w].phase \in FilePhase => worker[w].base.st[TaskOf(w)] = "in-progress"
    /\ worker[w].phase \in {"executed", "stopped"} =>
            worker[w].receipt = worker[w].file.st[TaskOf(w)]

ReceiptInv == \A w \in Worker : Reported(w)

LEMMA HeldIsSeen ==
    ASSUME TypeOK, NEW w \in Worker, Holds(w)
    PROVE  Snapshot.st[TaskOf(w)] = "in-progress"
<1>1. TaskOf(w) \in Task
  BY DEF TypeOK, WorkerState, TaskOf
<1> QED
  BY <1>1 DEF Holds, Snapshot, SeenAs, Held

LEMMA FileStepReports ==
    ASSUME TypeOK, NEW w \in Worker, Reported(w), FileStep(w)
    PROVE  Reported(w)'
<1>0. worker[w] \in WorkerState
  BY DEF TypeOK
<1>1. CASE Materializes(w)
  <2>1. Snapshot.st[TaskOf(w)] = "in-progress"
    BY <1>1, HeldIsSeen DEF Materializes
  <2>2. /\ worker'[w].phase = "executing" /\ worker'[w].task = worker[w].task
        /\ worker'[w].base = Snapshot
    <3> HIDE DEF Snapshot
    <3> QED
      BY <1>0, <1>1 DEF Materializes, TypeOK, WorkerState
  <2> QED
    BY <2>1, <2>2 DEF Reported, TaskOf
<1>2. ASSUME NEW f, NEW o, NEW phase \in FilePhase, worker[w].phase \in FilePhase,
             Delivers(w, f, o, phase)
      PROVE  Reported(w)'
  <2>1. /\ worker'[w].phase = phase /\ worker'[w].task = worker[w].task
        /\ worker'[w].base = worker[w].base
        /\ worker'[w].file = FileAfter(f, TaskOf(w), o)
        /\ worker'[w].receipt = FileAfter(f, TaskOf(w), o).st[TaskOf(w)]
    BY <1>0, <1>2 DEF Delivers, TypeOK, WorkerState
  <2> QED
    BY <1>2, <2>1 DEF Reported, TaskOf
<1>3. CASE Catches(w)
  <2>1. /\ worker'[w].phase = "caught" /\ worker'[w].task = worker[w].task
        /\ worker'[w].base = worker[w].base
    BY <1>0, <1>3 DEF Catches, TypeOK, WorkerState
  <2> QED
    BY <1>3, <2>1 DEF Reported, TaskOf, FilePhase, Catches
<1> QED
  BY <1>1, <1>2, <1>3 DEF FileStep, FilePhase

LEMMA FileStepIsOwn ==
    ASSUME TypeOK, NEW w \in Worker, FileStep(w) \/ Rests(w), NEW v \in Worker \ {w}
    PROVE  worker'[v] = worker[v]
BY DEF TypeOK, FileStep, Materializes, Delivers, Catches, Rests

LEMMA StepReceipt ==
    ASSUME FilesAreOwn, TypeOK, ReceiptInv, [Next]_vars
    PROVE  ReceiptInv'
<1>1. ASSUME NEW w \in Worker, Rests(w)
      PROVE  worker'[w].phase \notin FilePhase
  BY <1>1 DEF Rests, FilePhase, TypeOK
<1>2. ASSUME NEW v \in Worker, worker'[v] = worker[v]
      PROVE  Reported(v)'
  BY <1>2 DEF ReceiptInv, Reported, TaskOf
<1>3. ASSUME NEW w \in Worker, FileStep(w) \/ Rests(w)
      PROVE  ReceiptInv'
  <2>1. Reported(w)'
    BY <1>1, <1>3, FileStepReports DEF ReceiptInv, Reported, FilePhase
  <2>2. \A v \in Worker \ {w} : Reported(v)'
    BY <1>2, <1>3, FileStepIsOwn
  <2> QED
    BY <2>1, <2>2 DEF ReceiptInv
<1> QED
  BY <1>2, <1>3, WorkerMoves, OtherMoves DEF ReceiptInv

-----------------------------------------------------------------------------
(* The rows as statuses of a run, and what the transactions make of them.  *)

RowsOf(rw) == [u \in Task |-> SeenAs(rw[u].status)]

Alone(st, t) == \A u \in Task \ {t} : st[u] \notin OpenStatus

LEMMA SeenRows ==
    ASSUME NEW rw \in [Task -> Row]
    PROVE  /\ RowsOf(rw) \in Statuses
           /\ \A u \in Task :
                /\ RowsOf(rw)[u] \in OpenStatus <=> rw[u].status \in Held \cup {"ready"}
                /\ RowsOf(rw)[u] = "in-progress" <=> rw[u].status \in Held
                /\ rw[u].status \in TaskStatus => RowsOf(rw)[u] = rw[u].status
<1>1. \A u \in Task : RowsOf(rw)[u] = SeenAs(rw[u].status) /\ rw[u].status \in RowStatus
  BY DEF RowsOf, Row
<1>2. ASSUME NEW x \in RowStatus
      PROVE  /\ SeenAs(x) \in TaskStatus
             /\ SeenAs(x) \in OpenStatus <=> x \in Held \cup {"ready"}
             /\ SeenAs(x) = "in-progress" <=> x \in Held
             /\ x \in TaskStatus => SeenAs(x) = x
  BY DEF SeenAs, RowStatus, TaskStatus, OpenStatus, Held
<1>3. RowsOf(rw) \in Statuses
  BY <1>1, <1>2 DEF RowsOf, Statuses
<1> QED
  BY <1>1, <1>2, <1>3

\* What leasing, expiry and persisting write to the status and counter of a row.
LEMMA LeasedRowTask ==
    ASSUME NEW x \in Row, NEW n \in Nat, NEW w \in Worker
    PROVE  Leased(x, n, w).status = "leased" /\ Leased(x, n, w).attempts = x.attempts + 1
<1> DEFINE a == x.attempts + 1
<1>1. Leased(x, n, w) = [x EXCEPT !.status = "leased", !.attempts = a,
                                  !.lease = n, !.owner = IdOf[w], !.live = TRUE]
  BY DEF Leased
<1> HIDE DEF a
<1>2. Leased(x, n, w).status = "leased" /\ Leased(x, n, w).attempts = a
  BY <1>1 DEF Row
<1> QED
  BY <1>2 DEF a

LEMMA ReleasedRowTask ==
    ASSUME NEW x \in Row
    PROVE  Released(x).status = x.status /\ Released(x).attempts = x.attempts
BY DEF Row, Released

LEMMA ExpireRowTask ==
    ASSUME TypeOK, NEW t \in Task
    PROVE  /\ ExpireRow(t).status \in {"ready", "blocked"}
           /\ ExpireRow(t).attempts = row[t].attempts
<1> DEFINE x == Released(row[t])
           n == row[t].retry + 1
           s == IF CanRetry(t) THEN "ready" ELSE "blocked"
<1>1. x \in Row /\ x.attempts = row[t].attempts
  BY ReleasedRowTask, ReleasedRowType DEF TypeOK
<1>2. ExpireRow(t) = [x EXCEPT !.status = s, !.retry = n]
  BY DEF ExpireRow
<1>3. s \in {"ready", "blocked"}
  OBVIOUS
<1> HIDE DEF x, n, s
<1>4. ExpireRow(t).status = s /\ ExpireRow(t).attempts = x.attempts
  BY <1>1, <1>2 DEF Row
<1> QED
  BY <1>1, <1>3, <1>4

LEMMA PersistRowTask ==
    ASSUME TypeOK, NEW w \in Worker, NEW next \in File, NEW u \in Task
    PROVE  IF next.st[u] = worker[w].base.st[u]
           THEN PersistRow(w, next, u) = row[u]
           ELSE /\ PersistRow(w, next, u).status = next.st[u]
                /\ PersistRow(w, next, u).attempts = next.att[u]
<1>1. row[u] \in Row /\ next.st[u] \in RowStatus /\ next.att[u] \in Nat
  BY DEF TypeOK, File, RowStatus
<1>2. /\ Overwritten(u, next) \in Row
      /\ Overwritten(u, next).status = next.st[u]
      /\ Overwritten(u, next).attempts = next.att[u]
  BY <1>1 DEF Overwritten, Row
<1> QED
  BY <1>2, ReleasedRowTask DEF PersistRow

-----------------------------------------------------------------------------
(* The invariant.  The rows are a run in shape.  A worker's snapshot is    *)
(* one too, and as long as the worker holds its task the snapshot is up to *)
(* date where its result can reach, and its file is the snapshot, or what  *)
(* one result makes of it: persisting it comes to applying that result to  *)
(* the rows as they are.                                                   *)

TableInv ==
    /\ RunInv(RowsOf(row))
    /\ RowMatchesLedger
    /\ ClosedRunIsQuiet

\* Where the result of w can reach, its snapshot still says what the rows say.
UpToDate(w) ==
    /\ \A u \in Reach(TaskOf(w)) :
        /\ worker[w].base.st[u] = RowsOf(row)[u]
        /\ worker[w].base.att[u] = row[u].attempts
    /\ Alone(worker[w].base.st, TaskOf(w)) => Alone(RowsOf(row), TaskOf(w))

\* The repair a file asks for is on record already: it cannot be persisted.
Taken(w) == RepairIsTaken(RepairInserts(TaskOf(w), worker[w].file))

FinalResult(o) == Result(o) /\ o.status \in FinalStatus

\* The file is the snapshot, or what one result makes of it.
Made(w) ==
    /\ worker[w].file.att = worker[w].base.att
    /\ IF worker[w].phase \in {"executed", "stopped"}
       THEN \E o : /\ FinalResult(o)
                   /\ worker[w].file.st =
                        SettledOf(worker[w].base.st, worker[w].base.rep, TaskOf(w), o)
       ELSE worker[w].file = worker[w].base

\* A worker that has lost its row may hold any snapshot: the persist refuses it.
InStep(w) ==
    worker[w].phase \in FilePhase =>
        /\ RunInv(worker[w].base.st)
        /\ worker[w].phase = "executing" => worker[w].file = worker[w].base
        /\ Holds(w) => UpToDate(w) /\ (Taken(w) \/ Made(w))

PlatInv ==
    /\ TypeOK
    /\ ReceiptInv
    /\ TableInv
    /\ \A w \in Worker : InStep(w)

\* A transaction that changes nothing where the result of w could reach.
Undisturbed(w) ==
    Holds(w)' =>
        /\ Holds(w)
        /\ \A u \in Reach(TaskOf(w)) :
            RowsOf(row)'[u] = RowsOf(row)[u] /\ row'[u].attempts = row[u].attempts
        /\ Alone(RowsOf(row), TaskOf(w)) => Alone(RowsOf(row)', TaskOf(w))

KeepsRepairs ==
    \A a \in repairs : \E b \in repairs' : b.task = a.task /\ b.number = a.number

LEMMA KeptInStep ==
    ASSUME NEW w \in Worker, InStep(w), worker'[w] = worker[w], KeepsRepairs,
           worker[w].phase \in FilePhase => Undisturbed(w)
    PROVE  InStep(w)'
<1> SUFFICES ASSUME worker[w].phase \in FilePhase
             PROVE  InStep(w)'
  BY DEF InStep
<1>1. TaskOf(w)' = TaskOf(w)
  BY DEF TaskOf
<1>2. Taken(w) => Taken(w)'
  BY <1>1 DEF Taken, RepairIsTaken, KeepsRepairs, RepairInserts
<1>3. Made(w) => Made(w)'
  BY <1>1 DEF Made
<1>4. ASSUME Holds(w)'
      PROVE  UpToDate(w)' /\ (Taken(w)' \/ Made(w)')
  <2>1. UpToDate(w) /\ (Taken(w) \/ Made(w))
    BY <1>4 DEF InStep, Undisturbed
  <2> QED
    BY <1>1, <1>2, <1>3, <1>4, <2>1 DEF UpToDate, Undisturbed
<1> QED
  BY <1>4 DEF InStep

\* The tables are left alone but for the time a lease has to live.
LEMMA QuietTables ==
    ASSUME TypeOK, TableInv, UNCHANGED <<ledger, repairs, runStatus>>,
           \A u \in Task : /\ row'[u].status = row[u].status
                           /\ row'[u].attempts = row[u].attempts
                           /\ row'[u].lease = row[u].lease
                           /\ row'[u].owner = row[u].owner
                           /\ row'[u].live => row[u].live
    PROVE  /\ TableInv' /\ KeepsRepairs
           /\ \A w \in Worker : TaskOf(w)' = TaskOf(w) => Undisturbed(w)
<1>1. RowsOf(row)' = RowsOf(row)
  BY DEF RowsOf
<1>2. RowMatchesLedger' /\ ClosedRunIsQuiet'
  BY DEF TableInv, RowMatchesLedger, ClosedRunIsQuiet
<1>3. \A w \in Worker : TaskOf(w) \in Task
  BY DEF TypeOK, WorkerState, TaskOf
<1>4. ASSUME NEW w \in Worker, TaskOf(w)' = TaskOf(w)
      PROVE  Undisturbed(w)
  <2>1. Holds(w)' => Holds(w)
    BY <1>3, <1>4 DEF Holds
  <2>2. \A u \in Reach(TaskOf(w)) : u \in Task
    BY DEF Reach
  <2> QED
    BY <1>1, <2>1, <2>2 DEF Undisturbed
<1> QED
  BY <1>1, <1>2, <1>4 DEF TableInv, KeepsRepairs

\* A task taken up or given up is open, and out of the reach of the others at work.
LEMMA OpenUndisturbed ==
    ASSUME TypeOK, TypeOK', TableInv, NEW w \in Worker, TaskOf(w)' = TaskOf(w),
           \A u \in Task : \/ row'[u] = row[u]
                           \/ /\ row[u].status \in Held \cup {"ready"}
                              /\ row'[u].owner # IdOf[w]
    PROVE  Undisturbed(w)
<1> SUFFICES ASSUME Holds(w)'
             PROVE  /\ Holds(w)
                    /\ \A u \in Reach(TaskOf(w)) : row'[u] = row[u]
                    /\ Alone(RowsOf(row), TaskOf(w)) => Alone(RowsOf(row)', TaskOf(w))
  <2>1. \A u \in Reach(TaskOf(w)) :
            row'[u] = row[u] => RowsOf(row)'[u] = RowsOf(row)[u]
    BY DEF Reach, RowsOf
  <2> QED
    BY <2>1 DEF Undisturbed
<1> DEFINE t == TaskOf(w)
           st == RowsOf(row)
<1>2. t \in Task /\ row \in [Task -> Row]
  BY DEF TypeOK, WorkerState, TaskOf
<1>3. row'[t] = row[t]
  BY <1>2 DEF Holds
<1>4. Holds(w)
  BY <1>3 DEF Holds
<1>5. st[t] = "in-progress"
  BY <1>2, <1>4, SeenRows DEF Holds
<1>6. \A u \in Task : row'[u] # row[u] => u # t /\ st[u] \in OpenStatus
  BY <1>2, <1>3, SeenRows
<1>7. st[t] \in OpenStatus /\ RunInv(st)
  BY <1>5 DEF OpenStatus, TableInv
<1>8. RowsOf(row)' = RowsOf(row')
  BY DEF RowsOf
<1>9. \A u \in Task : row'[u] = row[u] => RowsOf(row')[u] = st[u]
  BY DEF RowsOf
<1> HIDE DEF st
<1>10. \A u \in Reach(t) : row'[u] = row[u]
  <2>1. \A u \in Reach(t) : u \in Task
    BY DEF Reach
  <2> QED
    BY <1>2, <1>6, <1>7, <2>1, OpenIsUnreached
<1>11. Alone(st, t) => Alone(RowsOf(row'), t)
  BY <1>6, <1>9 DEF Alone
<1> QED
  BY <1>4, <1>8, <1>10, <1>11 DEF st

LEMMA LeaseTables ==
    ASSUME IdsAreOwn, TypeOK, TypeOK', TableInv, NEW w \in Worker, LeaseNextTask(w)
    PROVE  /\ TableInv' /\ KeepsRepairs
           /\ \A v \in Worker \ {w} : Undisturbed(v)
<1>1. PICK t \in NextToLease :
        /\ row' = [row EXCEPT ![t] = Leased(row[t], Len(ledger[t]) + 1, w)]
        /\ ledger' = [ledger EXCEPT ![t] = Append(@, "leased")]
        /\ worker' = [worker EXCEPT ![w] =
                        [Resting("leased") EXCEPT !.task = t, !.given = Len(ledger[t]) + 1]]
  BY DEF LeaseNextTask
<1> DEFINE n == Len(ledger[t]) + 1
           leased == Leased(row[t], n, w)
<1>2. /\ t \in Task /\ row[t].status = "ready" /\ row[t] \in Row
      /\ ledger[t] \in Seq(AttemptStatus) /\ "leased" \in AttemptStatus
  BY DEF NextToLease, Ready, TypeOK, AttemptStatus, RowStatus
<1>3. n \in Nat /\ n > 0
  BY <1>2, LenProperties
<1>4. leased.status = "leased" /\ leased.attempts = row[t].attempts + 1
      /\ leased.lease = n /\ leased.owner = IdOf[w]
  BY <1>2, <1>3, LeasedRowTask, LeasedRowType
<1>5. /\ row'[t] = leased /\ ledger'[t] = Append(ledger[t], "leased")
      /\ \A u \in Task \ {t} : row'[u] = row[u] /\ ledger'[u] = ledger[u]
      /\ \A v \in Worker \ {w} : worker'[v] = worker[v]
  BY <1>1, <1>2 DEF TypeOK
<1>6. /\ Append(ledger[t], "leased") \in Seq(AttemptStatus)
      /\ Len(Append(ledger[t], "leased")) = n
      /\ Append(ledger[t], "leased")[n] = "leased"
      /\ \A i \in 1..Len(ledger[t]) : Append(ledger[t], "leased")[i] = ledger[t][i]
  BY <1>2, AppendProperties
<1>7. DOMAIN ledger[t] = 1..Len(ledger[t]) /\ DOMAIN Append(ledger[t], "leased") = 1..n
  BY <1>2, <1>6, LenProperties
<1> HIDE DEF leased
<1>8. row[t].attempts = Len(ledger[t])
      /\ \A i \in DOMAIN ledger[t] : ledger[t][i] \notin Held
  BY <1>2 DEF TableInv, RowMatchesLedger, Held
<1>9. IdOf[w] # NoWorker
  BY PlatformAssumption
<1>10. RowMatchesLedger'
  <2>1. ASSUME NEW i \in DOMAIN ledger'[t], ledger'[t][i] \in Held
        PROVE  i = n
    <3>1. i \in 1..n
      BY <1>5, <1>7, <2>1
    <3>2. i # n => i \in 1..Len(ledger[t])
      BY <1>2, <3>1, LenProperties
    <3> QED
      BY <1>5, <1>6, <1>7, <1>8, <2>1, <3>2
  <2>2. /\ row'[t].attempts = Len(ledger'[t]) /\ row'[t].lease = n /\ n = Len(ledger'[t])
        /\ row'[t].owner # NoWorker /\ ledger'[t][n] = "leased" /\ row'[t].status = "leased"
    BY <1>4, <1>5, <1>6, <1>8, <1>9
  <2> HIDE DEF n
  <2>3. ASSUME NEW u \in Task
        PROVE  /\ row'[u].attempts = Len(ledger'[u])
               /\ row'[u].status \in Held =>
                    /\ row'[u].owner # NoWorker
                    /\ row'[u].lease = Len(ledger'[u])
                    /\ row'[u].lease > 0 /\ ledger'[u][row'[u].lease] = row'[u].status
               /\ \A i \in DOMAIN ledger'[u] :
                    ledger'[u][i] \in Held => row'[u].status \in Held /\ i = row'[u].lease
    <3>1. CASE u = t
      BY <1>3, <2>1, <2>2, <3>1 DEF Held
    <3>2. CASE u # t
      BY <1>5, <3>2 DEF TableInv, RowMatchesLedger
    <3> QED
      BY <3>1, <3>2
  <2> QED
    BY <2>3 DEF RowMatchesLedger
<1>11. RunInv(RowsOf(row'))
  <2>1. row \in [Task -> Row] /\ row' \in [Task -> Row]
    BY DEF TypeOK
  <2>2. ASSUME NEW u \in Task
        PROVE  \/ RowsOf(row')[u] = RowsOf(row)[u]
               \/ RowsOf(row)[u] \in OpenStatus /\ RowsOf(row')[u] \in OpenStatus
    <3>1. CASE u = t
      BY <1>2, <1>4, <1>5, <2>1, <3>1, SeenRows DEF Held
    <3>2. CASE u # t
      BY <1>5, <3>2 DEF RowsOf
    <3> QED
      BY <3>1, <3>2
  <2> QED
    BY <2>2, OpenChangeShape DEF TableInv
<1>12. RunInv(RowsOf(row))'
  BY <1>11 DEF RowsOf
<1>13. ASSUME NEW v \in Worker \ {w}
       PROVE  Undisturbed(v)
  <2>1. TaskOf(v)' = TaskOf(v)
    BY <1>5 DEF TaskOf
  <2>2. \A u \in Task : \/ row'[u] = row[u]
                        \/ /\ row[u].status \in Held \cup {"ready"}
                           /\ row'[u].owner # IdOf[v]
    BY <1>2, <1>4, <1>5 DEF IdsAreOwn, IdIsOwn
  <2> QED
    BY <2>1, <2>2, OpenUndisturbed
<1>14. ClosedRunIsQuiet' /\ KeepsRepairs
  BY DEF LeaseNextTask, ClosedRunIsQuiet, KeepsRepairs
<1> QED
  BY <1>10, <1>12, <1>13, <1>14 DEF TableInv

LEMMA StartTables ==
    ASSUME IdsAreOwn, TypeOK, TypeOK', TableInv, NEW w \in Worker, StartTask(w)
    PROVE  /\ TableInv' /\ KeepsRepairs
           /\ \A v \in Worker \ {w} : Undisturbed(v)
<1> DEFINE t == TaskOf(w)
           n == row[t].lease
<1>1. t \in Task /\ row[t] \in Row /\ ledger[t] \in Seq(AttemptStatus)
  BY DEF TypeOK, WorkerState, TaskOf
<1>2. /\ row' = [row EXCEPT ![t].status = "in-progress"]
      /\ ledger' = [ledger EXCEPT ![t][n] = "in-progress"]
      /\ worker' = [worker EXCEPT ![w].phase = "started"]
      /\ row[t].status = "leased"
  BY DEF StartTask
<1>3. /\ row'[t].status = "in-progress" /\ row'[t].attempts = row[t].attempts
      /\ row'[t].lease = n /\ row'[t].owner = row[t].owner
      /\ \A u \in Task \ {t} : row'[u] = row[u] /\ ledger'[u] = ledger[u]
      /\ \A v \in Worker \ {w} : worker'[v] = worker[v]
  BY <1>1, <1>2 DEF TypeOK, Row
<1>4. n = Len(ledger[t]) /\ n > 0 /\ row[t].owner # NoWorker /\ row[t].attempts = n
      /\ \A i \in DOMAIN ledger[t] : ledger[t][i] \in Held => i = n
  BY <1>1, <1>2 DEF TableInv, RowMatchesLedger, Held
<1>5. ledger'[t] = [ledger[t] EXCEPT ![n] = "in-progress"]
  BY <1>1, <1>2 DEF TypeOK
<1>6. n \in DOMAIN ledger[t] /\ DOMAIN ledger'[t] = DOMAIN ledger[t]
  BY <1>1, <1>4, <1>5, LenProperties
<1>7. ledger'[t] \in Seq(AttemptStatus)
  BY <1>1 DEF TypeOK
<1>8. Len(ledger'[t]) = n
  BY <1>1, <1>4, <1>6, <1>7, LenProperties
<1>9. RowMatchesLedger'
  <2>1. ledger'[t][n] = "in-progress"
        /\ \A i \in DOMAIN ledger'[t] : ledger'[t][i] \in Held => i = n
    BY <1>4, <1>5, <1>6
  <2> HIDE DEF n, t
  <2>2. ASSUME NEW u \in Task
        PROVE  /\ row'[u].attempts = Len(ledger'[u])
               /\ row'[u].status \in Held =>
                    /\ row'[u].owner # NoWorker
                    /\ row'[u].lease = Len(ledger'[u])
                    /\ row'[u].lease > 0 /\ ledger'[u][row'[u].lease] = row'[u].status
               /\ \A i \in DOMAIN ledger'[u] :
                    ledger'[u][i] \in Held => row'[u].status \in Held /\ i = row'[u].lease
    <3>1. CASE u = t
      BY <1>3, <1>4, <1>8, <2>1, <3>1 DEF Held
    <3>2. CASE u # t
      BY <1>3, <3>2 DEF TableInv, RowMatchesLedger
    <3> QED
      BY <3>1, <3>2
  <2> QED
    BY <2>2 DEF RowMatchesLedger
<1>10. \A u \in Task : SeenAs(row'[u].status) = SeenAs(row[u].status)
  BY <1>2, <1>3 DEF SeenAs
<1>11. RowsOf(row)' = RowsOf(row)
  BY <1>10 DEF RowsOf
<1>12. ASSUME NEW v \in Worker \ {w}
       PROVE  Undisturbed(v)
  <2>1. TaskOf(v)' = TaskOf(v) /\ TaskOf(v) \in Task
    BY <1>3 DEF TaskOf, TypeOK, WorkerState
  <2>2. row[t].owner # IdOf[v]
    BY DEF StartTask, Holds, IdsAreOwn, IdIsOwn
  <2>3. Holds(v)' => Holds(v)
    BY <1>3, <2>1, <2>2 DEF Holds
  <2>4. \A u \in Reach(TaskOf(v)) : row'[u].attempts = row[u].attempts
    BY <1>3 DEF Reach
  <2> QED
    BY <1>11, <2>3, <2>4 DEF Undisturbed
<1>13. ClosedRunIsQuiet' /\ KeepsRepairs
  BY DEF StartTask, ClosedRunIsQuiet, KeepsRepairs
<1> QED
  BY <1>9, <1>11, <1>12, <1>13 DEF TableInv

LEMMA ExpireTables ==
    ASSUME TypeOK, TypeOK', TableInv, ExpireLeases
    PROVE  /\ TableInv' /\ KeepsRepairs
           /\ \A v \in Worker : Undisturbed(v)
<1>1. \A u \in Task : IF u \in Lapsed
                      THEN row'[u] = ExpireRow(u) /\ ledger'[u] = ExpireAttempt(u)
                      ELSE row'[u] = row[u] /\ ledger'[u] = ledger[u]
  BY DEF ExpireLeases
<1>2. \A u \in Lapsed : u \in Task /\ row[u].status \in Held
  BY DEF Lapsed
<1>3. RowMatchesLedger'
  <2>1. ASSUME NEW u \in Task
        PROVE  /\ row'[u].attempts = Len(ledger'[u])
               /\ row'[u].status \in Held =>
                    /\ row'[u].owner # NoWorker
                    /\ row'[u].lease = Len(ledger'[u])
                    /\ row'[u].lease > 0 /\ ledger'[u][row'[u].lease] = row'[u].status
               /\ \A i \in DOMAIN ledger'[u] :
                    ledger'[u][i] \in Held => row'[u].status \in Held /\ i = row'[u].lease
    <3>1. CASE u \notin Lapsed
      BY <1>1, <3>1 DEF TableInv, RowMatchesLedger
    <3>2. CASE u \in Lapsed
      <4> DEFINE n == row[u].lease
      <4>1. ledger[u] \in Seq(AttemptStatus) /\ ledger'[u] \in Seq(AttemptStatus)
        BY DEF TypeOK
      <4>2. ledger'[u] = [ledger[u] EXCEPT ![n] = "expired"]
        BY <1>1, <3>2 DEF ExpireAttempt
      <4>3. /\ n = Len(ledger[u]) /\ n > 0 /\ row[u].attempts = Len(ledger[u])
            /\ \A i \in DOMAIN ledger[u] : ledger[u][i] \in Held => i = n
        BY <1>2, <3>2 DEF TableInv, RowMatchesLedger
      <4>4. row'[u].status \notin Held /\ row'[u].attempts = row[u].attempts
        BY <1>1, <3>2, ExpireRowTask DEF Held
      <4> HIDE DEF n
      <4>5. n \in DOMAIN ledger[u] /\ DOMAIN ledger'[u] = DOMAIN ledger[u]
        BY <4>1, <4>2, <4>3, LenProperties
      <4>6. Len(ledger'[u]) = Len(ledger[u])
        BY <4>1, <4>5, LenProperties
      <4>7. \A i \in DOMAIN ledger'[u] : ledger'[u][i] \notin Held
        BY <4>2, <4>3, <4>5 DEF Held
      <4> QED
        BY <4>3, <4>4, <4>6, <4>7
    <3> QED
      BY <3>1, <3>2
  <2> QED
    BY <2>1 DEF RowMatchesLedger
<1>4. row \in [Task -> Row] /\ row' \in [Task -> Row]
  BY DEF TypeOK
<1>5. ASSUME NEW u \in Task
      PROVE  \/ RowsOf(row')[u] = RowsOf(row)[u]
             \/ /\ RowsOf(row)[u] \in OpenStatus
                /\ RowsOf(row')[u] \in OpenStatus \cup {"blocked"}
  <2>1. CASE u \notin Lapsed
    BY <1>1, <2>1 DEF RowsOf
  <2>2. CASE u \in Lapsed
    <3>1. row'[u].status \in {"ready", "blocked"} /\ row[u].status \in Held
      BY <1>1, <1>2, <2>2, ExpireRowTask
    <3>2. "ready" \in TaskStatus /\ "blocked" \in TaskStatus
      BY DEF TaskStatus
    <3>3. RowsOf(row)[u] \in OpenStatus
      BY <1>4, <3>1, SeenRows
    <3>4. RowsOf(row')[u] \in {"ready", "blocked"}
      BY <1>4, <3>1, <3>2, SeenRows
    <3> QED
      BY <3>3, <3>4 DEF OpenStatus
  <2> QED
    BY <2>1, <2>2
<1>6. RunInv(RowsOf(row'))
  BY <1>5, OpenChangeShape DEF TableInv
<1>7. RunInv(RowsOf(row))'
  BY <1>6 DEF RowsOf
<1>8. ASSUME NEW v \in Worker
      PROVE  Undisturbed(v)
  <2>1. TaskOf(v)' = TaskOf(v)
    BY DEF ExpireLeases, TaskOf
  <2>2. \A u \in Lapsed : row'[u].owner = NoWorker
    BY <1>1, <1>2, ExpireRowType
  <2>3. \A u \in Task : \/ row'[u] = row[u]
                        \/ /\ row[u].status \in Held \cup {"ready"}
                           /\ row'[u].owner # IdOf[v]
    BY <1>1, <1>2, <2>2, PlatformAssumption
  <2> QED
    BY <2>1, <2>3, OpenUndisturbed
<1>9. ClosedRunIsQuiet' /\ KeepsRepairs
  <2>1. \A u \in Task : row'[u].status \in Held \cup {"ready"} => row[u].status \in Held \cup {"ready"}
    BY <1>1, <1>2
  <2>2. runStatus' = runStatus \/ runStatus' = "blocked"
    BY DEF ExpireLeases
  <2> QED
    BY <2>1, <2>2 DEF ExpireLeases, TableInv, ClosedRunIsQuiet, KeepsRepairs
<1> QED
  BY <1>3, <1>7, <1>8, <1>9 DEF TableInv

\* A renewal repeats what the ledger says.
LEMMA HeartbeatTables ==
    ASSUME TypeOK, TableInv, NEW w \in Worker, Heartbeat(w)
    PROVE  UNCHANGED vars
<1> DEFINE t == TaskOf(w)
           n == row[t].lease
<1>1. t \in Task /\ ledger[t] \in Seq(AttemptStatus) /\ row[t].status \in Held
  BY DEF TypeOK, WorkerState, TaskOf, Heartbeat, Holds
<1>2. ledger' = [ledger EXCEPT ![t][n] = row[t].status]
  BY DEF Heartbeat
<1> HIDE DEF t
<1>3. ledger[t][n] = row[t].status
  BY <1>1 DEF TableInv, RowMatchesLedger
<1>4. [ledger[t] EXCEPT ![n] = row[t].status] = ledger[t]
  BY <1>1, <1>3
<1>5. ledger' = ledger
  BY <1>1, <1>2, <1>4 DEF TypeOK
<1> QED
  BY <1>5 DEF Heartbeat, vars, tables

\* Repairs on record stay on record.
LEMMA SettleKeeps ==
    ASSUME NEW attempts, NEW t, NEW next, NEW a \in attempts
    PROVE  \E b \in SettleRepair(attempts, t, next) : b.task = a.task /\ b.number = a.number
<1> DEFINE b == IF a.task = t /\ a.status = "requested" /\ next.rep[t] = a.number
                THEN CASE next.st[t] = "completed" -> [a EXCEPT !.status = "succeeded"]
                       [] next.st[t] = "blocked"   -> [a EXCEPT !.status = "blocked"]
                       [] next.st[t] = "failed"    -> [a EXCEPT !.status = "failed"]
                       [] OTHER                    -> a
                ELSE a
<1>1. b \in SettleRepair(attempts, t, next)
  BY DEF SettleRepair
<1>2. b.task = a.task /\ b.number = a.number
  OBVIOUS
<1> QED
  BY <1>1, <1>2

\* Persisting a result is applying it to the rows.
LEMMA PersistTables ==
    ASSUME OneUpstream, TypeOK, TypeOK', ReceiptInv, TableInv,
           NEW w \in Worker, InStep(w), PersistResult(w)
    PROVE  /\ TableInv' /\ KeepsRepairs
           /\ \A v \in Worker \ {w} : Undisturbed(v)
<1> DEFINE t == TaskOf(w)
           b == worker[w].base
           f == worker[w].file
           st == RowsOf(row)
           n == row[t].lease
<1>1. /\ t \in Task /\ b \in File /\ f \in File
      /\ row \in [Task -> Row] /\ row' \in [Task -> Row]
      /\ st \in Statuses /\ b.st \in Statuses /\ f.st \in Statuses
  BY SeenRows DEF TypeOK, WorkerState, TaskOf, File, Statuses
<1>2. /\ Holds(w) /\ ~Taken(w) /\ worker[w].phase \in {"executed", "stopped"}
      /\ row' = [u \in Task |-> PersistRow(w, f, u)]
      /\ ledger' = [ledger EXCEPT ![t][n] = worker[w].receipt]
      /\ runStatus' = InferRunStatus(f.st)
  BY DEF PersistResult, Persistable, Taken
<1>3. RunInv(b.st) /\ RunInv(st) /\ UpToDate(w) /\ Made(w)
  BY <1>2 DEF InStep, FilePhase, TableInv
<1>4. b.st[t] = "in-progress" /\ worker[w].receipt = f.st[t]
  BY <1>2 DEF ReceiptInv, Reported, FilePhase
<1>5. st[t] = "in-progress" /\ row[t].status \in Held
  BY <1>1, <1>2, SeenRows DEF Holds
<1>6. PICK o : FinalResult(o) /\ f.st = SettledOf(b.st, b.rep, t, o)
  BY <1>2, <1>3 DEF Made
<1>7. f.att = b.att
  BY <1>3 DEF Made
<1>8. /\ \A u \in Reach(t) : b.st[u] = st[u] /\ b.att[u] = row[u].attempts
      /\ Alone(b.st, t) => Alone(st, t)
  BY <1>3 DEF UpToDate
<1>9. Result(o) /\ o.status \in FinalStatus
  BY <1>6 DEF FinalResult
<1>10. \A u \in Task : IF f.st[u] = b.st[u]
                       THEN row'[u] = row[u]
                       ELSE row'[u].status = f.st[u] /\ row'[u].attempts = f.att[u]
  BY <1>1, <1>2, PersistRowTask
<1> HIDE DEF t, b, f, st, n
<1>11. ASSUME NEW u \in Task \ Reach(t)
       PROVE  f.st[u] = b.st[u] /\ row'[u] = row[u]
  <2>1. SettledOf(b.st, b.rep, t, o)[u] = b.st[u]
    BY <1>1, <1>3, <1>4, <1>9, UnreachedUnchanged
  <2> QED
    BY <1>6, <1>10, <2>1
<1>12. RowsOf(row') = Merged(b.st, f.st, st)
  <2>1. ASSUME NEW u \in Task
        PROVE  RowsOf(row')[u] = IF f.st[u] = b.st[u] THEN st[u] ELSE f.st[u]
    <3>1. CASE f.st[u] = b.st[u]
      BY <1>10, <3>1 DEF RowsOf, st
    <3>2. CASE f.st[u] # b.st[u]
      <4>1. row'[u].status = f.st[u] /\ f.st[u] \in TaskStatus
        BY <1>1, <1>10, <3>2 DEF Statuses
      <4> QED
        BY <1>1, <3>2, <4>1, SeenRows
    <3> QED
      BY <3>1, <3>2
  <2>2. RowsOf(row') = [u \in Task |-> RowsOf(row')[u]]
    BY DEF RowsOf
  <2> QED
    BY <2>1, <2>2 DEF Merged
<1>13. RowsOf(row') = SettledOf(st, b.rep, t, o)
  <2>1. \A u \in Reach(t) : b.st[u] = st[u]
    BY <1>8
  <2> QED
    BY <1>1, <1>3, <1>5, <1>6, <1>9, <1>12, <2>1, MergedIsSettled
<1>14. RunInv(RowsOf(row'))
  BY <1>1, <1>3, <1>5, <1>9, <1>13, SettledRun
<1>15. \A u \in Task : row'[u].attempts = row[u].attempts
  BY <1>7, <1>8, <1>10, <1>11
<1>16. f.st[t] \in FinalStatus \cup Untaken
  BY <1>1, <1>3, <1>4, <1>6, <1>9, SettledTask
<1>17. row'[t].status \notin Held /\ f.st[t] \notin Held
  BY <1>1, <1>4, <1>10, <1>16 DEF FinalStatus, Untaken, Held
<1>18. ASSUME NEW u \in Task, row'[u].status \in Held
       PROVE  u # t /\ row'[u] = row[u]
  <2> SUFFICES ASSUME f.st[u] # b.st[u]
               PROVE  FALSE
    BY <1>10, <1>17, <1>18
  <2>1. f.st[u] = "in-progress"
    BY <1>1, <1>10, <1>18 DEF Statuses, TaskStatus, Held
  <2>2. b.st[u] = "in-progress"
    BY <1>1, <1>3, <1>4, <1>6, <1>9, <2>1, NoneTakenUp
  <2> QED
    BY <2>1, <2>2
<1>19. ASSUME NEW u \in Task, u # t, row[u].status \in Held
       PROVE  row'[u] = row[u]
  <2>1. st[u] \in OpenStatus /\ st[t] \in OpenStatus
    BY <1>1, <1>5, <1>19, SeenRows DEF OpenStatus, st
  <2>2. u \notin Reach(t)
    BY <1>1, <1>3, <1>19, <2>1, OpenIsUnreached
  <2> QED
    BY <1>11, <2>2
<1>20. /\ ledger[t] \in Seq(AttemptStatus) /\ ledger'[t] \in Seq(AttemptStatus)
       /\ ledger'[t] = [ledger[t] EXCEPT ![n] = f.st[t]]
       /\ \A u \in Task \ {t} : ledger'[u] = ledger[u]
  BY <1>1, <1>2, <1>4 DEF TypeOK
<1>21. /\ n = Len(ledger[t]) /\ n > 0 /\ row[t].attempts = Len(ledger[t])
       /\ \A i \in DOMAIN ledger[t] : ledger[t][i] \in Held => i = n
  BY <1>1, <1>5 DEF TableInv, RowMatchesLedger, n
<1>22. Len(ledger'[t]) = Len(ledger[t])
       /\ \A i \in DOMAIN ledger'[t] : ledger'[t][i] \notin Held
  <2>1. n \in DOMAIN ledger[t] /\ DOMAIN ledger'[t] = DOMAIN ledger[t]
    BY <1>20, <1>21, LenProperties
  <2> QED
    BY <1>17, <1>20, <1>21, <2>1, LenProperties
<1>23. RowMatchesLedger'
  <2>1. ASSUME NEW u \in Task
        PROVE  /\ row'[u].attempts = Len(ledger'[u])
               /\ row'[u].status \in Held =>
                    /\ row'[u].owner # NoWorker
                    /\ row'[u].lease = Len(ledger'[u])
                    /\ row'[u].lease > 0 /\ ledger'[u][row'[u].lease] = row'[u].status
               /\ \A i \in DOMAIN ledger'[u] :
                    ledger'[u][i] \in Held => row'[u].status \in Held /\ i = row'[u].lease
    <3>1. CASE u = t
      BY <1>15, <1>17, <1>21, <1>22, <3>1
    <3>2. CASE u # t
      <4>1. ledger'[u] = ledger[u] /\ row'[u].attempts = row[u].attempts
        BY <1>15, <1>20, <3>2
      <4>2. row[u].status \in Held \/ row'[u].status \in Held => row'[u] = row[u]
        BY <1>18, <1>19, <3>2
      <4> QED
        BY <4>1, <4>2 DEF TableInv, RowMatchesLedger
    <3> QED
      BY <3>1, <3>2
  <2> QED
    BY <2>1 DEF RowMatchesLedger
<1>24. ClosedRunIsQuiet'
  <2> SUFFICES ASSUME InferRunStatus(f.st) \in {"completed", "failed"}, NEW u \in Task
               PROVE  row'[u].status \notin Held \cup {"ready"}
    BY <1>2 DEF ClosedRunIsQuiet
  <2>1. \A x \in Task : f.st[x] \notin OpenStatus
    BY ClosedIsNotOpen
  <2>2. ASSUME NEW x \in Task \ {t}
        PROVE  b.st[x] \notin OpenStatus
    <3> SUFFICES ASSUME b.st[x] \in OpenStatus
                 PROVE  FALSE
      OBVIOUS
    <3>1. b.st[t] \in OpenStatus
      BY <1>4 DEF OpenStatus
    <3>2. x \notin Reach(t)
      BY <1>1, <1>3, <3>1, OpenIsUnreached
    <3> QED
      BY <1>11, <2>1, <3>2
  <2>3. \A x \in Task \ {t} : st[x] \notin OpenStatus
    BY <1>8, <2>2 DEF Alone
  <2>4. RowsOf(row')[u] = IF f.st[u] = b.st[u] THEN st[u] ELSE f.st[u]
    BY <1>12 DEF Merged
  <2>5. f.st[t] # b.st[t]
    BY <1>1, <1>4, <2>1 DEF OpenStatus
  <2>6. RowsOf(row')[u] \notin OpenStatus
    BY <2>1, <2>3, <2>4, <2>5
  <2> QED
    BY <1>1, <2>6, SeenRows
<1>25. ASSUME NEW v \in Worker \ {w}
       PROVE  Undisturbed(v)
  <2> DEFINE x == TaskOf(v)
  <2>1. worker'[v] = worker[v]
    <3>1. PICK phase : worker' = [worker EXCEPT ![w] = Resting(phase)]
      BY DEF PersistResult, Finish, Leave
    <3> QED
      BY <3>1 DEF TypeOK
  <2>2. TaskOf(v)' = x /\ x \in Task
    BY <2>1 DEF TaskOf, TypeOK, WorkerState
  <2> SUFFICES ASSUME Holds(v)'
               PROVE  /\ Holds(v)
                      /\ \A u \in Reach(x) :
                            RowsOf(row)'[u] = RowsOf(row)[u] /\ row'[u].attempts = row[u].attempts
                      /\ Alone(RowsOf(row), x) => Alone(RowsOf(row)', x)
    BY DEF Undisturbed
  <2>3. row'[x].status \in Held /\ row'[x].owner = IdOf[v] /\ row'[x].live
    BY <2>2 DEF Holds
  <2> HIDE DEF x
  <2>4. x # t /\ row'[x] = row[x]
    BY <1>18, <2>2, <2>3
  <2>5. Holds(v)
    BY <2>3, <2>4 DEF Holds, x
  <2>6. st[x] = "in-progress"
    BY <1>1, <2>2, <2>3, <2>4, SeenRows DEF st
  <2>7. Reach(t) \cap Reach(x) = {}
    BY <1>1, <1>3, <1>5, <2>2, <2>4, <2>6, ReachesApart
  <2>8. ASSUME NEW u \in Reach(x)
        PROVE  RowsOf(row)'[u] = RowsOf(row)[u] /\ row'[u].attempts = row[u].attempts
    <3>1. u \in Task /\ u \notin Reach(t)
      BY <2>7 DEF Reach
    <3>2. row'[u] = row[u]
      BY <1>11, <3>1
    <3> QED
      BY <3>1, <3>2 DEF RowsOf
  <2>9. ~Alone(RowsOf(row), x)
    BY <1>1, <1>5, <2>4 DEF Alone, OpenStatus, st
  <2> QED
    BY <2>5, <2>8, <2>9
<1>26. KeepsRepairs
  <2> SUFFICES ASSUME NEW a \in repairs
               PROVE  \E c \in repairs' : c.task = a.task /\ c.number = a.number
    BY DEF KeepsRepairs
  <2>1. PICK inserts : repairs' = SettleRepair(repairs \cup inserts, t, f)
    BY DEF PersistResult, t, f
  <2> QED
    BY <2>1, SettleKeeps
<1>27. RunInv(RowsOf(row))'
  BY <1>14 DEF RowsOf
<1> QED
  BY <1>23, <1>24, <1>25, <1>26, <1>27 DEF TableInv

-----------------------------------------------------------------------------
(* What a worker does with its file.                                       *)

\* The result of a worker that was stopped triggers and escalates nothing.
LEMMA StoppedNotes ==
    ASSUME NEW st, NEW rep, NEW t, NEW recoverable
    PROVE  RepairDecision(st, rep, t, StoppedOutcome(recoverable)) = "not-applicable"
BY DEF RepairDecision, StoppedOutcome, Unmet

LEMMA StoppedIsFinal ==
    ASSUME NEW recoverable \in BOOLEAN
    PROVE  FinalResult(StoppedOutcome(recoverable))
<1>1. StoppedOutcome(recoverable).status = "blocked"
  BY DEF StoppedOutcome
<1> QED
  BY <1>1, StoppedIsResult DEF FinalResult, FinalStatus

\* A worker that delivers, from its snapshot, a result keeps in step; one that
\* stops after its repair was found on record keeps that repair.
LEMMA DeliversInStep ==
    ASSUME TypeOK, NEW w \in Worker, InStep(w), UNCHANGED tables,
           NEW f, NEW o, FinalResult(o), NEW phase \in {"executed", "stopped"},
           Delivers(w, f, o, phase), worker[w].phase \in FilePhase,
           Holds(w) => \/ f = worker[w].base
                       \/ /\ Taken(w) /\ f = worker[w].file
                          /\ \E recoverable : o = StoppedOutcome(recoverable)
    PROVE  InStep(w)'
<1> DEFINE t == TaskOf(w)
           next == FileAfter(f, t, o)
<1>1. /\ worker'[w].phase = phase /\ worker'[w].task = worker[w].task
      /\ worker'[w].base = worker[w].base /\ worker'[w].file = next
  <2> HIDE DEF next
  <2>1. worker[w] \in WorkerState
    BY DEF TypeOK
  <2>2. worker' = [worker EXCEPT ![w] =
            [worker[w] EXCEPT !.phase = phase, !.file = next, !.receipt = next.st[TaskOf(w)]]]
    BY DEF Delivers, next
  <2> QED
    BY <2>1, <2>2 DEF TypeOK, WorkerState
<1>2. /\ next.st = SettledOf(f.st, f.rep, t, o) /\ next.att = f.att
      /\ next.rep = NoteRepair(f.rep, RepairDecision(Judged(f.st, t, o), f.rep, t, o), t, o)
      /\ next.esc = IF RepairDecision(Judged(f.st, t, o), f.rep, t, o) = "escalated"
                    THEN o.target ELSE f.esc
  BY DEF FileAfter
<1> HIDE DEF next
<1>3. RunInv(worker[w].base.st) /\ (Holds(w) => UpToDate(w))
  BY DEF InStep
<1>4. TaskOf(w)' = t /\ row' = row /\ repairs' = repairs
  BY <1>1 DEF TaskOf, tables
<1>5. Holds(w)' => Holds(w)
  BY <1>4 DEF Holds
<1>6. UpToDate(w) => UpToDate(w)'
  BY <1>1, <1>4 DEF UpToDate
<1>7. ASSUME Holds(w)
      PROVE  Taken(w)' \/ Made(w)'
  <2>1. CASE f = worker[w].base
    <3>1. next.st = SettledOf(worker[w].base.st, worker[w].base.rep, t, o)
          /\ next.att = worker[w].base.att
      BY <1>2, <2>1
    <3> QED
      BY <1>1, <1>4, <3>1 DEF Made
  <2>2. ASSUME Taken(w), f = worker[w].file, NEW recoverable, o = StoppedOutcome(recoverable)
        PROVE  Taken(w)'
    <3>1. RepairDecision(Judged(f.st, t, o), f.rep, t, o) = "not-applicable"
      BY <2>2, StoppedNotes
    <3>2. next.rep = f.rep /\ next.esc = f.esc
      BY <1>2, <3>1 DEF NoteRepair
    <3> QED
      BY <1>1, <1>4, <2>2, <3>2 DEF Taken, RepairIsTaken, RepairInserts
  <2> QED
    BY <1>7, <2>1, <2>2
<1> QED
  BY <1>1, <1>3, <1>5, <1>6, <1>7 DEF InStep

LEMMA FileInStep ==
    ASSUME ResultStatus \subseteq FinalStatus, TypeOK, TableInv,
           NEW w \in Worker, InStep(w), UNCHANGED tables, FileStep(w)
    PROVE  InStep(w)'
<1>0. worker[w] \in WorkerState /\ TaskOf(w) \in Task
  BY DEF TypeOK, WorkerState, TaskOf
<1>1. CASE Materializes(w)
  <2>1. /\ worker'[w].phase = "executing" /\ worker'[w].task = worker[w].task
        /\ worker'[w].base = Snapshot /\ worker'[w].file = Snapshot
    <3> HIDE DEF Snapshot
    <3> QED
      BY <1>0, <1>1 DEF Materializes, TypeOK, WorkerState
  <2>2. Snapshot.st = RowsOf(row) /\ \A u \in Task : Snapshot.att[u] = row[u].attempts
    BY DEF Snapshot, RowsOf
  <2> HIDE DEF Snapshot
  <2>3. TaskOf(w)' = TaskOf(w) /\ row' = row
    BY <2>1 DEF TaskOf, tables
  <2>4. Reach(TaskOf(w)) \subseteq Task
    BY DEF Reach
  <2>5. UpToDate(w)'
    BY <2>1, <2>2, <2>3, <2>4 DEF UpToDate
  <2>6. Made(w)'
    BY <2>1 DEF Made
  <2> QED
    BY <2>1, <2>2, <2>5, <2>6 DEF InStep, TableInv
<1>2. CASE worker[w].phase = "executing" /\ ~Materializes(w) /\ ~Catches(w)
  <2>1. worker[w].file = worker[w].base
    BY <1>2 DEF InStep, FilePhase
  <2>2. ASSUME NEW o \in Outcomes[StageOf(TaskOf(w))]
        PROVE  FinalResult(o)
    <3>1. StageOf(TaskOf(w)) \in TaskStage
      BY <1>0, TaskIsPair
    <3>2. o.status \in ResultStatus
      BY <3>1 DEF Outcomes
    <3> QED
      BY <3>1, <3>2, OutcomesAreResults DEF FinalResult
  <2>3. \E o, phase : /\ FinalResult(o) /\ phase \in {"executed", "stopped"}
                      /\ Delivers(w, worker[w].base, o, phase)
    BY <1>2, <2>1, <2>2, StoppedIsFinal DEF FileStep
  <2> QED
    BY <1>2, <2>3, DeliversInStep DEF FilePhase
<1>3. CASE worker[w].phase = "caught" /\ ~Materializes(w)
  <2>1. Delivers(w, worker[w].file, StoppedOutcome(FALSE), "stopped")
    BY <1>3 DEF FileStep, Catches
  <2>2. Holds(w) => Taken(w) \/ worker[w].file = worker[w].base
    BY <1>3 DEF InStep, FilePhase, Made
  <2> QED
    BY <1>3, <2>1, <2>2, StoppedIsFinal, DeliversInStep DEF FilePhase
<1>4. CASE Catches(w)
  <2>1. /\ worker'[w].phase = "caught" /\ worker'[w].task = worker[w].task
        /\ worker'[w].base = worker[w].base /\ worker'[w].file = worker[w].file
    BY <1>0, <1>4 DEF Catches, TypeOK, WorkerState
  <2>2. TaskOf(w)' = TaskOf(w) /\ row' = row /\ repairs' = repairs
    BY <2>1 DEF TaskOf, tables
  <2>3. worker[w].phase \in {"executing", "executed"}
    BY <1>4 DEF Catches
  <2>4. RunInv(worker[w].base.st) /\ (Holds(w) => UpToDate(w) /\ (Taken(w) \/ Made(w)))
    BY <2>3 DEF InStep, FilePhase
  <2>5. Holds(w)' = Holds(w)
    BY <2>2 DEF Holds
  <2>6. UpToDate(w) => UpToDate(w)'
    BY <2>1, <2>2 DEF UpToDate
  <2>7. Taken(w) => Taken(w)'
    BY <2>1, <2>2 DEF Taken, RepairIsTaken, RepairInserts
  <2>8. ASSUME Holds(w), Made(w)
        PROVE  Taken(w) \/ Made(w)'
    <3>1. CASE worker[w].phase = "executing"
      BY <2>1, <2>8, <3>1 DEF Made
    <3>2. CASE worker[w].phase # "executing"
      BY <1>4, <2>8, <3>2 DEF Catches, Persistable, Taken
    <3> QED
      BY <3>1, <3>2
  <2> QED
    BY <2>1, <2>4, <2>5, <2>6, <2>7, <2>8 DEF InStep
<1> QED
  BY <1>1, <1>2, <1>3, <1>4 DEF FileStep

-----------------------------------------------------------------------------
(* Every transaction and every step keeps the invariant.                   *)

LEMMA StepPlat ==
    ASSUME FilesAreOwn, IdsAreOwn, OneUpstream, ResultStatus \subseteq FinalStatus,
           PlatInv, [Next]_vars
    PROVE  PlatInv'
<1>0. /\ TypeOK /\ TypeOK' /\ ReceiptInv /\ ReceiptInv' /\ TableInv
      /\ \A w \in Worker : InStep(w)
  BY StepType, StepReceipt DEF PlatInv
<1>1. ASSUME TableInv', KeepsRepairs, NEW w \in Worker, Rests(w),
             \A v \in Worker \ {w} : worker[v].phase \in FilePhase => Undisturbed(v)
      PROVE  PlatInv'
  <2>1. \A v \in Worker \ {w} : InStep(v)'
    BY <1>0, <1>1, KeptInStep DEF Rests
  <2>2. InStep(w)'
    BY <1>1 DEF Rests, InStep
  <2> QED
    BY <1>0, <1>1, <2>1, <2>2 DEF PlatInv
<1>2. ASSUME UNCHANGED tables
      PROVE  /\ TableInv' /\ KeepsRepairs
             /\ \A v \in Worker : worker'[v] = worker[v] => Undisturbed(v)
  BY <1>0, <1>2, QuietTables DEF tables, TaskOf
<1>3. ASSUME UNCHANGED worker, TableInv', KeepsRepairs, \A v \in Worker : Undisturbed(v)
      PROVE  PlatInv'
  BY <1>0, <1>3, KeptInStep DEF PlatInv
<1>4. CASE \E w \in Worker : LeaseNextTask(w)
  <2>1. PICK w \in Worker : LeaseNextTask(w)
    BY <1>4
  <2>2. Rests(w)
    BY <1>0, <2>1, LeaseRests
  <2> QED
    BY <1>0, <1>1, <2>1, <2>2, LeaseTables
<1>5. CASE \E w \in Worker : StopDraining(w)
  <2>1. PICK w \in Worker : Rests(w) /\ UNCHANGED tables
    BY <1>0, <1>5, LeaveRests DEF StopDraining
  <2> QED
    BY <1>1, <1>2, <2>1 DEF Rests
<1>6. CASE \E w \in Worker : WorkerStep(w) \/ WorkerTrouble(w)
  <2>1. PICK w \in Worker : WorkerStep(w) \/ WorkerTrouble(w)
    BY <1>6
  <2>2. CASE StartTask(w)
    BY <1>0, <1>1, <2>1, <2>2, WorkerMoves, StartTables
  <2>3. CASE PersistResult(w)
    BY <1>0, <1>1, <2>1, <2>3, WorkerMoves, PersistTables
  <2>4. CASE UNCHANGED tables /\ Rests(w)
    BY <1>1, <1>2, <2>4 DEF Rests
  <2>5. CASE UNCHANGED tables /\ FileStep(w)
    <3>1. InStep(w)'
      BY <1>0, <2>5, FileInStep
    <3>2. \A v \in Worker \ {w} : InStep(v)'
      BY <1>0, <1>2, <2>5, FileStepIsOwn, KeptInStep
    <3> QED
      BY <1>0, <1>2, <2>5, <3>1, <3>2 DEF PlatInv
  <2> QED
    BY <1>0, <2>1, <2>2, <2>3, <2>4, <2>5, WorkerMoves
<1>7. CASE \E t \in Task : LeaseLapses(t)
  <2>1. PICK t \in Task : LeaseLapses(t)
    BY <1>7
  <2>2. \A u \in Task : /\ row'[u].status = row[u].status
                        /\ row'[u].attempts = row[u].attempts
                        /\ row'[u].lease = row[u].lease
                        /\ row'[u].owner = row[u].owner
                        /\ row'[u].live => row[u].live
    <3>1. \A u \in Task : row[u] \in Row
      BY <1>0 DEF TypeOK
    <3>2. \A u \in Task : row'[u] = IF u = t THEN [row[u] EXCEPT !.live = FALSE] ELSE row[u]
      BY <1>0, <2>1 DEF LeaseLapses, TypeOK
    <3> QED
      BY <3>1, <3>2 DEF Row
  <2>3. /\ TableInv' /\ KeepsRepairs
        /\ \A v \in Worker : Undisturbed(v)
    BY <1>0, <2>1, <2>2, QuietTables DEF LeaseLapses, TaskOf
  <2> QED
    BY <1>3, <2>1, <2>3 DEF LeaseLapses
<1>8. CASE SweepLeases \/ ExpireCommand
  BY <1>0, <1>3, <1>8, ExpireTables DEF SweepLeases, ExpireCommand, ExpireLeases
<1>9. CASE PauseOrResume \/ UNCHANGED vars
  BY <1>2, <1>3, <1>9 DEF PauseOrResume, vars
<1>10. CASE \E w \in Worker : RunLeasedTask(w)
  <2>1. PICK w \in Worker : Rests(w) /\ UNCHANGED tables
    BY <1>0, <1>10, RerunRests DEF RunLeasedTask
  <2> QED
    BY <1>1, <1>2, <2>1 DEF Rests
<1>11. CASE \E w \in Worker : Heartbeat(w)
  BY <1>0, <1>9, <1>11, HeartbeatTables
<1> QED
  BY <1>4, <1>5, <1>6, <1>7, <1>8, <1>9, <1>10, <1>11 DEF Next

LEMMA InitPlat ==
    ASSUME Init
    PROVE  PlatInv
<1>1. TypeOK
  BY InitType
<1>2. \A w \in Worker : worker[w].phase \notin FilePhase
  BY DEF Init, Resting, FilePhase
<1>3. \A u \in Task : /\ row[u].status = InitialStatus[u] /\ row[u].attempts = 0
                      /\ ledger[u] = <<>>
  BY DEF Init
<1>4. InitialStatus[EnvTask] = "ready"
      /\ \A r \in Route : \A s \in RouteStage : InitialStatus[<<r, s>>] = "pending"
  <2>1. \A r \in Route : \A s \in RouteStage : <<r, s>> \in Task /\ <<r, s>> # EnvTask
    BY TaskOfStage DEF EnvTask, RouteStage, RepairableStage
  <2> QED
    BY <2>1, RootWaitsForNothing DEF InitialStatus
<1>5. RowsOf(row) = InitialStatus
  BY <1>3 DEF RowsOf, InitialStatus, SeenAs
<1>6. RunInv(InitialStatus)
  <2> SUFFICES ASSUME NEW r \in Route
               PROVE  /\ RouteInv(InitialStatus, r)
                      /\ InitialStatus[FirstOf(r)] = "pending"
                      /\ ~DependenciesPassed(InitialStatus, FirstOf(r))
    BY DEF RunInv
  <2>1. "requirements-analysis" \in RouteStage /\ "collaboration" \in RouteStage
    BY DEF RouteStage, RepairableStage
  <2>2. RouteInv(InitialStatus, r)
    BY <1>4, <2>1, WaitsForRoute DEF RouteInv, Shaped, Ripe, OpenStatus, Passed
  <2>3. InitialStatus[FirstOf(r)] = "pending"
    BY <1>4, <2>1 DEF FirstOf
  <2>4. ~DependenciesPassed(InitialStatus, FirstOf(r))
    BY <1>4, FirstOfRoute DEF DependenciesPassed, Passed
  <2> QED
    BY <2>2, <2>3, <2>4
<1>7. RowMatchesLedger
  <2>1. \A u \in Task : InitialStatus[u] \notin Held
    BY DEF InitialStatus, Held
  <2> QED
    BY <1>3, <2>1 DEF RowMatchesLedger
<1>8. ClosedRunIsQuiet
  BY DEF Init, ClosedRunIsQuiet
<1>9. ReceiptInv /\ \A w \in Worker : InStep(w)
  BY <1>2 DEF ReceiptInv, Reported, InStep, FilePhase
<1> QED
  BY <1>1, <1>5, <1>6, <1>7, <1>8, <1>9 DEF PlatInv, TableInv

\* Rows and ledger agree: a task is held under the last attempt on its ledger and no
\* other is open, though snapshots overwrite the rows of other tasks too.
THEOREM RowsMatchTheLedger ==
    ASSUME FilesAreOwn, IdsAreOwn, OneUpstream, ResultStatus \subseteq FinalStatus
    PROVE  Spec => []RowMatchesLedger
<1>1. Init => PlatInv
  BY InitPlat
<1>2. PlatInv /\ [Next]_vars => PlatInv'
  BY StepPlat
<1>3. PlatInv => RowMatchesLedger
  BY DEF PlatInv, TableInv
<1> QED
  BY <1>1, <1>2, <1>3, PTL DEF Spec

\* However many workers there are, and whatever lapses or arrives late, one stage of a
\* route at a time is ready, leased or in progress.
THEOREM OneStageAtATimeOnThePlatform ==
    ASSUME FilesAreOwn, IdsAreOwn, OneUpstream, ResultStatus \subseteq FinalStatus
    PROVE  Spec => []OneOpenStagePerRoute
<1>1. Init => PlatInv
  BY InitPlat
<1>2. PlatInv /\ [Next]_vars => PlatInv'
  BY StepPlat
<1>3. PlatInv => OneOpenStagePerRoute
  <2> SUFFICES ASSUME PlatInv, NEW t \in RouteTask, NEW u \in RouteTask,
                      RouteOf(t) = RouteOf(u),
                      row[t].status \in Held \cup {"ready"}, row[u].status \in Held \cup {"ready"}
               PROVE  t = u
    BY DEF OneOpenStagePerRoute
  <2>1. row \in [Task -> Row] /\ RunInv(RowsOf(row))
    BY DEF PlatInv, TypeOK, TableInv
  <2>2. t \in Task \ {EnvTask} /\ u \in Task \ {EnvTask}
    BY DEF Task, RouteTask, EnvTask, RouteStage, RepairableStage
  <2>3. RowsOf(row)[t] \in OpenStatus /\ RowsOf(row)[u] \in OpenStatus
    BY <2>1, <2>2, SeenRows
  <2> QED
    BY <2>1, <2>2, <2>3, OneOpen
<1> QED
  BY <1>1, <1>2, <1>3, PTL DEF Spec

\* A run that the database has as completed or failed has no task that a worker holds
\* or could lease, though its status is inferred from the file of one worker.
THEOREM ClosedRunsAreQuiet ==
    ASSUME FilesAreOwn, IdsAreOwn, OneUpstream, ResultStatus \subseteq FinalStatus
    PROVE  Spec => []ClosedRunIsQuiet
<1>1. Init => PlatInv
  BY InitPlat
<1>2. PlatInv /\ [Next]_vars => PlatInv'
  BY StepPlat
<1>3. PlatInv => ClosedRunIsQuiet
  BY DEF PlatInv, TableInv
<1> QED
  BY <1>1, <1>2, <1>3, PTL DEF Spec

-----------------------------------------------------------------------------
(* The run with its operator.  Every step of ControlPlane is a step of the *)
(* platform, with what it leaves for the operator, or one of his actions.  *)

LEMMA PlatformOrOperator ==
    ASSUME [ControlPlaneNext]_allVars
    PROVE  [Next]_vars \/ OperatorStep
<1>1. ASSUME NEW w \in Worker, Deliver(w)
      PROVE  WorkerStep(w)
  BY <1>1 DEF Deliver, Execute, WorkerStep
<1>2. ASSUME NEW w \in Worker, Persist(w) \/ Materialize(w)
      PROVE  WorkerStep(w)
  BY <1>2 DEF Persist, Materialize, WorkerStep
<1>3. PlatformStep => Next
  BY DEF PlatformStep, Next, WorkerStep
<1>4. UNCHANGED allVars => UNCHANGED vars
  BY DEF allVars
<1> QED
  BY <1>1, <1>2, <1>3, <1>4 DEF ControlPlaneNext, Next

\* What is left for the operator, and what a worker carries of it.
TargetStage == RepairableStage \cup {NoStage}

Delivery == [target : TargetStage, record : {"none", "blocked", "published"}]

OperatorTypeOK ==
    /\ asked \in [Route -> TargetStage]
    /\ records \in [Route -> [blocked : Nat, published : Nat]]
    /\ carried \in [Worker -> Delivery]
    /\ acted \in Nat

\* The row of a task that an action gives the status s.
Reset(t, s) ==
    /\ row'[t].status = s
    /\ row'[t].attempts = row[t].attempts
    /\ row'[t].lease = 0 /\ row'[t].owner = NoWorker /\ ~row'[t].live

\* An action gives the tasks of one set one status and those of another, if any, a second.
Resets(S, s, R, x) ==
    /\ row' \in [Task -> Row]
    /\ \A t \in Task : /\ t \in S => Reset(t, s)
                       /\ t \in R \ S => Reset(t, x)
                       /\ t \notin S \cup R => row'[t] = row[t]

LEMMA ReleasedReset ==
    ASSUME NEW x \in Row, NEW s \in RowStatus
    PROVE  /\ [Released(x) EXCEPT !.status = s] \in Row
           /\ [Released(x) EXCEPT !.status = s].status = s
           /\ [Released(x) EXCEPT !.status = s].attempts = x.attempts
           /\ [Released(x) EXCEPT !.status = s].lease = 0
           /\ [Released(x) EXCEPT !.status = s].owner = NoWorker
           /\ ~[Released(x) EXCEPT !.status = s].live
BY DEF Released, Row

LEMMA RetriedReset ==
    ASSUME NEW x \in Row
    PROVE  /\ RetriedRow(x) \in Row
           /\ RetriedRow(x).status = "ready"
           /\ RetriedRow(x).attempts = x.attempts
           /\ RetriedRow(x).lease = 0
           /\ RetriedRow(x).owner = NoWorker
           /\ ~RetriedRow(x).live
<1> DEFINE y == [Released(x) EXCEPT !.status = "ready"]
           n == x.retry + 1
<1>1. /\ y \in Row /\ y.status = "ready" /\ y.attempts = x.attempts
      /\ y.lease = 0 /\ y.owner = NoWorker /\ ~y.live
  BY ReleasedReset DEF RowStatus, TaskStatus
<1>2. RetriedRow(x) = [y EXCEPT !.retry = n]
  BY DEF RetriedRow, Released, Row
<1>3. n \in Nat
  BY DEF Row
<1> HIDE DEF y, n
<1> QED
  BY <1>1, <1>2, <1>3 DEF Row

LEMMA RetryResets ==
    ASSUME TypeOK, NEW t \in Task, RetryTask(t)
    PROVE  Resets({t}, "ready", {}, "pending")
<1>1. row' = [row EXCEPT ![t] = RetriedRow(row[t])]
  BY DEF RetryTask, WriteRows
<1>2. row \in [Task -> Row]
  BY DEF TypeOK
<1>3. RetriedRow(row[t]) \in Row
  BY <1>2, RetriedReset
<1>4. row' \in [Task -> Row]
  BY <1>1, <1>2, <1>3
<1>5. \A u \in Task \ {t} : row'[u] = row[u]
  BY <1>1, <1>2
<1>6. row'[t] = RetriedRow(row[t])
  BY <1>1, <1>2
<1>7. Reset(t, "ready")
  BY <1>2, <1>6, RetriedReset DEF Reset
<1> QED
  BY <1>4, <1>5, <1>7 DEF Resets

LEMMA RearmResets ==
    ASSUME TypeOK, NEW r \in Route, NEW s, RearmFrom(r, s)
    PROVE  Resets({<<r, s>>}, "ready", {u \in Task : LaterOnRoute(u, <<r, s>>, s)}, "pending")
<1>1. row' = Rearmed(r, s)
  BY DEF RearmFrom, WriteRows
<1>2. \A t \in Task : row[t] \in Row
  BY DEF TypeOK
<1>3. {"ready", "pending"} \subseteq RowStatus
  BY DEF RowStatus, TaskStatus
<1>4. \A t \in Task :
        row'[t] = IF t = <<r, s>> THEN [Released(row[t]) EXCEPT !.status = "ready"]
                  ELSE IF LaterOnRoute(t, <<r, s>>, s)
                       THEN [Released(row[t]) EXCEPT !.status = "pending"]
                       ELSE row[t]
  BY <1>1 DEF Rearmed
<1>5. ASSUME NEW t \in Task, NEW x \in {"ready", "pending"},
             row'[t] = [Released(row[t]) EXCEPT !.status = x]
      PROVE  Reset(t, x) /\ row'[t] \in Row
  BY <1>2, <1>3, <1>5, ReleasedReset DEF Reset
<1>6. row' \in [Task -> Row]
  BY <1>1, <1>2, <1>4, <1>5 DEF Rearmed
<1> DEFINE R == {u \in Task : LaterOnRoute(u, <<r, s>>, s)}
<1>7. ASSUME NEW t \in Task
      PROVE  /\ t \in {<<r, s>>} => Reset(t, "ready")
             /\ t \in R \ {<<r, s>>} => Reset(t, "pending")
             /\ t \notin {<<r, s>>} \cup R => row'[t] = row[t]
  <2>1. t = <<r, s>> => Reset(t, "ready")
    BY <1>4, <1>5
  <2>2. t # <<r, s>> /\ t \in R => Reset(t, "pending")
    BY <1>4, <1>5
  <2>3. t # <<r, s>> /\ t \notin R => row'[t] = row[t]
    BY <1>4
  <2> QED
    BY <2>1, <2>2, <2>3
<1> HIDE DEF R
<1>8. Resets({<<r, s>>}, "ready", R, "pending")
  BY <1>6, <1>7 DEF Resets
<1> QED
  BY <1>8 DEF R

LEMMA CancelResets ==
    ASSUME TypeOK, NEW r \in Route, CancelRoute(r)
    PROVE  Resets(OpenOnRoute(r), "cancelled", {}, "pending")
<1>1. row' = [t \in Task |->
                    IF t \in OpenOnRoute(r) THEN [Released(row[t]) EXCEPT !.status = "cancelled"]
                    ELSE row[t]]
  BY DEF CancelRoute, WriteRows
<1>2. \A t \in Task : row[t] \in Row
  BY DEF TypeOK
<1>3. "cancelled" \in RowStatus
  BY DEF RowStatus
<1>5. \A t \in Task : row'[t] \in Row
  BY <1>1, <1>2, <1>3, ReleasedReset
<1>6. row' \in [Task -> Row]
  BY <1>1, <1>5
<1>7. ASSUME NEW t \in Task, row'[t] = [Released(row[t]) EXCEPT !.status = "cancelled"]
      PROVE  Reset(t, "cancelled")
  BY <1>2, <1>3, <1>7, ReleasedReset DEF Reset
<1> QED
  BY <1>1, <1>6, <1>7 DEF Resets

LEMMA PublishResets ==
    ASSUME TypeOK, NEW r \in Route, ForcePublish(r)
    PROVE  Resets({<<r, "collaboration">>}, "completed", {}, "pending")
<1> DEFINE t == <<r, "collaboration">>
<1>0. t \in Task
  BY TaskOfStage DEF RouteStage
<1>1. row' = [row EXCEPT ![t] = [Released(row[t]) EXCEPT !.status = "completed"]]
  BY DEF ForcePublish, WriteRows
<1>2. row \in [Task -> Row] /\ "completed" \in RowStatus
  BY DEF TypeOK, RowStatus, TaskStatus
<1> HIDE DEF t
<1>3. [Released(row[t]) EXCEPT !.status = "completed"] \in Row
  BY <1>0, <1>2, ReleasedReset
<1>4. row' \in [Task -> Row]
  BY <1>1, <1>2, <1>3
<1>5. \A u \in Task \ {t} : row'[u] = row[u]
  BY <1>1, <1>2
<1>6. row'[t] = [Released(row[t]) EXCEPT !.status = "completed"]
  BY <1>0, <1>1, <1>2
<1>7. Reset(t, "completed")
  BY <1>0, <1>2, <1>6, ReleasedReset DEF Reset
<1>8. Resets({t}, "completed", {}, "pending")
  BY <1>4, <1>5, <1>7 DEF Resets
<1> QED
  BY <1>8 DEF t

\* The actions touch the rows and nothing else the workers work with.
LEMMA OperatorKeeps ==
    ASSUME OperatorStep
    PROVE  UNCHANGED <<ledger, repairs, worker, carried>>
BY DEF OperatorStep, RetryTask, ResumeFromTargetStage, RerouteToStage, RearmFrom, CancelRoute,
       ForcePublish, ForcePublishFails, WriteRows, vars, tables

LEMMA OperatorResets ==
    ASSUME TypeOK, OperatorStep
    PROVE  /\ row' \in [Task -> Row]
           /\ \A t \in Task : \/ row'[t] = row[t]
                              \/ \E s \in {"ready", "pending", "cancelled", "completed"} : Reset(t, s)
<1>1. ASSUME NEW S, NEW s \in {"ready", "pending", "cancelled", "completed"}, NEW R,
             Resets(S, s, R, "pending")
      PROVE  /\ row' \in [Task -> Row]
             /\ \A t \in Task : \/ row'[t] = row[t]
                                \/ \E x \in {"ready", "pending", "cancelled", "completed"} : Reset(t, x)
  BY <1>1 DEF Resets
<1>2. ASSUME NEW t \in Task, RetryTask(t)
      PROVE  Resets({t}, "ready", {}, "pending")
  BY <1>2, RetryResets
<1>3. ASSUME NEW r \in Route, ResumeFromTargetStage(r) \/ RerouteToStage(r)
      PROVE  \E S, R : Resets(S, "ready", R, "pending")
  BY <1>3, RearmResets DEF ResumeFromTargetStage, RerouteToStage
<1>4. ASSUME NEW r \in Route, CancelRoute(r)
      PROVE  \E S : Resets(S, "cancelled", {}, "pending")
  BY <1>4, CancelResets
<1>5. ASSUME NEW r \in Route, ForcePublish(r)
      PROVE  \E S : Resets(S, "completed", {}, "pending")
  BY <1>5, PublishResets
<1>6. ASSUME row' = row
      PROVE  /\ row' \in [Task -> Row]
             /\ \A t \in Task : row'[t] = row[t]
  BY <1>6 DEF TypeOK
<1>7. (\E r \in Route : ForcePublishFails(r)) => row' = row
  BY DEF ForcePublishFails, vars, tables
<1> QED
  BY <1>1, <1>2, <1>3, <1>4, <1>5, <1>6, <1>7 DEF OperatorStep

LEMMA ProgressType ==
    ASSUME NEW rows
    PROVE  InferRunProgress(rows) \in RunStatus
BY DEF InferRunProgress, RunStatus

LEMMA OperatorStepType ==
    ASSUME TypeOK, OperatorStep
    PROVE  TypeOK'
<1>1. row' \in [Task -> Row] /\ UNCHANGED <<ledger, repairs, worker, carried>>
  BY OperatorResets, OperatorKeeps
<1>2. runStatus' \in RunStatus /\ paused' \in BOOLEAN
  BY ProgressType
     DEF OperatorStep, RetryTask, ResumeFromTargetStage, RerouteToStage, RearmFrom, CancelRoute,
         ForcePublish, ForcePublishFails, WriteRows, vars, tables, TypeOK
<1> QED
  BY <1>1, <1>2 DEF TypeOK

LEMMA OperatedStepType ==
    ASSUME TypeOK, [ControlPlaneNext]_allVars
    PROVE  TypeOK'
BY PlatformOrOperator, OperatorStepType, StepType

\* The rows an operator resets under the workers are rows still, and the progress he
\* infers from them is a status of a run.
THEOREM OperatedTypeCorrect == ControlPlaneSpec => []TypeOK
<1>1. Init => TypeOK
  BY InitType
<1>2. TypeOK /\ [ControlPlaneNext]_allVars => TypeOK'
  BY OperatedStepType
<1> QED
  BY <1>1, <1>2, PTL DEF ControlPlaneSpec

-----------------------------------------------------------------------------
(* Attempts under an operator.  He takes rows from workers, and gives them *)
(* to none.                                                                *)

LEMMA OperatorOwners ==
    ASSUME TypeOK, OperatorStep
    PROVE  KeepsWork /\ KeepsOwners
<1>1. KeepsWork
  BY OperatorKeeps DEF KeepsWork, Working, TaskOf
<1>2. KeepsOwners
  BY OperatorResets DEF KeepsOwners, Reset
<1> QED
  BY <1>1, <1>2

LEMMA OperatedOwnerLease ==
    ASSUME TypeOK, OwnerLease, [ControlPlaneNext]_allVars
    PROVE  OwnerLease'
<1>1. TypeOK'
  BY OperatedStepType
<1>2. ASSUME OperatorStep
      PROVE  OwnerLease'
  BY <1>1, <1>2, OperatorOwners, KeptOwnerLease
<1> QED
  BY <1>2, StepOwnerLease, PlatformOrOperator

LEMMA InitOwnerLease ==
    ASSUME Init
    PROVE  OwnerLease
<1>1. \A w \in Worker : worker[w].phase = "idle"
  BY DEF Init, Resting
<1> QED
  BY <1>1 DEF OwnerLease, Working

\* Also under an operator who takes rows from their workers and readies them again, an
\* attempt is closed by a worker of the id on the row, and by the one that set out on that
\* very attempt if nobody shares its id.
THEOREM OperatedResultsCloseTheirAttempt == ControlPlaneSpec => ResultsCloseOwnAttempt
<1>1. Init => TypeOK /\ OwnerLease
  BY InitType, InitOwnerLease
<1>2. TypeOK /\ OwnerLease /\ [ControlPlaneNext]_allVars => TypeOK' /\ OwnerLease'
  BY OperatedStepType, OperatedOwnerLease
<1>3. TypeOK /\ OwnerLease /\ [ControlPlaneNext]_allVars =>
        [\A t \in Task : \A n \in DOMAIN ledger[t] :
            ledger'[t][n] # ledger[t][n] /\ ledger'[t][n] \in TaskStatus \ {"in-progress"} =>
                \E w \in Worker :
                    /\ worker[w].phase \in {"executed", "stopped"}
                    /\ TaskOf(w) = t
                    /\ IdOf[w] = row[t].owner
                    /\ IdIsOwn(w) => worker[w].given = n]_vars
  <2>1. OperatorStep => UNCHANGED ledger
    BY OperatorKeeps
  <2> QED
    BY <2>1, StepClosesOwn, PlatformOrOperator
<1> QED
  BY <1>1, <1>2, <1>3, PTL DEF ControlPlaneSpec, ResultsCloseOwnAttempt

LEMMA OperatedReceipt ==
    ASSUME FilesAreOwn, TypeOK, ReceiptInv, [ControlPlaneNext]_allVars
    PROVE  ReceiptInv'
<1>1. ASSUME OperatorStep
      PROVE  ReceiptInv'
  BY <1>1, OperatorKeeps DEF ReceiptInv, Reported, TaskOf
<1> QED
  BY <1>1, StepReceipt, PlatformOrOperator

-----------------------------------------------------------------------------
(* Steps after which nobody holds what he did not.                         *)

LosesHold(w) ==
    \/ worker'[w].phase \notin FilePhase
    \/ worker'[w] = worker[w] /\ (Holds(w)' => Holds(w))

LEMMA ExpiryLosesHold ==
    ASSUME TypeOK, ExpireLeases, NEW w \in Worker
    PROVE  LosesHold(w)
<1>1. /\ \A t \in Task : row'[t] = IF t \in Lapsed THEN ExpireRow(t) ELSE row[t]
      /\ worker' = worker
  BY DEF ExpireLeases
<1>2. ASSUME Holds(w)'
      PROVE  Holds(w)
  <2>1. TaskOf(w)' = TaskOf(w) /\ TaskOf(w) \in Task
    BY <1>1 DEF TypeOK, WorkerState, TaskOf
  <2>2. IdOf[w] # NoWorker
    BY PlatformAssumption
  <2> QED
    BY <1>1, <1>2, <2>1, <2>2, ExpireRowType DEF Holds
<1> QED
  BY <1>1, <1>2 DEF LosesHold

LEMMA LapseLosesHold ==
    ASSUME TypeOK, NEW t \in Task, LeaseLapses(t), NEW w \in Worker
    PROVE  LosesHold(w)
<1>1. /\ row' = [row EXCEPT ![t] = [row[t] EXCEPT !.live = FALSE]]
      /\ worker' = worker
  BY DEF LeaseLapses
<1>2. \A u \in Task : row[u] \in Row
  BY DEF TypeOK
<1>3. \A u \in Task : /\ row'[u].status = row[u].status
                     /\ row'[u].owner = row[u].owner /\ (row'[u].live => row[u].live)
  BY <1>1, <1>2 DEF TypeOK, Row
<1>4. ASSUME Holds(w)'
      PROVE  Holds(w)
  <2>1. TaskOf(w)' = TaskOf(w) /\ TaskOf(w) \in Task
    BY <1>1 DEF TypeOK, WorkerState, TaskOf
  <2> QED
    BY <1>3, <1>4, <2>1 DEF Holds
<1> QED
  BY <1>1, <1>4 DEF LosesHold

LEMMA OperatorLosesHold ==
    ASSUME TypeOK, OperatorStep, NEW w \in Worker
    PROVE  LosesHold(w)
<1>1. worker' = worker
  BY OperatorKeeps
<1>2. \A u \in Task : row'[u] = row[u] \/ row'[u].owner = NoWorker
  BY OperatorResets DEF Reset
<1>3. ASSUME Holds(w)'
      PROVE  Holds(w)
  <2>1. TaskOf(w)' = TaskOf(w) /\ TaskOf(w) \in Task /\ IdOf[w] # NoWorker
    BY <1>1, PlatformAssumption DEF TypeOK, WorkerState, TaskOf
  <2> QED
    BY <1>2, <1>3, <2>1 DEF Holds
<1> QED
  BY <1>1, <1>3 DEF LosesHold

-----------------------------------------------------------------------------
(* The repair an evaluation asked for.                                     *)

OneWorker == \E w \in Worker : Worker = {w}

\* A result completes its own task and no other.
LEMMA CompletedBefore ==
    ASSUME NEW st \in Statuses, NEW rep, NEW t \in Task, NEW o, Result(o),
           NEW v \in Task, v # t, SettledOf(st, rep, t, o)[v] = "completed"
    PROVE  st[v] = "completed"
<1> DEFINE done == [st EXCEPT ![t] = o.status]
           routed == ApplyRouteOutcome(done, t, o)
           handed == CollaborationApprovalGate(routed, t, o)
           accepted == EvaluationAcceptanceGate(handed, t, o)
           judged == PublicationGate(accepted, t, o)
           decision == RepairDecision(judged, rep, t, o)
           settled == ApplyAutoRepair(judged, decision, t, o)
<1>1. SettledOf(st, rep, t, o) = PromoteReadyTasks(settled) /\ settled \in Statuses
      /\ judged = Judged(st, t, o)
  <2>1. judged = Judged(st, t, o)
    BY DEF Judged, Gated
  <2> HIDE DEF judged
  <2> QED
    BY <2>1, SettledIsPromoted DEF After
<1>2. done \in Statuses /\ done[v] = st[v]
  BY DEF Statuses, Result
<1> HIDE DEF done
<1>3. routed \in Statuses /\ (routed[v] = "completed" => done[v] = "completed")
  <2> DEFINE skipped == SkipBeforeDefect(done, t)
  <2>1. skipped \in Statuses /\ (skipped[v] = "completed" => done[v] = "completed")
    BY <1>2, SkipType DEF SkipBeforeDefect
  <2>2. RouteStageOutcomeToDefect(done, t)[v] = "completed" => skipped[v] = "completed"
    <3> HIDE DEF skipped
    <3>1. RouteStageOutcomeToDefect(done, t) =
            [skipped EXCEPT
              ![Sibling(t, "collaboration")] = IF @ = "ready" THEN "pending" ELSE @,
              ![Sibling(t, "defect-feedback")] =
                  IF /\ StageOf(t) # "automated-execution"
                     /\ @ \in {"pending", "completed", "skipped", "blocked"}
                  THEN "ready" ELSE @]
      BY DEF RouteStageOutcomeToDefect, skipped
    <3> QED
      BY <2>1, <3>1 DEF Statuses
  <2> HIDE DEF skipped
  <2>3. [done EXCEPT ![Sibling(t, "defect-feedback")] =
                IF @ = "pending" THEN "skipped" ELSE @][v] = "completed" => done[v] = "completed"
    BY <1>2 DEF Statuses
  <2> QED
    BY <1>2, <2>1, <2>2, <2>3, RouteOutcomeType DEF ApplyRouteOutcome
<1> HIDE DEF routed
<1>4. handed \in Statuses /\ handed[v] = routed[v]
  BY <1>3, CollaborationGateType DEF CollaborationApprovalGate, Statuses
<1> HIDE DEF handed
<1>5. accepted \in Statuses /\ (accepted[v] = "completed" => handed[v] = "completed")
  <2>1. BackToDefect(handed, t)[v] = "completed" => handed[v] = "completed"
    BY <1>4 DEF BackToDefect, Statuses
  <2>2. RerouteEvaluation(handed, t, o.target)[v] = "completed" => handed[v] = "completed"
    BY DEF RerouteEvaluation
  <2>3. [handed EXCEPT ![t] = "blocked"][v] = handed[v]
    BY <1>4 DEF Statuses
  <2> QED
    BY <1>4, <2>1, <2>2, <2>3, AcceptanceGateType DEF EvaluationAcceptanceGate
<1> HIDE DEF accepted
<1>6. judged \in Statuses /\ judged[v] = accepted[v]
  BY <1>5, PublicationGateType DEF PublicationGate, Statuses
<1> HIDE DEF judged
<1>7. decision \in {"not-applicable", "escalated", "triggered"}
  BY DecisionType
<1> HIDE DEF decision
<1>8. settled[v] = "completed" => judged[v] = "completed"
  BY <1>6, <1>7 DEF ApplyAutoRepair, Statuses
<1> HIDE DEF settled
<1>9. settled[v] = "completed"
  BY <1>1, PromotedTask
<1> QED
  BY <1>2, <1>3, <1>4, <1>5, <1>6, <1>8, <1>9

\* An evaluation that asks for a repair is blocked.
LEMMA AskingIsBlocked ==
    ASSUME NEW st \in Statuses, NEW rep, NEW t \in Task, NEW o, Result(o),
           StageOf(t) = "evaluation", RerouteRequested(o)
    PROVE  SettledOf(st, rep, t, o)[t] = "blocked"
<1> DEFINE routed == ApplyRouteOutcome([st EXCEPT ![t] = o.status], t, o)
           handed == CollaborationApprovalGate(routed, t, o)
           gated == EvaluationAcceptanceGate(handed, t, o)
<1>1. [st EXCEPT ![t] = o.status] \in Statuses
  BY DEF Statuses, Result
<1>2. handed \in Statuses
  BY <1>1, RouteOutcomeType, CollaborationGateType
<1>3. gated = Gated(st, t, o)
  BY DEF Gated
<1> HIDE DEF handed
<1>4. gated[t] = "blocked"
  <2>1. BackToDefect(handed, t)[t] = "blocked"
    BY <1>2 DEF BackToDefect, Statuses
  <2>2. ASSUME o.target # NoStage
        PROVE  RerouteEvaluation(handed, t, o.target)[t] = "blocked"
    <3>1. t # Sibling(t, o.target)
      BY <2>2 DEF Result, RepairableStage, Sibling, StageOf
    <3> QED
      BY <3>1 DEF RerouteEvaluation
  <2> QED
    BY <2>1, <2>2 DEF EvaluationAcceptanceGate
<1> HIDE DEF gated
<1>5. Judged(st, t, o)[t] = "blocked"
  BY <1>3, <1>4 DEF Judged, PublicationGate, PublishesRoute
<1>6. After(st, rep, t, o)[t] = "blocked"
  BY <1>5, AfterIsJudged
<1>7. SettledOf(st, rep, t, o) = PromoteReadyTasks(After(st, rep, t, o)) /\ After(st, rep, t, o) \in Statuses
  BY SettledIsPromoted
<1> QED
  BY <1>6, <1>7, PromotedTask

\* Tasks are listed by the names of their stages.
LEMMA ListOrderValues ==
    \A s \in RouteStage : ListOrder[s] \in Nat
<1>1. \A s \in RouteStage : \E i \in 1..7 : StagesByName[i] = s
  BY SMTT(30) DEF RouteStage, RepairableStage, StagesByName
<1> QED
  BY <1>1 DEF ListOrder

\* Of the tasks of a list there is a first.
LEMMA FirstListedExists ==
    ASSUME NEW S \in SUBSET Task, S # {}
    PROVE  FirstListed(S) # {}
<1>1. CASE EnvTask \in S
  BY <1>1 DEF FirstListed, ListedBefore
<1>2. CASE EnvTask \notin S
  <2>1. PICK t \in S : TRUE
    OBVIOUS
  <2> DEFINE N == {ListOrder[StageOf(u)] : u \in {v \in S : RouteOf(v) = RouteOf(t)}}
  <2>2. \A u \in S : StageOf(u) \in RouteStage
    BY <1>2, TaskIsPair
  <2>3. N \in SUBSET Nat /\ N # {}
    BY <2>1, <2>2, ListOrderValues
  <2>4. PICK n \in N : \A m \in N : n =< m
    BY <2>3, LeastNatural
  <2>5. PICK u \in S : RouteOf(u) = RouteOf(t) /\ n = ListOrder[StageOf(u)]
    BY <2>4
  <2>6. ASSUME NEW v \in S, ListedBefore(v, u)
        PROVE  FALSE
    <3>1. RouteOf(v) = RouteOf(t) /\ ListOrder[StageOf(v)] < n
      BY <1>2, <2>5, <2>6 DEF ListedBefore
    <3>2. ListOrder[StageOf(v)] \in N /\ n \in Nat
      BY <2>3, <2>4, <3>1
    <3>3. ListOrder[StageOf(v)] \in Nat
      BY <2>3, <3>2
    <3> HIDE DEF N
    <3> QED
      BY <2>4, <3>1, <3>2, <3>3
  <2> QED
    BY <2>5, <2>6 DEF FirstListed
<1> QED
  BY <1>1, <1>2

LEMMA BlockedHasAWayOn == BlockedTaskHasAWayOn
<1> SUFFICES ASSUME RunIsOpen, Blocked # {}, StuckRepairs = {}, NEW bar \in Bars(FALSE)
             PROVE  \E o \in bar : o.action # "pause" /\ Works(o)
  BY DEF BlockedTaskHasAWayOn
<1>1. CASE \E r \in Route : Rerouted(r)
  <2>1. PICK r \in Route : Rerouted(r) /\ bar = RerouteOffers(r)
    BY <1>1 DEF Bars
  <2>2. PICK s \in RepairableStage \ {asked[r]} : TRUE
    <3>1. "test-design" \in RepairableStage /\ "code-implementation" \in RepairableStage
      BY DEF RepairableStage
    <3> QED
      BY <3>1
  <2> DEFINE o == Offer("reroute", <<r, "evaluation">>, s)
  <2>3. o \in bar
    BY <2>1, <2>2 DEF RerouteOffers
  <2>4. o.action = "reroute" /\ RouteOf(o.task) = r
    BY DEF Offer, RouteOf
  <2> HIDE DEF o
  <2>5. Works(o)
    BY <2>1, <2>4 DEF Works, MayRearm
  <2> QED
    BY <2>3, <2>4, <2>5
<1>2. CASE ~\E r \in Route : Rerouted(r)
  <2>1. FirstBlocked # {}
    BY FirstListedExists DEF FirstBlocked, Blocked
  <2>2. PICK t \in FirstBlocked : bar = {Retry(t)}
    BY <1>2, <2>1 DEF Bars
  <2>3. MayRetry(t)
    BY DEF FirstBlocked, FirstListed, Blocked, MayRetry, Retriable
  <2>4. Retry(t).action = "retry" /\ Retry(t).task = t
    BY DEF Retry, Offer
  <2>5. Works(Retry(t))
    BY <2>3, <2>4 DEF Works
  <2> QED
    BY <2>2, <2>4, <2>5
<1> QED
  BY <1>1, <1>2

\* In every state of every run, a page that shows a blocked task and no stuck repair
\* offers an action that goes on with the run and that the control plane accepts.
THEOREM BlockedTasksHaveAWayOn == ControlPlaneSpec => []BlockedTaskHasAWayOn
BY BlockedHasAWayOn, PTL

-----------------------------------------------------------------------------
(* Types of what is left for the operator.                                 *)

\* What an evaluation may ask for, and what a worker carries of it.
LEMMA NamedType ==
    ASSUME NEW t \in Task, NEW o \in Outcomes[StageOf(t)], NEW target \in TargetsNamed(t, o),
           NEW st, NEW record \in {RecordOf(st, t, o)}
    PROVE  [target |-> target, record |-> record] \in Delivery
<1>1. StageOf(t) \in TaskStage
  BY TaskIsPair
<1>2. o.target \in TargetStage
  BY <1>1, OutcomesAreResults DEF Result, TargetStage
<1>3. o.publication \in {"published", "blocked", "not-applicable"}
  BY <1>1 DEF Outcomes
<1>4. target \in TargetStage
  BY <1>2 DEF TargetsNamed, TargetStage
<1>5. record \in {"none", "blocked", "published"}
  BY <1>3 DEF RecordOf
<1> QED
  BY <1>4, <1>5 DEF Delivery

LEMMA CarryingType ==
    ASSUME OperatorTypeOK, NEW v \in Worker
    PROVE  Carrying(v) \in Delivery
<1>1. carried[v] \in Delivery /\ NoStage \in TargetStage
  BY DEF OperatorTypeOK, TargetStage
<1>2. [carried[v] EXCEPT !.target = NoStage] \in Delivery /\ Nothing \in Delivery
  BY <1>1 DEF Delivery, Nothing
<1>3. {"executing", "executed"} \cap {"caught", "stopped"} = {}
  OBVIOUS
<1> QED
  BY <1>1, <1>2, <1>3 DEF Carrying

LEMMA PersistOperatorType ==
    ASSUME TypeOK, OperatorTypeOK, NEW w \in Worker, Persist(w)
    PROVE  OperatorTypeOK'
<1>0. TaskOf(w) \in Task
  BY DEF TypeOK, WorkerState, TaskOf
<1>1. carried[w] \in Delivery /\ Nothing \in Delivery
  BY DEF OperatorTypeOK, Delivery, Nothing, TargetStage
<1>2. carried' \in [Worker -> Delivery] /\ acted' \in Nat
  BY <1>1 DEF Persist, OperatorTypeOK
<1>3. asked' \in [Route -> TargetStage]
  BY <1>1 DEF Persist, OperatorTypeOK, Delivery
<1>4. ASSUME NEW r \in Route
      PROVE  Recorded(records[r], carried[w].record) \in [blocked : Nat, published : Nat]
  <2>1. records[r] \in [blocked : Nat, published : Nat]
        /\ carried[w].record \in {"none", "blocked", "published"}
    BY <1>1 DEF OperatorTypeOK, Delivery
  <2> QED
    BY <2>1 DEF Recorded
<1>5. records' \in [Route -> [blocked : Nat, published : Nat]]
  <2>1. ASSUME NEW r \in Route, records' = [records EXCEPT ![r] = Recorded(@, carried[w].record)]
        PROVE  records' \in [Route -> [blocked : Nat, published : Nat]]
    BY <1>4, <2>1 DEF OperatorTypeOK
  <2>2. StageOf(TaskOf(w)) = "evaluation" => RouteOf(TaskOf(w)) \in Route
    BY <1>0, TaskIsPair DEF EnvTask, StageOf
  <2> QED
    BY <2>1, <2>2 DEF Persist, OperatorTypeOK
<1> QED
  BY <1>2, <1>3, <1>5 DEF OperatorTypeOK

LEMMA OperatorStepOperatorType ==
    ASSUME OperatorTypeOK, OperatorStep
    PROVE  OperatorTypeOK'
<1>1. carried' = carried /\ acted' \in Nat
  <2>1. Act => acted' \in Nat
    BY DEF Act, OperatorTypeOK
  <2> QED
    BY <2>1, OperatorKeeps
       DEF OperatorStep, RetryTask, ResumeFromTargetStage, RerouteToStage, RearmFrom, CancelRoute,
           ForcePublish, ForcePublishFails
<1>2. asked' \in [Route -> TargetStage]
  BY DEF OperatorStep, RetryTask, ResumeFromTargetStage, RerouteToStage, RearmFrom, CancelRoute,
         ForcePublish, ForcePublishFails, OperatorTypeOK, TargetStage
<1>3. records' \in [Route -> [blocked : Nat, published : Nat]]
  <2>1. ASSUME NEW r \in Route, ForcePublish(r)
        PROVE  records' \in [Route -> [blocked : Nat, published : Nat]]
    <3>1. records[r] \in [blocked : Nat, published : Nat] /\ records[r].blocked > 0
      BY <2>1 DEF ForcePublish, Publishable, OperatorTypeOK
    <3>2. records[r].blocked - 1 \in Nat /\ records[r].published + 1 \in Nat
      BY <3>1
    <3> QED
      BY <2>1, <3>2 DEF ForcePublish, OperatorTypeOK
  <2>2. ASSUME NEW r \in Route, ForcePublishFails(r)
        PROVE  records' \in [Route -> [blocked : Nat, published : Nat]]
    <3>1. records[r] \in [blocked : Nat, published : Nat]
      BY DEF OperatorTypeOK
    <3> QED
      BY <2>2, <3>1 DEF ForcePublishFails, OperatorTypeOK
  <2> QED
    BY <2>1, <2>2
       DEF OperatorStep, RetryTask, ResumeFromTargetStage, RerouteToStage, RearmFrom, CancelRoute,
           OperatorTypeOK
<1> QED
  BY <1>1, <1>2, <1>3 DEF OperatorTypeOK

LEMMA OperatedOperatorType ==
    ASSUME TypeOK, OperatorTypeOK, [ControlPlaneNext]_allVars
    PROVE  OperatorTypeOK'
<1>1. CASE PlatformStep
  BY <1>1, CarryingType DEF PlatformStep, OperatorTypeOK
<1>2. ASSUME NEW w \in Worker, Materialize(w)
      PROVE  OperatorTypeOK'
  <2>1. \A v \in Worker : [carried[v] EXCEPT !.record = "none"] \in Delivery
    BY DEF OperatorTypeOK, Delivery
  <2> QED
    BY <1>2, <2>1 DEF Materialize, OperatorTypeOK
<1>3. ASSUME NEW w \in Worker, Deliver(w)
      PROVE  OperatorTypeOK'
  <2>0. TaskOf(w) \in Task
    BY DEF TypeOK, WorkerState, TaskOf
  <2>1. PICK o \in Outcomes[StageOf(TaskOf(w))] :
        \E target \in TargetsNamed(TaskOf(w), o), record \in {RecordOf(StateRead(w).st, TaskOf(w), o)} :
            /\ carried' = [v \in Worker |->
                            IF v = w THEN [target |-> target, record |-> record]
                            ELSE IF SharesFile(v, w) THEN [carried[v] EXCEPT !.record = record]
                            ELSE carried[v]]
            /\ UNCHANGED <<asked, records, acted>>
    BY <1>3 DEF Deliver
  <2> DEFINE st == StateRead(w).st
  <2>a. PICK target \in TargetsNamed(TaskOf(w), o), record \in {RecordOf(st, TaskOf(w), o)} :
            /\ carried' = [v \in Worker |->
                            IF v = w THEN [target |-> target, record |-> record]
                            ELSE IF SharesFile(v, w) THEN [carried[v] EXCEPT !.record = record]
                            ELSE carried[v]]
            /\ UNCHANGED <<asked, records, acted>>
    BY <2>1
  <2> HIDE DEF st
  <2>2. [target |-> target, record |-> record] \in Delivery
    BY <2>0, NamedType
  <2>3. record \in {"none", "blocked", "published"}
    BY <2>2 DEF Delivery
  <2>4. \A v \in Worker : [carried[v] EXCEPT !.record = record] \in Delivery /\ carried[v] \in Delivery
    BY <2>3 DEF OperatorTypeOK, Delivery
  <2> QED
    BY <2>a, <2>2, <2>4 DEF OperatorTypeOK
<1>4. CASE UNCHANGED allVars
  BY <1>4 DEF allVars, operatorVars, OperatorTypeOK
<1> QED
  BY <1>1, <1>2, <1>3, <1>4, PersistOperatorType, OperatorStepOperatorType DEF ControlPlaneNext

LEMMA InitOperatorType ==
    ASSUME OperatorInit
    PROVE  OperatorTypeOK
BY DEF OperatorInit, OperatorTypeOK, TargetStage, Delivery, Nothing

-----------------------------------------------------------------------------
(* What becomes of the status of a row when no result is persisted.        *)

SilentMove(x, y) ==
    \/ y = x
    \/ x = "ready" /\ y = "leased"
    \/ x \in Held /\ y \in {"in-progress", "ready", "blocked"}

\* The steps of the platform that persist no result.
SilentStep ==
    \/ \E w \in Worker : LeaseNextTask(w) \/ RunLeasedTask(w) \/ StopDraining(w)
    \/ \E w \in Worker : PlainStep(w) \/ MaterializeClaim(w) \/ Execute(w) \/ WorkerTrouble(w)
    \/ \E w \in Worker : Heartbeat(w)
    \/ \E t \in Task : LeaseLapses(t)
    \/ ExpireLeases
    \/ PauseOrResume
    \/ UNCHANGED vars

LEMMA SilentOrPersist ==
    /\ [Next]_vars => SilentStep \/ \E w \in Worker : PersistResult(w)
    /\ PlatformStep => SilentStep
BY DEF Next, WorkerStep, SilentStep, PlatformStep, SweepLeases, ExpireCommand

LEMMA SilentStatus ==
    ASSUME TypeOK, SilentStep, NEW u \in Task
    PROVE  SilentMove(row[u].status, row'[u].status)
<1>0. \A t \in Task : row[t] \in Row
  BY DEF TypeOK
<1>1. ASSUME NEW w \in Worker, LeaseNextTask(w)
      PROVE  SilentMove(row[u].status, row'[u].status)
  <2>1. PICK t \in NextToLease : row' = [row EXCEPT ![t] = Leased(row[t], Len(ledger[t]) + 1, w)]
    BY <1>1 DEF LeaseNextTask
  <2>2. t \in Task /\ row[t].status = "ready"
    BY DEF NextToLease, Ready
  <2>3. Len(ledger[t]) + 1 \in Nat
    BY <2>2, LenProperties DEF TypeOK
  <2>4. u # t => row'[u] = row[u]
    BY <2>1
  <2>5. row'[t] = Leased(row[t], Len(ledger[t]) + 1, w)
    BY <2>1, <2>2 DEF TypeOK
  <2>6. row'[t].status = "leased"
    BY <1>0, <2>2, <2>3, <2>5, LeasedRowTask
  <2> QED
    BY <2>2, <2>4, <2>6 DEF SilentMove
<1>2. ASSUME NEW w \in Worker, StartTask(w)
      PROVE  SilentMove(row[u].status, row'[u].status)
  BY <1>0, <1>2 DEF StartTask, SilentMove, Held, TypeOK, Row
<1>3. CASE ExpireLeases
  <2>1. row'[u] = IF u \in Lapsed THEN ExpireRow(u) ELSE row[u]
    BY <1>3 DEF ExpireLeases
  <2> QED
    BY <2>1, ExpireRowTask DEF SilentMove, Lapsed
<1>4. ASSUME NEW t \in Task, LeaseLapses(t)
      PROVE  SilentMove(row[u].status, row'[u].status)
  BY <1>0, <1>4 DEF LeaseLapses, SilentMove, TypeOK, Row
<1>5. row' = row => SilentMove(row[u].status, row'[u].status)
  BY DEF SilentMove
<1> QED
  BY <1>1, <1>2, <1>3, <1>4, <1>5
     DEF SilentStep, PlainStep, WorkerTrouble, StopDraining, StartRejected, MaterializeClaim,
         MaterializeFails, Execute, ExecuteWith, WriteStopped, PersistFails, ExecutionThrows,
         RunLeasedTask, Heartbeat, HeartbeatRejected, HeartbeatErrors, Crash, PauseOrResume,
         tables, vars

-----------------------------------------------------------------------------
(* The repair an accepted evaluation once asked for.  A worker carries a   *)
(* target only with an evaluation it has blocked, and completes no task    *)
(* but its own, so an evaluation is completed by the persist that clears   *)
(* its target.                                                             *)

CompletesOwn(w) ==
    worker[w].phase \in FilePhase =>
        \A u \in Task \ {TaskOf(w)} :
            worker[w].file.st[u] = "completed" => worker[w].base.st[u] = "completed"

CarriesAsked(w) ==
    carried[w].target # NoStage =>
        /\ worker[w].phase = "executed"
        /\ StageOf(TaskOf(w)) = "evaluation"
        /\ worker[w].file.st[TaskOf(w)] = "blocked"

AskInv ==
    /\ AcceptedRouteHasNoTarget
    /\ \A w \in Worker : CompletesOwn(w)
    /\ \A w \in Worker : CarriesAsked(w)

LEMMA FileStepCompletesOwn ==
    ASSUME TypeOK, NEW w \in Worker, CompletesOwn(w), FileStep(w)
    PROVE  CompletesOwn(w)'
<1>0. worker[w] \in WorkerState /\ TaskOf(w) \in Task
  BY DEF TypeOK, WorkerState, TaskOf
<1>1. CASE Materializes(w)
  <2>1. worker'[w].base = worker'[w].file
    <3> HIDE DEF Snapshot
    <3> QED
      BY <1>0, <1>1 DEF Materializes, TypeOK, WorkerState
  <2> QED
    BY <2>1 DEF CompletesOwn
<1>2. ASSUME NEW f \in {worker[w].base, worker[w].file}, NEW o, Result(o), NEW phase,
             worker[w].phase \in FilePhase, Delivers(w, f, o, phase)
      PROVE  CompletesOwn(w)'
  <2>1. /\ worker'[w].task = worker[w].task /\ worker'[w].base = worker[w].base
        /\ worker'[w].file = FileAfter(f, TaskOf(w), o)
    BY <1>0, <1>2 DEF Delivers, TypeOK, WorkerState
  <2>2. FileAfter(f, TaskOf(w), o).st = SettledOf(f.st, f.rep, TaskOf(w), o)
    BY DEF FileAfter
  <2>3. f.st \in Statuses
    BY <1>0, <1>2 DEF WorkerState, File, Statuses
  <2>4. ASSUME NEW u \in Task \ {TaskOf(w)}, worker'[w].file.st[u] = "completed"
        PROVE  worker[w].base.st[u] = "completed"
    <3>1. f.st[u] = "completed"
      BY <1>0, <1>2, <2>1, <2>2, <2>3, <2>4, CompletedBefore
    <3> QED
      BY <1>2, <3>1 DEF CompletesOwn
  <2> QED
    BY <2>1, <2>4 DEF CompletesOwn, TaskOf
<1>3. CASE Catches(w)
  <2>1. /\ worker'[w].task = worker[w].task /\ worker'[w].base = worker[w].base
        /\ worker'[w].file = worker[w].file
    BY <1>0, <1>3 DEF Catches, TypeOK, WorkerState
  <2> QED
    BY <1>3, <2>1 DEF CompletesOwn, TaskOf, Catches, FilePhase
<1>4. \A o \in Outcomes[StageOf(TaskOf(w))] : Result(o)
  BY <1>0, TaskIsPair, OutcomesAreResults
<1>5. \A b \in BOOLEAN : Result(StoppedOutcome(b))
  BY DEF StoppedOutcome, Result, TaskStatus
<1> QED
  BY <1>1, <1>2, <1>3, <1>4, <1>5 DEF FileStep, FilePhase

LEMMA StepCompletesOwn ==
    ASSUME FilesAreOwn, TypeOK, \A w \in Worker : CompletesOwn(w), [Next]_vars
    PROVE  \A w \in Worker : CompletesOwn(w)'
<1>1. ASSUME NEW w \in Worker, Rests(w)
      PROVE  CompletesOwn(w)'
  BY <1>1 DEF Rests, CompletesOwn
<1>2. ASSUME NEW v \in Worker, worker'[v] = worker[v]
      PROVE  CompletesOwn(v)'
  BY <1>2 DEF CompletesOwn, TaskOf
<1>3. ASSUME NEW w \in Worker, FileStep(w) \/ Rests(w)
      PROVE  \A v \in Worker : CompletesOwn(v)'
  <2>1. CompletesOwn(w)'
    BY <1>1, <1>3, FileStepCompletesOwn
  <2>2. \A v \in Worker \ {w} : CompletesOwn(v)'
    BY <1>2, <1>3, FileStepIsOwn
  <2> QED
    BY <2>1, <2>2
<1> QED
  BY <1>2, <1>3, WorkerMoves, OtherMoves

\* A worker that moves leaves every other worker as it was.
LEMMA WorkerIsAlone ==
    ASSUME FilesAreOwn, TypeOK, NEW w \in Worker, WorkerStep(w) \/ WorkerTrouble(w),
           NEW v \in Worker \ {w}
    PROVE  worker'[v] = worker[v]
BY WorkerMoves, FileStepIsOwn

\* Between deliveries, a worker that has a result keeps it as it is or gives it up.
LEMMA ExecutedKeeps ==
    ASSUME FilesAreOwn, TypeOK, PlatformStep, NEW v \in Worker, worker[v].phase = "executed"
    PROVE  worker'[v] = worker[v] \/ worker'[v].phase \notin {"executing", "executed"}
<1>1. ASSUME NEW w \in Worker, PlainStep(w) \/ WorkerTrouble(w)
      PROVE  worker'[v] = worker[v] \/ worker'[v].phase \notin {"executing", "executed"}
  <2>1. CASE w # v
    BY <1>1, <2>1, WorkerIsAlone DEF WorkerStep
  <2>2. CASE w = v
    <3>1. PersistFails(v) \/ Crash(v)
      BY <1>1, <2>2 DEF PlainStep, WorkerTrouble, StartTask, StartRejected, MaterializeFails,
                        WriteStopped, ExecutionThrows, HeartbeatRejected, HeartbeatErrors
    <3>2. Rests(v) \/ worker' = [worker EXCEPT ![v].phase = "caught"]
      BY <3>1, LeaveRests DEF PersistFails, Crash
    <3> QED
      BY <3>2 DEF Rests, FilePhase, TypeOK, WorkerState
  <2> QED
    BY <2>1, <2>2
<1>2. ASSUME NEW w \in Worker, LeaseNextTask(w) \/ RunLeasedTask(w) \/ StopDraining(w)
      PROVE  worker'[v] = worker[v]
  <2>1. w # v
    BY <1>2 DEF LeaseNextTask, Polling, RunLeasedTask, StopDraining
  <2> QED
    BY <1>2, <2>1, LeaseRests, RerunRests, LeaveRests DEF Rests, StopDraining
<1>3. CASE UNCHANGED worker
  BY <1>3
<1> QED
  BY <1>1, <1>2, <1>3
     DEF PlatformStep, Heartbeat, LeaseLapses, SweepLeases, ExpireCommand, ExpireLeases,
         PauseOrResume

LEMMA StepCarriesAsked ==
    ASSUME FilesAreOwn, TypeOK, OperatorTypeOK, \A w \in Worker : CarriesAsked(w),
           [ControlPlaneNext]_allVars, NEW v \in Worker
    PROVE  CarriesAsked(v)'
<1>0. worker[v] \in WorkerState /\ TaskOf(v) \in Task /\ carried[v] \in Delivery
  BY DEF TypeOK, WorkerState, TaskOf, OperatorTypeOK
<1>1. ASSUME worker'[v] = worker[v], carried'[v].target = carried[v].target
      PROVE  CarriesAsked(v)'
  BY <1>1 DEF CarriesAsked, TaskOf
<1>2. ASSUME carried'[v].target = NoStage
      PROVE  CarriesAsked(v)'
  BY <1>2 DEF CarriesAsked
<1>3. CASE PlatformStep
  <2>1. carried'[v] = Carrying(v)
    BY <1>3 DEF PlatformStep
  <2>2. \/ carried'[v].target = NoStage
        \/ carried'[v] = carried[v] /\ worker'[v].phase \in {"executing", "executed"}
    BY <1>0, <2>1 DEF Carrying, Nothing, Delivery
  <2>3. CASE carried[v].target # NoStage
    BY <1>1, <1>2, <1>3, <2>2, <2>3, ExecutedKeeps DEF CarriesAsked
  <2> QED
    BY <1>2, <2>2, <2>3
<1>4. ASSUME NEW w \in Worker, Materialize(w)
      PROVE  CarriesAsked(v)'
  <2>1. carried'[v].target = carried[v].target
    BY <1>0, <1>4 DEF Materialize, Delivery
  <2>2. CASE w = v
    BY <1>2, <1>4, <2>1, <2>2 DEF CarriesAsked, Materialize, MaterializeClaim
  <2>3. CASE w # v
    BY <1>1, <1>4, <2>1, <2>3, WorkerIsAlone DEF Materialize, WorkerStep
  <2> QED
    BY <2>2, <2>3
<1>5. ASSUME NEW w \in Worker, Deliver(w)
      PROVE  CarriesAsked(v)'
  <2>1. PICK o \in Outcomes[StageOf(TaskOf(w))] :
        \E target \in TargetsNamed(TaskOf(w), o), record \in {RecordOf(StateRead(w).st, TaskOf(w), o)} :
            /\ ExecuteWith(w, o)
            /\ carried' = [u \in Worker |->
                            IF u = w THEN [target |-> target, record |-> record]
                            ELSE IF SharesFile(u, w) THEN [carried[u] EXCEPT !.record = record]
                            ELSE carried[u]]
    BY <1>5 DEF Deliver
  <2> DEFINE st == StateRead(w).st
  <2>2. PICK target \in TargetsNamed(TaskOf(w), o), record \in {RecordOf(st, TaskOf(w), o)} :
            /\ ExecuteWith(w, o)
            /\ carried' = [u \in Worker |->
                            IF u = w THEN [target |-> target, record |-> record]
                            ELSE IF SharesFile(u, w) THEN [carried[u] EXCEPT !.record = record]
                            ELSE carried[u]]
    BY <2>1
  <2> HIDE DEF st
  <2>3. CASE w # v
    <3>1. carried'[v].target = carried[v].target
      BY <1>0, <2>2, <2>3 DEF Delivery
    <3>2. WorkerStep(w)
      BY <2>2 DEF WorkerStep, Execute
    <3> QED
      BY <1>1, <2>3, <3>1, <3>2, WorkerIsAlone
  <2>4. CASE w = v
    <3>1. carried'[v].target = target
      BY <2>2, <2>4
    <3>2. ASSUME target # NoStage
          PROVE  CarriesAsked(v)'
      <4>1. StageOf(TaskOf(v)) = "evaluation" /\ RerouteRequested(o)
        BY <2>4, <3>2 DEF TargetsNamed
      <4>2. Result(o)
        BY <1>0, <2>4, TaskIsPair, OutcomesAreResults
      <4>3. PICK f \in {worker[v].base, worker[v].file} : ApplyTo(f, v, o, "executed")
        BY <2>2, <2>4 DEF ExecuteWith, StateRead
      <4>4. Delivers(v, f, o, "executed")
        BY <4>3, OwnApply
      <4>5. f.st \in Statuses
        BY <1>0 DEF WorkerState, File, Statuses
      <4>6. SettledOf(f.st, f.rep, TaskOf(v), o)[TaskOf(v)] = "blocked"
        BY <1>0, <4>1, <4>2, <4>5, AskingIsBlocked
      <4>7. /\ worker'[v].task = worker[v].task /\ worker'[v].phase = "executed"
            /\ worker'[v].file.st = SettledOf(f.st, f.rep, TaskOf(v), o)
        BY <1>0, <4>4 DEF Delivers, FileAfter, TypeOK, WorkerState
      <4> QED
        BY <4>1, <4>6, <4>7 DEF CarriesAsked, TaskOf
    <3> QED
      BY <1>2, <3>1, <3>2
  <2> QED
    BY <2>3, <2>4
<1>6. ASSUME NEW w \in Worker, Persist(w)
      PROVE  CarriesAsked(v)'
  <2>1. CASE w = v
    <3>1. carried'[v] = Nothing
      BY <1>6, <2>1 DEF Persist, OperatorTypeOK
    <3> QED
      BY <1>2, <3>1 DEF Nothing
  <2>2. CASE w # v
    <3>1. carried'[v] = carried[v]
      BY <1>6, <2>2 DEF Persist, OperatorTypeOK
    <3> QED
      BY <1>1, <1>6, <2>2, <3>1, WorkerIsAlone DEF Persist, WorkerStep
  <2> QED
    BY <2>1, <2>2
<1>7. CASE OperatorStep
  BY <1>1, <1>7, OperatorKeeps
<1>8. CASE UNCHANGED allVars
  BY <1>1, <1>8 DEF allVars, vars, operatorVars
<1> QED
  BY <1>3, <1>4, <1>5, <1>6, <1>7, <1>8 DEF ControlPlaneNext

\* Persisting a result answers for the evaluation it is about, and completes no other.
LEMMA PersistAnswers ==
    ASSUME TypeOK, OperatorTypeOK, ReceiptInv, AskInv, NEW w \in Worker, Persist(w),
           NEW r \in Route, row'[<<r, "evaluation">>].status = "completed"
    PROVE  asked'[r] = NoStage
<1> DEFINE u == <<r, "evaluation">>
           next == worker[w].file
           base == worker[w].base
<1>0. /\ u \in Task /\ StageOf(u) = "evaluation" /\ RouteOf(u) = r
      /\ TaskOf(w) \in Task /\ next \in File
  BY TaskOfStage DEF TypeOK, WorkerState, TaskOf, RouteStage, StageOf, RouteOf
<1>1. row'[u] = PersistRow(w, next, u) /\ worker[w].phase \in FilePhase
  BY <1>0 DEF Persist, PersistResult, FilePhase
<1>2. IF next.st[u] = base.st[u]
      THEN row'[u].status = row[u].status
      ELSE row'[u].status = next.st[u]
  BY <1>0, <1>1, PersistRowTask
<1>3. row[u].status = "completed" => asked[r] = NoStage
  BY DEF AskInv, AcceptedRouteHasNoTarget, Rerouted
<1>4. CASE TaskOf(w) = u
  <2>1. asked' = [asked EXCEPT ![r] = carried[w].target]
    BY <1>0, <1>4 DEF Persist
  <2>2. asked'[r] = carried[w].target
    BY <2>1 DEF OperatorTypeOK
  <2>3. CASE carried[w].target # NoStage
    <3>1. next.st[u] = "blocked"
      BY <1>4, <2>3 DEF AskInv, CarriesAsked
    <3>2. base.st[u] = "in-progress"
      BY <1>1, <1>4 DEF ReceiptInv, Reported
    <3> HIDE DEF u, next, base
    <3> QED
      BY <1>2, <3>1, <3>2 DEF u
  <2> QED
    BY <2>2, <2>3
<1>5. CASE TaskOf(w) # u
  <2>1. next.st[u] = "completed" => base.st[u] = "completed"
    BY <1>0, <1>1, <1>5 DEF AskInv, CompletesOwn
  <2>2. row[u].status = "completed"
    <3> HIDE DEF u, next, base
    <3> QED
      BY <1>2, <2>1 DEF u
  <2>3. StageOf(TaskOf(w)) = "evaluation" => RouteOf(TaskOf(w)) # r
    BY <1>0, <1>5, TaskIsPair DEF StageOf, RouteOf, EnvTask
  <2>4. asked'[r] = asked[r]
    BY <2>3 DEF Persist, OperatorTypeOK
  <2> QED
    BY <1>3, <2>2, <2>4
<1> QED
  BY <1>4, <1>5

\* No action of the operator completes an evaluation or asks for a repair.
LEMMA OperatorAnswers ==
    ASSUME TypeOK, OperatorTypeOK, AskInv, OperatorStep,
           NEW r \in Route, row'[<<r, "evaluation">>].status = "completed"
    PROVE  asked'[r] = NoStage
<1> DEFINE u == <<r, "evaluation">>
<1>0. u \in Task
  BY TaskOfStage DEF RouteStage
<1>1. row[u].status = "completed" => asked[r] = NoStage
  BY DEF AskInv, AcceptedRouteHasNoTarget, Rerouted
<1>2. asked'[r] \in {asked[r], NoStage}
  BY DEF OperatorStep, RetryTask, ResumeFromTargetStage, RerouteToStage, RearmFrom, CancelRoute,
         ForcePublish, ForcePublishFails, OperatorTypeOK
<1>3. ASSUME NEW S, NEW s \in {"ready", "cancelled", "completed"}, NEW R,
             Resets(S, s, R, "pending"), u \in S => s # "completed"
      PROVE  row[u].status = "completed"
  BY <1>0, <1>3 DEF Resets, Reset
<1>4. row[u].status = "completed"
  <2>1. ASSUME NEW t \in Task, RetryTask(t)
        PROVE  row[u].status = "completed"
    BY <1>3, <2>1, RetryResets
  <2>2. ASSUME NEW q \in Route, ResumeFromTargetStage(q) \/ RerouteToStage(q)
        PROVE  row[u].status = "completed"
    <3>1. PICK s : RearmFrom(q, s)
      BY <2>2 DEF ResumeFromTargetStage, RerouteToStage
    <3>2. Resets({<<q, s>>}, "ready", {v \in Task : LaterOnRoute(v, <<q, s>>, s)}, "pending")
      BY <3>1, RearmResets
    <3> QED
      BY <1>3, <3>2
  <2>3. ASSUME NEW q \in Route, CancelRoute(q)
        PROVE  row[u].status = "completed"
    BY <1>3, <2>3, CancelResets
  <2>4. ASSUME NEW q \in Route, ForcePublish(q)
        PROVE  row[u].status = "completed"
    <3>1. u \notin {<<q, "collaboration">>}
      OBVIOUS
    <3> QED
      BY <1>3, <2>4, <3>1, PublishResets
  <2>5. ASSUME NEW q \in Route, ForcePublishFails(q)
        PROVE  row[u].status = "completed"
    BY <2>5 DEF ForcePublishFails, vars, tables
  <2> QED
    BY <2>1, <2>2, <2>3, <2>4, <2>5 DEF OperatorStep
<1> QED
  BY <1>1, <1>2, <1>4

LEMMA StepAsk ==
    ASSUME FilesAreOwn, TypeOK, OperatorTypeOK, ReceiptInv, AskInv, [ControlPlaneNext]_allVars
    PROVE  AskInv'
<1>1. \A w \in Worker : CarriesAsked(w)'
  BY StepCarriesAsked DEF AskInv
<1>2. \A w \in Worker : CompletesOwn(w)'
  <2>1. CASE [Next]_vars
    BY <2>1, StepCompletesOwn DEF AskInv
  <2>2. CASE OperatorStep
    BY <2>2, OperatorKeeps DEF AskInv, CompletesOwn, TaskOf
  <2> QED
    BY <2>1, <2>2, PlatformOrOperator
<1>3. ASSUME NEW r \in Route, row'[<<r, "evaluation">>].status = "completed"
      PROVE  asked'[r] = NoStage
  <2>0. <<r, "evaluation">> \in Task
    BY TaskOfStage DEF RouteStage
  <2>1. row[<<r, "evaluation">>].status = "completed" => asked[r] = NoStage
    BY DEF AskInv, AcceptedRouteHasNoTarget, Rerouted
  <2>2. CASE PlatformStep
    <3>1. row[<<r, "evaluation">>].status = "completed"
      BY <1>3, <2>0, <2>2, SilentStatus, SilentOrPersist DEF SilentMove
    <3> QED
      BY <2>1, <2>2, <3>1 DEF PlatformStep
  <2>3. ASSUME NEW w \in Worker, Materialize(w) \/ Deliver(w)
        PROVE  asked'[r] = NoStage
    BY <1>3, <2>1, <2>3 DEF Materialize, MaterializeClaim, Deliver, ExecuteWith, tables
  <2>4. CASE UNCHANGED allVars
    BY <1>3, <2>1, <2>4 DEF allVars, vars, tables, operatorVars
  <2> QED
    BY <1>3, <2>2, <2>3, <2>4, PersistAnswers, OperatorAnswers DEF ControlPlaneNext
<1> QED
  BY <1>1, <1>2, <1>3 DEF AskInv, AcceptedRouteHasNoTarget, Rerouted

LEMMA InitAsk ==
    ASSUME Init, OperatorInit
    PROVE  AskInv
<1>1. \A r \in Route : ~Rerouted(r)
  BY DEF OperatorInit, Rerouted
<1>2. \A w \in Worker : worker[w].phase = "idle" /\ carried[w].target = NoStage
  BY DEF Init, OperatorInit, Resting, Nothing
<1> QED
  BY <1>1, <1>2 DEF AskInv, AcceptedRouteHasNoTarget, CompletesOwn, CarriesAsked, FilePhase

\* However a route came to be accepted, no repair it once asked for is left behind: the
\* operator cannot reroute or cancel it (the guards of resumeFromTargetStage,
\* rerouteToStage and cancelRoute read the column persist and retry write).  For workers
\* that share no state file, and any number of repairs, retries and cancellations.
THEOREM AcceptedRoutesHaveNoTarget ==
    ASSUME FilesAreOwn
    PROVE  ControlPlaneSpec => []AcceptedRouteHasNoTarget
<1> DEFINE Inv == TypeOK /\ OperatorTypeOK /\ ReceiptInv /\ AskInv
<1>1. Init /\ OperatorInit => Inv
  BY InitPlat, InitOperatorType, InitAsk DEF PlatInv
<1>2. Inv /\ [ControlPlaneNext]_allVars => Inv'
  BY OperatedStepType, OperatedOperatorType, OperatedReceipt, StepAsk
<1>3. Inv => AcceptedRouteHasNoTarget
  BY DEF AskInv
<1> QED
  BY <1>1, <1>2, <1>3, PTL DEF ControlPlaneSpec

-----------------------------------------------------------------------------
(* The one worker of a run.  Its snapshot may be old: the operator resets  *)
(* rows under it.  But nobody else completes a task, so what the rows have *)
(* through the snapshot has through, and what the operator has put back to *)
(* wait is out of the reach of the result, unless he takes a route back    *)
(* past the stage at work or completes a handover by force.                *)

Waits(st) == \A u \in Task : st[u] = "pending" => \E d \in DependsOn[u] : st[d] \notin Passed

\* The same of the rows, as they are.
RowsWait ==
    \A u \in Task : row[u].status = "pending" => \E d \in DependsOn[u] : row[d].status \notin Passed

Elsewhere(u, t) == u # t /\ (t # EnvTask /\ u # EnvTask => RouteOf(u) # RouteOf(t))

\* The snapshot and the file of w, as far as the rows still have to do with them.
Fresh(w) ==
    worker[w].phase \in FilePhase /\ Holds(w) =>
        \A u \in Task :
            /\ row[u].status \in Passed => worker[w].base.st[u] = row[u].status
            /\ row[u].status = "pending" /\ worker[w].base.st[u] # "pending" =>
                    /\ Elsewhere(u, TaskOf(w))
                    /\ u # EnvTask /\ StageOf(u) # "requirements-analysis"
            /\ Elsewhere(u, TaskOf(w)) =>
                    \/ worker[w].file.st[u] = worker[w].base.st[u]
                    \/ worker[w].base.st[u] = "pending" /\ worker[w].file.st[u] = "ready"

\* A delivered file leaves nothing to promote; the root is not put back.
Promoted(w) ==
    worker[w].phase \in FilePhase =>
        /\ worker[w].base.st[EnvTask] # "pending" /\ worker[w].file.st[EnvTask] # "pending"
        /\ worker[w].phase \in {"executed", "stopped"} => Waits(worker[w].file.st)

\* A run whose tasks are all through is closed.  With two workers this is not so: each may
\* infer from its own file that the other's last task is still open.
FinishedRunIsClosed ==
    (\A t \in Task : row[t].status \in Passed) => runStatus = "completed"

WayInv ==
    /\ RowsWait
    /\ FinishedRunIsClosed
    /\ \A w \in Worker : Fresh(w) /\ Promoted(w)

\* Every task but the root waits for tasks: the root and the last of other routes,
\* or the one before it on its own.
LEMMA UpstreamTasks ==
    ASSUME NEW u \in Task, u # EnvTask
    PROVE  /\ DependsOn[u] # {} /\ DependsOn[u] \subseteq Task
           /\ StageOf(u) # "requirements-analysis" =>
                \A d \in DependsOn[u] : d # EnvTask /\ RouteOf(d) = RouteOf(u)
<1> DEFINE q == RouteOf(u)
           s == StageOf(u)
<1>1. u = <<q, s>> /\ q \in Route /\ s \in RouteStage
  BY TaskIsPair
<1> HIDE DEF q, s
<1>2. CASE s = "requirements-analysis"
  <2>1. u = FirstOf(q)
    BY <1>1, <1>2 DEF FirstOf
  <2>2. DependsOn[u] = {EnvTask} \cup {<<d, "evaluation">> : d \in RouteDeps[q]} /\ RouteDeps[q] \subseteq Route
    BY <1>1, <2>1, FirstOfRoute
  <2>3. \A d \in Route : <<d, "evaluation">> \in Task
    BY TaskOfStage DEF RouteStage
  <2>4. StageOf(u) = "requirements-analysis"
    BY <1>1, <1>2 DEF StageOf
  <2> QED
    BY <2>2, <2>3, <2>4, RootWaitsForNothing
<1>3. CASE s # "requirements-analysis"
  <2>1. DependsOn[u] = {<<q, Previous(s)>>} /\ Previous(s) \in RouteStage
    BY <1>1, <1>3, DependsOnPrevious, WaitsForRoute
  <2>2. <<q, Previous(s)>> \in Task /\ <<q, Previous(s)>> # EnvTask /\ RouteOf(<<q, Previous(s)>>) = RouteOf(u)
    BY <1>1, <2>1, TaskOfStage DEF EnvTask, RouteStage, RepairableStage, RouteOf
  <2> QED
    BY <2>1, <2>2
<1> QED
  BY <1>2, <1>3

\* What a result leaves waiting it leaves waiting for something.
LEMMA SettledWaits ==
    ASSUME NEW st \in Statuses, NEW rep, NEW t \in Task, NEW o, FinalResult(o),
           st[EnvTask] # "pending"
    PROVE  /\ Waits(SettledOf(st, rep, t, o))
           /\ SettledOf(st, rep, t, o)[EnvTask] # "pending"
<1> DEFINE new == After(st, rep, t, o)
           p == SettledOf(st, rep, t, o)
<1>0. Result(o) /\ o.status # "pending"
  BY DEF FinalResult, FinalStatus
<1>1. p = PromoteReadyTasks(new) /\ new \in Statuses
  BY <1>0, SettledIsPromoted
<1>2. p[EnvTask] # "pending"
  BY <1>0, RootResult, RootUnchanged
<1> HIDE DEF new, p
<1>3. ASSUME NEW u \in Task, p[u] = "pending"
      PROVE  \E d \in DependsOn[u] : p[d] \notin Passed
  <2>1. u # EnvTask
    BY <1>2, <1>3
  <2>2. DependsOn[u] # {} /\ DependsOn[u] \subseteq Task
    BY <2>1, UpstreamTasks
  <2>3. ~DependenciesPassed(new, u)
    BY <1>1, <1>3, <2>2, PromotedTask
  <2> QED
    BY <1>1, <2>2, <2>3, PromotedTask DEF DependenciesPassed
<1> QED
  BY <1>2, <1>3 DEF Waits, p

\* The row a persist writes: that of the file where file and snapshot differ.
LEMMA PersistNow ==
    ASSUME TypeOK, NEW w \in Worker, PersistResult(w), NEW u \in Task
    PROVE  row'[u].status = IF worker[w].file.st[u] = worker[w].base.st[u]
                            THEN row[u].status ELSE worker[w].file.st[u]
<1> DEFINE next == worker[w].file
<1>1. next \in File
  BY DEF TypeOK, WorkerState
<1>2. row'[u] = PersistRow(w, next, u)
  BY DEF PersistResult
<1> QED
  BY <1>1, <1>2, PersistRowTask

LEMMA PersistWaits ==
    ASSUME TypeOK, WayInv, NEW w \in Worker, PersistResult(w)
    PROVE  RowsWait'
<1> DEFINE b == worker[w].base.st
           f == worker[w].file.st
           t == TaskOf(w)
<1>1. worker[w].phase \in FilePhase /\ Holds(w) /\ Waits(f)
  BY DEF PersistResult, Persistable, WayInv, Promoted, FilePhase
<1>2. /\ \A u \in Task : row[u].status \in Passed => b[u] = row[u].status
      /\ \A u \in Task : row[u].status = "pending" /\ b[u] # "pending" =>
            Elsewhere(u, t) /\ u # EnvTask /\ StageOf(u) # "requirements-analysis"
      /\ \A u \in Task : Elsewhere(u, t) => f[u] = b[u] \/ (b[u] = "pending" /\ f[u] = "ready")
  BY <1>1 DEF WayInv, Fresh
<1>3. \A u \in Task : row'[u].status = IF f[u] = b[u] THEN row[u].status ELSE f[u]
  BY PersistNow
<1>4. t \in Task
  BY DEF TypeOK, WorkerState, TaskOf
<1> HIDE DEF b, f, t
<1>5. ASSUME NEW u \in Task, row'[u].status = "pending"
      PROVE  \E d \in DependsOn[u] : row'[d].status \notin Passed
  <2>0. ASSUME NEW d \in Task, f[d] \notin Passed
        PROVE  row'[d].status \notin Passed
    BY <1>2, <1>3, <2>0
  <2>1. CASE f[u] = "pending"
    <3>1. PICK d \in DependsOn[u] : f[d] \notin Passed
      BY <1>1, <2>1 DEF Waits
    <3>2. u # EnvTask
      BY <3>1, RootWaitsForNothing
    <3>3. d \in Task
      BY <3>1, <3>2, UpstreamTasks
    <3> QED
      BY <2>0, <3>1, <3>3
  <2>2. CASE f[u] # "pending"
    <3>1. row[u].status = "pending" /\ b[u] # "pending" /\ f[u] = b[u]
      BY <1>3, <1>5, <2>2
    <3>2. Elsewhere(u, t) /\ u # EnvTask /\ StageOf(u) # "requirements-analysis"
      BY <1>2, <3>1
    <3>3. PICK d \in DependsOn[u] : row[d].status \notin Passed
      BY <3>1 DEF WayInv, RowsWait
    <3>4. d \in Task /\ d # EnvTask /\ RouteOf(d) = RouteOf(u)
      BY <3>2, <3>3, UpstreamTasks
    <3>5. d = t \/ Elsewhere(d, t)
      BY <3>2, <3>4 DEF Elsewhere
    <3>6. d # t
      BY <3>2, <3>4 DEF Elsewhere
    <3>7. f[d] = b[d] \/ f[d] = "ready"
      BY <1>2, <3>4, <3>5, <3>6
    <3>8. row'[d].status \notin Passed
      BY <1>3, <3>3, <3>4, <3>7 DEF Passed
    <3> QED
      BY <3>3, <3>8
  <2> QED
    BY <2>1, <2>2
<1> QED
  BY <1>5 DEF RowsWait

LEMMA PersistFinishes ==
    ASSUME TypeOK, WayInv, NEW w \in Worker, PersistResult(w)
    PROVE  FinishedRunIsClosed'
<1> DEFINE b == worker[w].base.st
           f == worker[w].file.st
<1>1. \A u \in Task : row[u].status \in Passed => b[u] = row[u].status
  BY DEF PersistResult, Persistable, WayInv, Fresh, FilePhase
<1>2. \A u \in Task : row'[u].status = IF f[u] = b[u] THEN row[u].status ELSE f[u]
  BY PersistNow
<1>3. runStatus' = InferRunStatus(f)
  BY DEF PersistResult
<1> HIDE DEF b, f
<1>4. ASSUME \A u \in Task : row'[u].status \in Passed
      PROVE  runStatus' = "completed"
  <2>1. \A u \in Task : f[u] \in Passed
    BY <1>1, <1>2, <1>4
  <2>2. {f[u] : u \in {v \in Task : ~ResolvedRouteFailure(f, v)}} \subseteq Passed
    BY <2>1
  <2> QED
    BY <1>3, <2>2 DEF InferRunStatus
<1> QED
  BY <1>4 DEF FinishedRunIsClosed

\* Where nothing is persisted, nothing passes and nothing is put back to wait.
LEMMA SilentWays ==
    ASSUME TypeOK, RowsWait, FinishedRunIsClosed, SilentStep
    PROVE  RowsWait' /\ FinishedRunIsClosed'
<1>1. ASSUME NEW u \in Task
      PROVE  /\ row'[u].status = "pending" <=> row[u].status = "pending"
             /\ row'[u].status \in Passed <=> row[u].status \in Passed
  BY SilentStatus DEF SilentMove, Held, Passed
<1>2. RowsWait'
  <2>1. ASSUME NEW u \in Task, row'[u].status = "pending"
        PROVE  \E d \in DependsOn[u] : row'[d].status \notin Passed
    <3>1. PICK d \in DependsOn[u] : row[d].status \notin Passed
      BY <1>1, <2>1 DEF RowsWait
    <3>2. d \in Task
      BY <3>1, UpstreamTasks, RootWaitsForNothing
    <3> QED
      BY <1>1, <3>1, <3>2
  <2> QED
    BY <2>1 DEF RowsWait
<1>3. ASSUME \A u \in Task : row[u].status \in Passed
      PROVE  runStatus' = runStatus
  <2>1. ~\E w \in Worker : LeaseNextTask(w)
    BY <1>3 DEF LeaseNextTask, NextToLease, Ready, Passed
  <2>2. ~\E w \in Worker : StartTask(w)
    BY <1>3 DEF StartTask, TypeOK, WorkerState, TaskOf, Passed
  <2>3. ~ExpireLeases
    BY <1>3 DEF ExpireLeases, Lapsed, Held, Passed
  <2> QED
    BY <2>1, <2>2, <2>3
       DEF SilentStep, PlainStep, WorkerTrouble, StopDraining, StartRejected, MaterializeClaim,
           MaterializeFails, Execute, ExecuteWith, WriteStopped, PersistFails, ExecutionThrows,
           RunLeasedTask, Heartbeat, HeartbeatRejected, HeartbeatErrors, Crash, PauseOrResume,
           LeaseLapses, tables, vars
<1> QED
  BY <1>1, <1>2, <1>3 DEF FinishedRunIsClosed

\* A worker at its file: the rows are as they were.
LEMMA FileStepWays ==
    ASSUME TypeOK, ResultStatus \subseteq FinalStatus, RowsWait, NEW w \in Worker,
           Fresh(w), Promoted(w), FileStep(w), UNCHANGED tables
    PROVE  Fresh(w)' /\ Promoted(w)'
<1>0. worker[w] \in WorkerState /\ TaskOf(w) \in Task
  BY DEF TypeOK, WorkerState, TaskOf
<1>1. CASE Materializes(w)
  <2>1. /\ worker'[w].task = worker[w].task /\ worker'[w].base = Snapshot
        /\ worker'[w].file = Snapshot /\ worker'[w].phase = "executing"
    <3> HIDE DEF Snapshot
    <3> QED
      BY <1>0, <1>1 DEF Materializes, TypeOK, WorkerState
  <2>2. \A u \in Task : Snapshot.st[u] = SeenAs(row[u].status)
    BY DEF Snapshot
  <2>3. \A u \in Task : /\ row[u].status \in Passed => Snapshot.st[u] = row[u].status
                        /\ Snapshot.st[u] = "pending" <=> row[u].status = "pending"
    BY <2>2 DEF SeenAs, Passed
  <2>4. row[EnvTask].status # "pending"
    BY RootWaitsForNothing DEF RowsWait, EnvTask, Task
  <2> HIDE DEF Snapshot
  <2> QED
    BY <2>1, <2>3, <2>4, RootWaitsForNothing DEF Fresh, Promoted, tables
<1>2. ASSUME NEW f \in {worker[w].base, worker[w].file}, NEW o, FinalResult(o), NEW phase \in FilePhase,
             worker[w].phase \in FilePhase, Delivers(w, f, o, phase)
      PROVE  Fresh(w)' /\ Promoted(w)'
  <2> DEFINE st == SettledOf(f.st, f.rep, TaskOf(w), o)
  <2>1. /\ worker'[w].task = worker[w].task /\ worker'[w].base = worker[w].base
        /\ worker'[w].file.st = st
    BY <1>0, <1>2 DEF Delivers, FileAfter, TypeOK, WorkerState
  <2>2. f.st \in Statuses /\ f.st[EnvTask] # "pending"
    BY <1>0, <1>2 DEF WorkerState, File, Statuses, Promoted
  <2>3. Waits(st) /\ st[EnvTask] # "pending"
    BY <1>0, <1>2, <2>2, SettledWaits
  <2>4. ASSUME NEW u \in Task, Elsewhere(u, TaskOf(w))
        PROVE  st[u] = f.st[u] \/ (f.st[u] = "pending" /\ st[u] = "ready")
    <3> DEFINE new == After(f.st, f.rep, TaskOf(w), o)
    <3>1. new[u] = f.st[u]
      BY <1>0, <1>2, <2>2, <2>4, OtherTaskUnchanged DEF Elsewhere, FinalResult
    <3>2. st = PromoteReadyTasks(new) /\ new \in Statuses
      BY <1>0, <1>2, <2>2, SettledIsPromoted DEF FinalResult
    <3> HIDE DEF new, st
    <3> QED
      BY <3>1, <3>2, PromotedTask
  <2> HIDE DEF st
  <2>5. Promoted(w)'
    BY <1>2, <2>1, <2>3 DEF Promoted
  <2>6. TaskOf(w)' = TaskOf(w) /\ (Holds(w)' => Holds(w)) /\ row' = row
    BY <2>1 DEF Holds, TaskOf, tables
  <2>7. Fresh(w)'
    BY <1>2, <2>1, <2>4, <2>6 DEF Fresh
  <2> QED
    BY <2>5, <2>7
<1>3. CASE Catches(w)
  <2>1. /\ worker'[w].task = worker[w].task /\ worker'[w].base = worker[w].base
        /\ worker'[w].file = worker[w].file /\ worker'[w].phase = "caught"
    BY <1>0, <1>3 DEF Catches, TypeOK, WorkerState
  <2>2. worker[w].phase \in FilePhase
    BY <1>3 DEF Catches, FilePhase
  <2>3. TaskOf(w)' = TaskOf(w) /\ (Holds(w)' => Holds(w)) /\ row' = row
    BY <2>1 DEF Holds, TaskOf, tables
  <2> QED
    BY <2>1, <2>2, <2>3 DEF Fresh, Promoted
<1>4. ASSUME NEW o \in Outcomes[StageOf(TaskOf(w))]
      PROVE  FinalResult(o)
  <2>1. StageOf(TaskOf(w)) \in TaskStage
    BY <1>0, TaskIsPair
  <2>2. o.status \in ResultStatus
    BY <2>1 DEF Outcomes
  <2> QED
    BY <2>1, <2>2, OutcomesAreResults DEF FinalResult
<1> QED
  BY <1>1, <1>2, <1>3, <1>4, StoppedIsFinal DEF FileStep, FilePhase
-----------------------------------------------------------------------------
(* The operator under the worker.                                          *)

\* He completes a handover nothing was promoted from, or takes a route back past the
\* stage that is being worked on.
Strands ==
    \/ \E r \in Route : row[<<r, "collaboration">>].status # "completed" /\ ForcePublish(r)
    \/ \E r \in Route, s \in RepairableStage :
        /\ \E x \in RouteStage : StageOrder[x] < StageOrder[s] /\ row[<<r, x>>].status \in Held
        /\ RearmFrom(r, s)

\* The stages an action takes a route back to.
LEMMA RearmsStage ==
    ASSUME OperatorTypeOK, NEW r \in Route, ResumeFromTargetStage(r) \/ RerouteToStage(r)
    PROVE  \E s \in RepairableStage : RearmFrom(r, s)
<1>1. asked[r] # NoStage => asked[r] \in RepairableStage
  BY DEF OperatorTypeOK, TargetStage
<1> QED
  BY <1>1, OperatorAssumption DEF ResumeFromTargetStage, RerouteToStage, Rerouted

\* No action completes a task, and what it puts back to wait is what it takes a route
\* back past.
LEMMA OperatorStatus ==
    ASSUME TypeOK, OperatorTypeOK, OperatorStep, ~Strands, NEW u \in Task
    PROVE  /\ row'[u].status \in Passed => row'[u].status = row[u].status
           /\ row'[u].status = "pending" =>
                \/ row[u].status = "pending"
                \/ \E r \in Route, s \in RepairableStage :
                        RearmFrom(r, s) /\ LaterOnRoute(u, <<r, s>>, s)
<1> DEFINE Goal == /\ row'[u].status \in Passed => row'[u].status = row[u].status
                   /\ row'[u].status = "pending" =>
                        \/ row[u].status = "pending"
                        \/ \E r \in Route, s \in RepairableStage :
                                RearmFrom(r, s) /\ LaterOnRoute(u, <<r, s>>, s)
<1>1. ASSUME NEW S, NEW s \in {"ready", "cancelled"}, Resets(S, s, {}, "pending")
      PROVE  Goal
  BY <1>1 DEF Resets, Reset, Passed
<1>2. ASSUME NEW t \in Task, RetryTask(t)
      PROVE  Goal
  BY <1>1, <1>2, RetryResets
<1>3. ASSUME NEW r \in Route, CancelRoute(r)
      PROVE  Goal
  BY <1>1, <1>3, CancelResets
<1>4. ASSUME NEW r \in Route, ResumeFromTargetStage(r) \/ RerouteToStage(r)
      PROVE  Goal
  <2>1. PICK s \in RepairableStage : RearmFrom(r, s)
    BY <1>4, RearmsStage
  <2>2. Resets({<<r, s>>}, "ready", {v \in Task : LaterOnRoute(v, <<r, s>>, s)}, "pending")
    BY <2>1, RearmResets
  <2> QED
    BY <2>1, <2>2 DEF Resets, Reset, Passed
<1>5. ASSUME NEW r \in Route, ForcePublish(r)
      PROVE  Goal
  <2>1. row[<<r, "collaboration">>].status = "completed"
    BY <1>5 DEF Strands
  <2>2. Resets({<<r, "collaboration">>}, "completed", {}, "pending")
    BY <1>5, PublishResets
  <2> QED
    BY <2>1, <2>2 DEF Resets, Reset
<1>6. ASSUME NEW r \in Route, ForcePublishFails(r)
      PROVE  Goal
  BY <1>6 DEF ForcePublishFails, vars, tables
<1> QED
  BY <1>2, <1>3, <1>4, <1>5, <1>6 DEF OperatorStep

\* What comes before a task that a route is taken back past is open again, or waits.
LEMMA RearmedWaits ==
    ASSUME TypeOK, NEW r \in Route, NEW s \in RepairableStage, RearmFrom(r, s),
           NEW u \in Task, LaterOnRoute(u, <<r, s>>, s)
    PROVE  /\ u # EnvTask /\ RouteOf(u) = r /\ StageOf(u) # "requirements-analysis"
           /\ \E d \in DependsOn[u] : row'[d].status \notin Passed
<1>0. /\ s \in RouteStage /\ StageOrder[s] \in Nat /\ StageOrder[s] > 0
      /\ StageOrder["environment-preparation"] = 0
  <2>1. s \in RouteStage /\ StageOrder[s] \in Nat /\ StageOrder[s] > 0
    BY StageOrderValues, SMTT(30) DEF RepairableStage, RouteStage
  <2>2. StageOrder["environment-preparation"] = 0
    BY DEF StageOrder, TaskStage
  <2> QED
    BY <2>1, <2>2
<1>1. RouteOf(u) = r /\ StageOrder[StageOf(u)] > StageOrder[s]
  BY DEF LaterOnRoute, RouteOf
<1>2. u # EnvTask
  BY <1>0, <1>1 DEF EnvTask, StageOf
<1>3. StageOf(u) \in RouteStage /\ u = <<r, StageOf(u)>>
  BY <1>1, <1>2, TaskIsPair
<1>4. StageOf(u) # "requirements-analysis"
  BY <1>0, <1>1, StageOrderValues
<1> DEFINE p == Previous(StageOf(u))
<1>5. p \in RouteStage /\ StageOrder[p] = StageOrder[StageOf(u)] - 1
  BY <1>3, <1>4, PreviousValues, StageOrderValues, SMTT(30) DEF RouteStage, RepairableStage
<1>6. DependsOn[u] = {<<r, p>>}
  BY <1>3, <1>4, DependsOnPrevious
<1>7. p = s \/ LaterOnRoute(<<r, p>>, <<r, s>>, s)
  <2>1. p # s => StageOrder[p] # StageOrder[s]
    BY <1>0, <1>5, StageOrderValues, SMTT(30) DEF RouteStage, RepairableStage
  <2>2. StageOrder[p] \in Nat /\ StageOrder[StageOf(u)] \in Nat
    BY <1>3, <1>5, StageOrderValues, SMTT(30) DEF RouteStage, RepairableStage
  <2>3. p # s => StageOrder[p] > StageOrder[s]
    BY <1>0, <1>1, <1>5, <2>1, <2>2
  <2> QED
    BY <2>3 DEF LaterOnRoute, RouteOf, StageOf
<1>8. row'[<<r, p>>].status \in {"ready", "pending"}
  <2>1. <<r, p>> \in Task
    BY <1>5, TaskOfStage
  <2>2. Resets({<<r, s>>}, "ready", {v \in Task : LaterOnRoute(v, <<r, s>>, s)}, "pending")
    BY RearmResets
  <2> HIDE DEF p
  <2> QED
    BY <1>7, <2>1, <2>2 DEF Resets, Reset
<1> HIDE DEF p
<1> QED
  BY <1>1, <1>2, <1>4, <1>6, <1>8 DEF Passed

LEMMA OperatorWaits ==
    ASSUME TypeOK, OperatorTypeOK, RowsWait, OperatorStep, ~Strands
    PROVE  RowsWait'
<1>1. ASSUME NEW u \in Task, row'[u].status = "pending"
      PROVE  \E d \in DependsOn[u] : row'[d].status \notin Passed
  <2>1. CASE row[u].status = "pending"
    <3>1. PICK d \in DependsOn[u] : row[d].status \notin Passed
      BY <2>1 DEF RowsWait
    <3>2. d \in Task
      BY <3>1, UpstreamTasks, RootWaitsForNothing
    <3> QED
      BY <3>1, <3>2, OperatorStatus
  <2>2. CASE \E r \in Route, s \in RepairableStage :
                RearmFrom(r, s) /\ LaterOnRoute(u, <<r, s>>, s)
    BY <2>2, RearmedWaits
  <2> QED
    BY <1>1, <2>1, <2>2, OperatorStatus
<1> QED
  BY <1>1 DEF RowsWait

\* The progress of a run whose tasks are all through is completed.
LEMMA OperatorFinishes ==
    ASSUME FinishedRunIsClosed, OperatorStep
    PROVE  FinishedRunIsClosed'
<1>1. ASSUME NEW rows, WriteRows(rows)
      PROVE  FinishedRunIsClosed'
  <2>1. row' = rows /\ runStatus' = InferRunProgress(rows)
    BY <1>1 DEF WriteRows
  <2>2. ASSUME \A t \in Task : rows[t].status \in Passed
        PROVE  InferRunProgress(rows) = "completed"
    BY <2>2 DEF InferRunProgress
  <2> QED
    BY <2>1, <2>2 DEF FinishedRunIsClosed
<1>2. UNCHANGED vars => FinishedRunIsClosed'
  BY DEF vars, tables, FinishedRunIsClosed
<1> QED
  BY <1>1, <1>2
     DEF OperatorStep, RetryTask, ResumeFromTargetStage, RerouteToStage, RearmFrom, CancelRoute,
         ForcePublish, ForcePublishFails

LEMMA OperatorFresh ==
    ASSUME TypeOK, OperatorTypeOK, OperatorStep, ~Strands, NEW w \in Worker, Fresh(w)
    PROVE  Fresh(w)'
<1> DEFINE t == TaskOf(w)
<1>0. t \in Task /\ worker' = worker
  BY OperatorKeeps DEF TypeOK, WorkerState, TaskOf
<1>1. CASE ~(worker[w].phase \in FilePhase /\ Holds(w)')
  BY <1>0, <1>1 DEF Fresh
<1>2. CASE worker[w].phase \in FilePhase /\ Holds(w)'
  <2>1. Holds(w)
    BY <1>0, <1>2, OperatorLosesHold DEF LosesHold, Holds
  <2>2. row'[t] = row[t] /\ row[t].status \in Held
    <3>1. row'[t].owner # NoWorker
      BY <1>0, <1>2, PlatformAssumption DEF Holds, TaskOf
    <3> QED
      BY <1>0, <2>1, <3>1, OperatorResets DEF Reset, Holds
  <2>3. ASSUME NEW u \in Task, NEW r \in Route, NEW s \in RepairableStage, RearmFrom(r, s),
               LaterOnRoute(u, <<r, s>>, s)
        PROVE  Elsewhere(u, t) /\ u # EnvTask /\ StageOf(u) # "requirements-analysis"
    <3>1. u # EnvTask /\ RouteOf(u) = r /\ StageOf(u) # "requirements-analysis"
      BY <2>3, RearmedWaits
    <3>2. Resets({<<r, s>>}, "ready", {v \in Task : LaterOnRoute(v, <<r, s>>, s)}, "pending")
      BY <2>3, RearmResets
    <3>3. t # <<r, s>> /\ ~LaterOnRoute(t, <<r, s>>, s)
      <4>1. \A v \in Task : v = <<r, s>> \/ LaterOnRoute(v, <<r, s>>, s) =>
                row'[v].status \in {"ready", "pending"}
        BY <3>2 DEF Resets, Reset
      <4> QED
        BY <1>0, <2>2, <4>1 DEF Held
    <3>4. ASSUME t # EnvTask, RouteOf(t) = r
          PROVE  FALSE
      <4>1. StageOf(t) \in RouteStage /\ t = <<r, StageOf(t)>>
        BY <1>0, <3>4, TaskIsPair
      <4>2. StageOrder[StageOf(t)] =< StageOrder[s] /\ StageOf(t) # s
        <5>1. StageOrder[StageOf(t)] \in Nat /\ StageOrder[s] \in Nat
          BY <4>1, StageOrderValues, SMTT(30) DEF RouteStage, RepairableStage
        <5>2. ~(StageOrder[StageOf(t)] > StageOrder[s])
          BY <3>3, <3>4 DEF LaterOnRoute, RouteOf
        <5> QED
          BY <3>3, <4>1, <5>1, <5>2
      <4>3. StageOrder[StageOf(t)] < StageOrder[s]
        BY <4>1, <4>2, StageOrderValues, SMTT(30) DEF RouteStage, RepairableStage
      <4>4. row[<<r, StageOf(t)>>].status \in Held
        BY <2>2, <4>1
      <4> HIDE DEF t
      <4> QED
        BY <2>3, <4>1, <4>3, <4>4 DEF Strands
    <3>5. u # t
      BY <2>3, <3>3
    <3> QED
      BY <3>1, <3>4, <3>5 DEF Elsewhere
  <2>4. TaskOf(w)' = t
    BY <1>0 DEF TaskOf
  <2> DEFINE b == worker[w].base.st
             f == worker[w].file.st
  <2>5. \A u \in Task :
            /\ row[u].status \in Passed => b[u] = row[u].status
            /\ row[u].status = "pending" /\ b[u] # "pending" =>
                    Elsewhere(u, t) /\ u # EnvTask /\ StageOf(u) # "requirements-analysis"
            /\ Elsewhere(u, t) => f[u] = b[u] \/ (b[u] = "pending" /\ f[u] = "ready")
    BY <1>2, <2>1 DEF Fresh
  <2> HIDE DEF b, f, t
  <2>6. ASSUME NEW u \in Task
        PROVE  /\ row'[u].status \in Passed => b[u] = row'[u].status
               /\ row'[u].status = "pending" /\ b[u] # "pending" =>
                    Elsewhere(u, t) /\ u # EnvTask /\ StageOf(u) # "requirements-analysis"
    BY <2>3, <2>5, OperatorStatus
  <2> QED
    BY <1>0, <2>4, <2>5, <2>6 DEF Fresh, b, f
<1> QED
  BY <1>1, <1>2

LEMMA OperatorWays ==
    ASSUME TypeOK, OperatorTypeOK, WayInv, OperatorStep, ~Strands
    PROVE  WayInv'
<1>1. \A w \in Worker : Fresh(w)'
  BY OperatorFresh DEF WayInv
<1>2. \A w \in Worker : Promoted(w)'
  BY OperatorKeeps DEF WayInv, Promoted
<1> QED
  BY <1>1, <1>2, OperatorWaits, OperatorFinishes DEF WayInv

-----------------------------------------------------------------------------
(* The worker's side of it, step by step.                                  *)

\* Where a worker is left as it was, rows may be lost to it.
LEMMA StillFresh ==
    ASSUME TypeOK, SilentStep, NEW w \in Worker, LosesHold(w), Fresh(w), Promoted(w)
    PROVE  Fresh(w)' /\ Promoted(w)'
<1>1. CASE worker'[w].phase \notin FilePhase
  BY <1>1 DEF Fresh, Promoted, FilePhase
<1>2. CASE worker'[w] = worker[w] /\ (Holds(w)' => Holds(w))
  <2>1. ASSUME NEW u \in Task
        PROVE  /\ row'[u].status \in Passed \/ row[u].status \in Passed => row'[u].status = row[u].status
               /\ row'[u].status = "pending" <=> row[u].status = "pending"
    BY SilentStatus DEF SilentMove, Held, Passed
  <2>2. TaskOf(w)' = TaskOf(w)
    BY <1>2 DEF TaskOf
  <2>3. Fresh(w)'
    BY <1>2, <2>1, <2>2 DEF Fresh
  <2>4. Promoted(w)'
    BY <1>2 DEF Promoted
  <2> QED
    BY <2>3, <2>4
<1> QED
  BY <1>1, <1>2 DEF LosesHold

LEMMA StepFresh ==
    ASSUME ResultStatus \subseteq FinalStatus, TypeOK, WayInv, NEW w \in Worker, Worker = {w},
           [Next]_vars
    PROVE  Fresh(w)' /\ Promoted(w)'
<1>0. FilesAreOwn /\ Fresh(w) /\ Promoted(w) /\ RowsWait
  BY DEF FilesAreOwn, WayInv
<1>1. Rests(w) => Fresh(w)' /\ Promoted(w)'
  BY DEF Rests, Fresh, Promoted, FilePhase
<1>2. CASE WorkerStep(w) \/ WorkerTrouble(w)
  BY <1>0, <1>1, <1>2, WorkerMoves, FileStepWays
<1>3. CASE LeaseNextTask(w) \/ RunLeasedTask(w) \/ StopDraining(w)
  BY <1>1, <1>3, LeaseRests, RerunRests, LeaveRests DEF StopDraining
<1>4. CASE (\E t \in Task : LeaseLapses(t)) \/ ExpireLeases
  <2>1. LosesHold(w)
    BY <1>4, LapseLosesHold, ExpiryLosesHold
  <2>2. SilentStep
    BY <1>4 DEF SilentStep
  <2> QED
    BY <1>0, <2>1, <2>2, StillFresh
<1>5. CASE Heartbeat(w) \/ PauseOrResume \/ UNCHANGED vars
  <2>1. LosesHold(w)
    BY <1>5 DEF Heartbeat, PauseOrResume, vars, tables, LosesHold, Holds, TaskOf
  <2>2. SilentStep
    BY <1>5 DEF SilentStep
  <2> QED
    BY <1>0, <2>1, <2>2, StillFresh
<1> QED
  BY <1>2, <1>3, <1>4, <1>5 DEF Next, SweepLeases, ExpireCommand

LEMMA StepWays ==
    ASSUME OneWorker, ResultStatus \subseteq FinalStatus, TypeOK, WayInv, [Next]_vars
    PROVE  WayInv'
<1>1. PICK w \in Worker : Worker = {w}
  BY DEF OneWorker
<1>2. \A v \in Worker : Fresh(v)' /\ Promoted(v)'
  BY <1>1, StepFresh
<1>3. RowsWait' /\ FinishedRunIsClosed'
  <2>1. CASE SilentStep
    BY <2>1, SilentWays DEF WayInv
  <2>2. ASSUME NEW v \in Worker, PersistResult(v)
        PROVE  RowsWait' /\ FinishedRunIsClosed'
    BY <2>2, PersistWaits, PersistFinishes
  <2> QED
    BY <2>1, <2>2, SilentOrPersist
<1> QED
  BY <1>2, <1>3 DEF WayInv

LEMMA InitWays ==
    ASSUME Init
    PROVE  WayInv
<1>1. \A t \in Task : row[t].status = InitialStatus[t]
  BY DEF Init
<1>2. \A w \in Worker : worker[w].phase = "idle"
  BY DEF Init, Resting
<1>3. EnvTask \in Task /\ InitialStatus[EnvTask] \notin Passed
      /\ \A t \in Task : t # EnvTask => InitialStatus[t] = "pending"
  BY RootWaitsForNothing DEF InitialStatus, Passed
<1>4. RowsWait
  <2>1. ASSUME NEW u \in Task, row[u].status = "pending"
        PROVE  \E d \in DependsOn[u] : row[d].status \notin Passed
    <3>1. u # EnvTask
      BY <1>1, <2>1 DEF InitialStatus
    <3>2. PICK d \in DependsOn[u] : d \in Task
      BY <3>1, UpstreamTasks
    <3> QED
      BY <1>1, <3>2 DEF InitialStatus, Passed
  <2> QED
    BY <2>1 DEF RowsWait
<1>5. FinishedRunIsClosed
  BY <1>1, <1>3 DEF FinishedRunIsClosed
<1> QED
  BY <1>2, <1>4, <1>5 DEF WayInv, Fresh, Promoted, FilePhase

\* What one worker persists, and what a lapse or a crash leaves, leaves no task waiting on
\* dependencies that are all through (docs/ops-startup-guide.md:226).
THEOREM OneWorkerPromotes ==
    ASSUME OneWorker, ResultStatus \subseteq FinalStatus
    PROVE  Spec => []PromotionIsNotLost
<1>1. Init => TypeOK /\ WayInv
  BY InitType, InitWays
<1>2. TypeOK /\ WayInv /\ [Next]_vars => TypeOK' /\ WayInv'
  BY StepType, StepWays
<1>3. WayInv => PromotionIsNotLost
  BY DEF WayInv, RowsWait, PromotionIsNotLost
<1> QED
  BY <1>1, <1>2, <1>3, PTL DEF Spec

-----------------------------------------------------------------------------
(* Promotion with any number of workers.                                   *)

\* The root, once begun, does not wait.
RootIsBegun ==
    /\ row[EnvTask].status # "pending"
    /\ \A w \in Worker : worker[w].phase \in FilePhase =>
            worker[w].base.st[EnvTask] # "pending" /\ worker[w].file.st[EnvTask] # "pending"

LEMMA FileStepRoot ==
    ASSUME TypeOK, RootIsBegun, ResultStatus \subseteq FinalStatus, NEW w \in Worker, FileStep(w)
    PROVE  worker'[w].base.st[EnvTask] # "pending" /\ worker'[w].file.st[EnvTask] # "pending"
<1>0. worker[w] \in WorkerState /\ TaskOf(w) \in Task /\ EnvTask \in Task
  BY RootWaitsForNothing DEF TypeOK, WorkerState, TaskOf
<1>1. CASE Materializes(w)
  <2>1. worker'[w].base = Snapshot /\ worker'[w].file = Snapshot
    <3> HIDE DEF Snapshot
    <3> QED
      BY <1>0, <1>1 DEF Materializes, TypeOK, WorkerState
  <2>2. Snapshot.st[EnvTask] # "pending"
    BY <1>0 DEF Snapshot, SeenAs, RootIsBegun
  <2> QED
    BY <2>1, <2>2
<1>2. ASSUME NEW f \in {worker[w].base, worker[w].file}, NEW o, FinalResult(o), NEW phase,
             worker[w].phase \in FilePhase, Delivers(w, f, o, phase)
      PROVE  worker'[w].base.st[EnvTask] # "pending" /\ worker'[w].file.st[EnvTask] # "pending"
  <2>1. /\ worker'[w].base = worker[w].base
        /\ worker'[w].file.st = SettledOf(f.st, f.rep, TaskOf(w), o)
    BY <1>0, <1>2 DEF Delivers, FileAfter, TypeOK, WorkerState
  <2>2. f.st \in Statuses /\ f.st[EnvTask] # "pending"
    BY <1>0, <1>2 DEF WorkerState, File, Statuses, RootIsBegun
  <2> QED
    BY <1>0, <1>2, <2>1, <2>2, SettledWaits DEF RootIsBegun
<1>3. CASE Catches(w)
  <2>1. worker'[w].base = worker[w].base /\ worker'[w].file = worker[w].file
    BY <1>0, <1>3 DEF Catches, TypeOK, WorkerState
  <2> QED
    BY <1>3, <2>1 DEF Catches, RootIsBegun, FilePhase
<1>4. ASSUME NEW o \in Outcomes[StageOf(TaskOf(w))]
      PROVE  FinalResult(o)
  <2>1. StageOf(TaskOf(w)) \in TaskStage
    BY <1>0, TaskIsPair
  <2>2. o.status \in ResultStatus
    BY <2>1 DEF Outcomes
  <2> QED
    BY <2>1, <2>2, OutcomesAreResults DEF FinalResult
<1> QED
  BY <1>1, <1>2, <1>3, <1>4, StoppedIsFinal DEF FileStep, FilePhase

LEMMA StepRoot ==
    ASSUME FilesAreOwn, ResultStatus \subseteq FinalStatus, TypeOK, RootIsBegun, [Next]_vars
    PROVE  RootIsBegun'
<1>1. row'[EnvTask].status # "pending"
  <2>1. CASE SilentStep
    BY <2>1, SilentStatus, RootWaitsForNothing DEF SilentMove, RootIsBegun
  <2>2. ASSUME NEW w \in Worker, PersistResult(w)
        PROVE  row'[EnvTask].status # "pending"
    <3>1. worker[w].file.st[EnvTask] # "pending"
      BY <2>2 DEF PersistResult, RootIsBegun, FilePhase
    <3> QED
      BY <2>2, <3>1, PersistNow, RootWaitsForNothing DEF RootIsBegun
  <2> QED
    BY <2>1, <2>2, SilentOrPersist
<1> DEFINE Rooted(w) == worker'[w].phase \in FilePhase =>
                worker'[w].base.st[EnvTask] # "pending" /\ worker'[w].file.st[EnvTask] # "pending"
<1>2. ASSUME NEW v \in Worker, worker'[v] = worker[v]
      PROVE  Rooted(v)
  BY <1>2 DEF RootIsBegun
<1>3. ASSUME NEW w \in Worker, FileStep(w) \/ Rests(w)
      PROVE  \A v \in Worker : Rooted(v)
  <2>1. Rooted(w)
    BY <1>3, FileStepRoot DEF Rests
  <2>2. \A v \in Worker \ {w} : worker'[v] = worker[v]
    BY <1>3, FileStepIsOwn
  <2> HIDE DEF Rooted
  <2> QED
    BY <1>2, <2>1, <2>2
<1>4. \A v \in Worker : Rooted(v)
  <2> HIDE DEF Rooted
  <2> QED
    BY <1>2, <1>3, WorkerMoves, OtherMoves
<1> QED
  BY <1>1, <1>4 DEF RootIsBegun

\* Where each route waits for one other at most, no promotion is lost between the
\* snapshots of any number of workers, whatever lapses, crashes or is late
\* (docs/ops-startup-guide.md:226).  Where one waits for two it may be: see
\* PR_v_promotion.
THEOREM PromotionsAreNotLost ==
    ASSUME FilesAreOwn, IdsAreOwn, OneUpstream, ResultStatus \subseteq FinalStatus
    PROVE  Spec => []PromotionIsNotLost
<1>1. Init => PlatInv /\ RootIsBegun
  <2>1. Init => RowsWait /\ \A w \in Worker : Promoted(w)
    BY InitWays DEF WayInv
  <2>2. RowsWait => row[EnvTask].status # "pending"
    BY RootWaitsForNothing DEF RowsWait
  <2> QED
    BY <2>1, <2>2, InitPlat DEF RootIsBegun, Promoted
<1>2. PlatInv /\ RootIsBegun /\ [Next]_vars => PlatInv' /\ RootIsBegun'
  BY StepPlat, StepRoot DEF PlatInv
<1>3. PlatInv /\ RootIsBegun => PromotionIsNotLost
  <2> SUFFICES ASSUME PlatInv, RootIsBegun, NEW t \in Task, row[t].status = "pending"
               PROVE  \E d \in DependsOn[t] : row[d].status \notin Passed
    BY DEF PromotionIsNotLost
  <2>1. RunInv(RowsOf(row))
    BY DEF PlatInv, TableInv
  <2>2. t # EnvTask
    BY DEF RootIsBegun
  <2> DEFINE r == RouteOf(t)
             s == StageOf(t)
  <2>3. t = <<r, s>> /\ r \in Route /\ s \in RouteStage
    BY <2>2, TaskIsPair
  <2>4. \A u \in Task : /\ row[u].status \in Passed => RowsOf(row)[u] \in Passed
                        /\ row[u].status = "pending" => RowsOf(row)[u] = "pending"
    BY DEF RowsOf, SeenAs, Passed
  <2>5. DependsOn[t] \subseteq Task
    BY <2>2, UpstreamTasks
  <2> HIDE DEF r, s
  <2>6. CASE s = "requirements-analysis"
    <3>1. ~DependenciesPassed(RowsOf(row), t)
      BY <2>1, <2>3, <2>4, <2>6 DEF RunInv, FirstOf
    <3> QED
      BY <2>4, <2>5, <3>1 DEF DependenciesPassed
  <2>7. CASE s # "requirements-analysis"
    <3>1. DependsOn[t] = {<<r, Previous(s)>>}
      BY <2>3, <2>7, DependsOnPrevious
    <3>2. ~Ripe(RowsOf(row), r, s)
      BY <2>1, <2>3 DEF RunInv, RouteInv
    <3> QED
      BY <2>3, <2>4, <2>5, <2>7, <3>1, <3>2 DEF Ripe
  <2> QED
    BY <2>6, <2>7
<1> QED
  BY <1>1, <1>2, <1>3, PTL DEF Spec

-----------------------------------------------------------------------------
\* The same under an operator, as long as he strands no route.
LEMMA OperatedWays ==
    ASSUME OneWorker, ResultStatus \subseteq FinalStatus, TypeOK, OperatorTypeOK, WayInv,
           [ControlPlaneNext]_allVars, ~Strands
    PROVE  WayInv'
BY PlatformOrOperator, StepWays, OperatorWays

-----------------------------------------------------------------------------
(* A run at rest.                                                          *)

\* The planner's routes depend on each other in no circle (the planner does not see to
\* it: see PL_v_cycle).
RankedDeps == \E rank \in [Route -> Nat] : \A r \in Route : \A d \in RouteDeps[r] : rank[d] < rank[r]

\* A run in which something waits has something that is neither through nor waiting:
\* down the dependencies there is an end.
LEMMA WaitingHasAnEnd ==
    ASSUME RankedDeps, RowsWait,
           \A t \in Task : row[t].status \in Passed \cup {"pending"}
    PROVE  \A t \in Task : row[t].status \in Passed
<1>1. PICK rank \in [Route -> Nat] : \A r \in Route : \A d \in RouteDeps[r] : rank[d] < rank[r]
  BY DEF RankedDeps
<1>2. row[EnvTask].status \in Passed
  BY RootWaitsForNothing DEF RowsWait
<1> DEFINE Unpassed(t) == t \in Task /\ row[t].status \notin Passed
           N == {rank[RouteOf(t)] : t \in {u \in Task : Unpassed(u)}}
<1>3. ASSUME NEW t \in Task, Unpassed(t)
      PROVE  t # EnvTask /\ row[t].status = "pending" /\ RouteOf(t) \in Route
             /\ StageOf(t) \in RouteStage /\ t = <<RouteOf(t), StageOf(t)>>
  BY <1>2, <1>3, TaskIsPair
<1>4. SUFFICES ASSUME \E t \in Task : Unpassed(t)
               PROVE  FALSE
  OBVIOUS
<1>5. N \in SUBSET Nat /\ N # {}
  BY <1>3, <1>4
<1>6. PICK n \in N : \A m \in N : n =< m
  BY <1>5, LeastNatural
<1>7. PICK t0 \in Task : Unpassed(t0) /\ rank[RouteOf(t0)] = n
  BY <1>6
<1> DEFINE q == RouteOf(t0)
           M == {StageOrder[s] : s \in {x \in RouteStage : Unpassed(<<q, x>>)}}
<1>8. M \in SUBSET Nat /\ M # {}
  <2>1. \A s \in RouteStage : StageOrder[s] \in Nat
    BY StageOrderValues, SMTT(30) DEF RouteStage, RepairableStage
  <2>2. StageOrder[StageOf(t0)] \in M
    BY <1>3, <1>7
  <2> QED
    BY <2>1, <2>2
<1>9. PICK m \in M : \A k \in M : m =< k
  BY <1>8, LeastNatural
<1>10. PICK s \in RouteStage : Unpassed(<<q, s>>) /\ StageOrder[s] = m
  BY <1>9
<1> DEFINE t == <<q, s>>
<1>11. q \in Route /\ t \in Task /\ RouteOf(t) = q /\ StageOf(t) = s
  BY <1>3, <1>7, <1>10, TaskOfStage
<1>12. PICK d \in DependsOn[t] : row[d].status \notin Passed
  BY <1>3, <1>10, <1>11 DEF RowsWait
<1>13. CASE s = "requirements-analysis"
  <2>1. DependsOn[t] = {EnvTask} \cup {<<x, "evaluation">> : x \in RouteDeps[q]} /\ RouteDeps[q] \subseteq Route
    BY <1>11, <1>13, FirstOfRoute DEF FirstOf
  <2>2. PICK x \in RouteDeps[q] : d = <<x, "evaluation">>
    BY <1>2, <1>12, <2>1
  <2>3. x \in Route /\ d \in Task /\ RouteOf(d) = x
    BY <2>1, <2>2, TaskOfStage DEF RouteStage
  <2>4. rank[x] \in N
    BY <1>12, <2>3
  <2>5. rank[x] < n /\ rank[x] \in Nat /\ n \in Nat
    BY <1>1, <1>5, <1>7, <1>11, <2>2, <2>3
  <2> HIDE DEF N
  <2> QED
    BY <1>6, <2>4, <2>5
<1>14. CASE s # "requirements-analysis"
  <2>1. d = <<q, Previous(s)>> /\ Previous(s) \in RouteStage
    BY <1>11, <1>12, <1>14, DependsOnPrevious, WaitsForRoute
  <2>2. d \in Task
    BY <1>11, <2>1, TaskOfStage
  <2>3. StageOrder[Previous(s)] \in M
    BY <1>12, <2>1, <2>2
  <2>4. StageOrder[Previous(s)] < m /\ m \in Nat /\ StageOrder[Previous(s)] \in Nat
    BY <1>10, <1>14, PreviousValues, StageOrderValues, SMTT(30) DEF RouteStage, RepairableStage
  <2> HIDE DEF M
  <2> QED
    BY <1>9, <2>3, <2>4
<1> QED
  BY <1>13, <1>14

\* A run at rest and not completed has a task that was given up or cancelled.
LEMMA StalledHasEnded ==
    ASSUME TypeOK, RankedDeps, RowsWait, FinishedRunIsClosed, AtRest, runStatus # "completed"
    PROVE  \E t \in Task : row[t].status \in {"blocked", "failed", "cancelled"}
<1>1. \A t \in Task : row[t].status \in RowStatus \ (Held \cup {"ready"})
  BY DEF TypeOK, Row, AtRest
<1>2. \A t \in Task : row[t].status \in {"blocked", "failed", "cancelled"} \cup Passed \cup {"pending"}
  BY <1>1 DEF RowStatus, TaskStatus, Held, Passed
<1> QED
  BY <1>2, WaitingHasAnEnd DEF FinishedRunIsClosed

LEMMA StalledMoves ==
    ASSUME TypeOK, RankedDeps, WayInv
    PROVE  /\ StalledRunCanBeMoved
           /\ StalledRunAsksForAttention
<1>1. ASSUME AtRest, runStatus # "completed"
      PROVE  \E t \in Task : row[t].status \in {"blocked", "failed", "cancelled"}
  BY <1>1, StalledHasEnded DEF WayInv
<1>2. StalledRunCanBeMoved
  BY <1>1 DEF StalledRunCanBeMoved, MayRetry, Retriable
<1>3. ASSUME NEW t \in Task, row[t].status \in {"blocked", "failed"}
      PROVE  AttentionRequired # {}
  <2>1. <<"task", t>> \in AttentionRequired
    BY <1>3 DEF AttentionRequired
  <2> QED
    BY <2>1
<1>4. StalledRunAsksForAttention
  BY <1>1, <1>3 DEF StalledRunAsksForAttention
<1> QED
  BY <1>2, <1>4

\* The invariant of a run whose operator strands no route.
LEMMA OperatedWayInv ==
    ASSUME OneWorker, ResultStatus \subseteq FinalStatus
    PROVE  ControlPlaneSpec /\ [][~Strands]_allVars => [](TypeOK /\ WayInv)
<1> DEFINE Inv == TypeOK /\ OperatorTypeOK /\ WayInv
<1>1. Init /\ OperatorInit => Inv
  BY InitType, InitOperatorType, InitWays
<1>2. Inv /\ [ControlPlaneNext]_allVars /\ [~Strands]_allVars => Inv'
  <2>1. Inv /\ UNCHANGED allVars => Inv'
    <3>1. Inv /\ UNCHANGED allVars => TypeOK' /\ OperatorTypeOK'
      BY OperatedStepType, OperatedOperatorType
    <3>2. WayInv /\ UNCHANGED allVars => WayInv'
      BY DEF allVars, vars, tables, WayInv, RowsWait, FinishedRunIsClosed, Fresh, Promoted,
             Holds, TaskOf
    <3> QED
      BY <3>1, <3>2
  <2> QED
    BY <2>1, OperatedStepType, OperatedOperatorType, OperatedWays
<1> QED
  BY <1>1, <1>2, PTL DEF ControlPlaneSpec

\* Whatever mixture of results, lapses, retries, reroutes and cancellations stops a run
\* with one worker short of its end, the operator has an action that moves it again, if
\* no route was completed by force, after which nothing promotes its evaluation, none
\* taken back past the stage at work, and the routes depend on each other in no circle.
THEOREM StalledRunsCanBeMoved ==
    ASSUME OneWorker, ResultStatus \subseteq FinalStatus, RankedDeps
    PROVE  ControlPlaneSpec /\ [][~Strands]_allVars => []StalledRunCanBeMoved
BY OperatedWayInv, StalledMoves, PTL

\* And he is told of it.
THEOREM StalledRunsAskForAttention ==
    ASSUME OneWorker, ResultStatus \subseteq FinalStatus, RankedDeps
    PROVE  ControlPlaneSpec /\ [][~Strands]_allVars => []StalledRunAsksForAttention
BY OperatedWayInv, StalledMoves, PTL

-----------------------------------------------------------------------------
(* Cancelled tasks.  A result reaches its own route, and the first stages  *)
(* of others: a cancelled route is out of its reach, because what asked    *)
(* for a repair, as a route must have to be cancelled, has been begun.     *)

\* A route of which anything is begun has its first stage begun.
Begun(st) ==
    \A r \in Route : st[FirstOf(r)] = "pending" => \A s \in RouteStage : st[<<r, s>>] = "pending"

RowsBegun ==
    \A r \in Route : row[FirstOf(r)].status = "pending" =>
        \A s \in RouteStage : row[<<r, s>>].status = "pending"

\* Snapshot and file of w, as long as w holds its task.
Kept(w) ==
    worker[w].phase \in FilePhase /\ Holds(w) =>
        /\ Begun(worker[w].base.st) /\ Begun(worker[w].file.st) /\ Waits(worker[w].base.st)
        /\ \A u \in Task :
                Elsewhere(u, TaskOf(w)) /\ u # EnvTask /\ StageOf(u) # "requirements-analysis" =>
                    worker[w].file.st[u] = worker[w].base.st[u]
        /\ \A r \in Route :
                /\ worker[w].file.st[FirstOf(r)] = "pending" => worker[w].base.st[FirstOf(r)] = "pending"
                /\ worker[w].base.st[FirstOf(r)] = "pending" => row[FirstOf(r)].status = "pending"
        /\ \A u \in Task :
                row[u].status = "cancelled" /\ worker[w].base.st[u] # "blocked" =>
                    Elsewhere(u, TaskOf(w)) /\ u # EnvTask

AskedIsBegun == \A r \in Route : Rerouted(r) => row[FirstOf(r)].status # "pending"

CancelInv ==
    /\ RowsBegun
    /\ AskedIsBegun
    /\ \A w \in Worker : Kept(w)

\* No result puts a first stage back to wait.
LEMMA FirstStays ==
    ASSUME NEW st \in Statuses, NEW rep, NEW t \in Task, NEW o, FinalResult(o),
           NEW r \in Route, SettledOf(st, rep, t, o)[FirstOf(r)] = "pending"
    PROVE  st[FirstOf(r)] = "pending"
<1> DEFINE v == FirstOf(r)
           done == [st EXCEPT ![t] = o.status]
           routed == ApplyRouteOutcome(done, t, o)
           handed == CollaborationApprovalGate(routed, t, o)
           accepted == EvaluationAcceptanceGate(handed, t, o)
           judged == PublicationGate(accepted, t, o)
           decision == RepairDecision(judged, rep, t, o)
           settled == ApplyAutoRepair(judged, decision, t, o)
<1>0. /\ v \in Task /\ StageOf(v) = "requirements-analysis" /\ Result(o) /\ o.status # "pending"
      /\ \A u \in Task, s \in RepairableStage : ~LaterOnRoute(v, u, s)
  <2>1. v \in Task /\ StageOf(v) = "requirements-analysis"
    BY FirstOfRoute
  <2>2. \A s \in RepairableStage : ~(1 > StageOrder[s])
    BY StageOrderValues, SMTT(30) DEF RepairableStage
  <2> HIDE DEF v
  <2> QED
    BY <2>1, <2>2, StageOrderValues DEF LaterOnRoute, FinalResult, FinalStatus
<1>s. \A s \in {"collaboration", "defect-feedback"} : v # Sibling(t, s)
  BY <1>0 DEF Sibling, StageOf
<1>g. o.target # NoStage => o.target \in RepairableStage
  BY <1>0 DEF Result
<1> HIDE DEF v
<1>1. SettledOf(st, rep, t, o) = PromoteReadyTasks(settled) /\ settled \in Statuses
      /\ judged = Judged(st, t, o)
  <2>1. judged = Judged(st, t, o)
    BY DEF Judged, Gated
  <2> HIDE DEF judged
  <2> QED
    BY <1>0, <2>1, SettledIsPromoted DEF After
<1>2. done \in Statuses /\ (done[v] = "pending" => st[v] = "pending")
  BY <1>0 DEF Statuses, Result
<1> HIDE DEF done
<1>3. routed \in Statuses /\ (routed[v] = "pending" => done[v] = "pending")
  <2> DEFINE skipped == SkipBeforeDefect(done, t)
  <2>1. skipped \in Statuses /\ (skipped[v] = "pending" => done[v] = "pending")
    BY <1>0, <1>2, SkipType DEF SkipBeforeDefect
  <2>2. RouteStageOutcomeToDefect(done, t)[v] = skipped[v]
    <3> HIDE DEF skipped
    <3>1. RouteStageOutcomeToDefect(done, t) =
            [skipped EXCEPT
              ![Sibling(t, "collaboration")] = IF @ = "ready" THEN "pending" ELSE @,
              ![Sibling(t, "defect-feedback")] =
                  IF /\ StageOf(t) # "automated-execution"
                     /\ @ \in {"pending", "completed", "skipped", "blocked"}
                  THEN "ready" ELSE @]
      BY DEF RouteStageOutcomeToDefect, skipped
    <3> QED
      BY <1>0, <1>s, <2>1, <3>1 DEF Statuses
  <2> HIDE DEF skipped
  <2>3. [done EXCEPT ![Sibling(t, "defect-feedback")] =
                IF @ = "pending" THEN "skipped" ELSE @][v] = done[v]
    BY <1>0, <1>s, <1>2 DEF Statuses
  <2> QED
    BY <1>0, <1>2, <2>1, <2>2, <2>3, RouteOutcomeType DEF ApplyRouteOutcome
<1> HIDE DEF routed
<1>4. handed \in Statuses /\ (handed[v] = "pending" => routed[v] = "pending")
  BY <1>0, <1>3, CollaborationGateType DEF CollaborationApprovalGate, Statuses
<1> HIDE DEF handed
<1>5. accepted \in Statuses /\ (accepted[v] = "pending" => handed[v] = "pending")
  <2>1. BackToDefect(handed, t)[v] = "pending" => handed[v] = "pending"
    BY <1>0, <1>s, <1>4 DEF BackToDefect, Statuses
  <2>2. o.target # NoStage =>
            (RerouteEvaluation(handed, t, o.target)[v] = "pending" => handed[v] = "pending")
    BY <1>0, <1>g DEF RerouteEvaluation
  <2>3. [handed EXCEPT ![t] = "blocked"][v] = "pending" => handed[v] = "pending"
    BY <1>0, <1>4 DEF Statuses
  <2> QED
    BY <1>0, <1>4, <2>1, <2>2, <2>3, AcceptanceGateType DEF EvaluationAcceptanceGate
<1> HIDE DEF accepted
<1>6. judged \in Statuses /\ (judged[v] = "pending" => accepted[v] = "pending")
  BY <1>0, <1>5, PublicationGateType DEF PublicationGate, Statuses
<1> HIDE DEF judged
<1>7. /\ decision \in {"not-applicable", "escalated", "triggered"}
      /\ decision = "triggered" => o.target # NoStage
  BY DecisionType DEF RepairDecision
<1> HIDE DEF decision
<1>8. settled[v] = "pending" => judged[v] = "pending"
  <2>1. decision = "triggered" => settled[v] # "pending" \/ settled[v] = judged[v]
    BY <1>0, <1>g, <1>7 DEF ApplyAutoRepair
  <2>2. decision = "escalated" => settled[v] = judged[v]
    BY <1>0, <1>s, <1>6 DEF ApplyAutoRepair, Statuses
  <2>3. decision = "not-applicable" => settled[v] = judged[v]
    BY DEF ApplyAutoRepair
  <2> QED
    BY <1>7, <2>1, <2>2, <2>3
<1> HIDE DEF settled
<1>9. settled[v] = "pending"
  BY <1>0, <1>1, PromotedTask DEF v
<1> QED
  BY <1>2, <1>3, <1>4, <1>5, <1>6, <1>8, <1>9 DEF v

\* What a result makes of a route that is not its own.
LEMMA ElsewherePromoted ==
    ASSUME NEW st \in Statuses, NEW rep, NEW t \in Task, NEW o, FinalResult(o),
           NEW u \in Task, Elsewhere(u, t), u # EnvTask, StageOf(u) # "requirements-analysis",
           st[u] = "pending", \A d \in DependsOn[u] : st[d] \notin Passed
    PROVE  SettledOf(st, rep, t, o)[u] = "pending"
<1> DEFINE new == After(st, rep, t, o)
<1>1. SettledOf(st, rep, t, o) = PromoteReadyTasks(new) /\ new \in Statuses
  BY SettledIsPromoted DEF FinalResult
<1>2. \A v \in Task : Elsewhere(v, t) => new[v] = st[v]
  BY OtherTaskUnchanged DEF Elsewhere, FinalResult
<1> HIDE DEF new
<1>3. PICK d \in DependsOn[u] : d \in Task /\ d # EnvTask /\ RouteOf(d) = RouteOf(u)
  BY UpstreamTasks
<1>4. new[d] \notin Passed
  <2>1. Elsewhere(d, t) \/ d = t
    BY <1>3 DEF Elsewhere
  <2>2. d # t
    BY <1>3 DEF Elsewhere
  <2> QED
    BY <1>2, <1>3, <2>1, <2>2
<1>5. new[u] = "pending" /\ ~DependenciesPassed(new, u)
  BY <1>2, <1>3, <1>4 DEF DependenciesPassed
<1> QED
  BY <1>1, <1>5, PromotedTask

LEMMA FileStepKept ==
    ASSUME TypeOK, ResultStatus \subseteq FinalStatus, RowsWait, RowsBegun,
           NEW w \in Worker, Reported(w), Fresh(w), Kept(w), FileStep(w), UNCHANGED tables
    PROVE  Kept(w)'
<1>0. worker[w] \in WorkerState /\ TaskOf(w) \in Task
  BY DEF TypeOK, WorkerState, TaskOf
<1>f. \A r \in Route : FirstOf(r) \in Task /\ \A s \in RouteStage : <<r, s>> \in Task
  BY FirstOfRoute, TaskOfStage
<1>d. \A u \in Task : \A d \in DependsOn[u] : d \in Task
  BY UpstreamTasks, RootWaitsForNothing
<1>1. CASE Materializes(w)
  <2>1. /\ worker'[w].task = worker[w].task /\ worker'[w].base = Snapshot
        /\ worker'[w].file = Snapshot
    <3> HIDE DEF Snapshot
    <3> QED
      BY <1>0, <1>1 DEF Materializes, TypeOK, WorkerState
  <2>2. \A u \in Task : /\ Snapshot.st[u] = "pending" <=> row[u].status = "pending"
                        /\ row[u].status \notin Passed => Snapshot.st[u] \notin Passed
                        /\ row[u].status = "cancelled" => Snapshot.st[u] = "blocked"
    BY DEF Snapshot, SeenAs, Passed
  <2> HIDE DEF Snapshot
  <2>3. Begun(Snapshot.st)
    BY <1>f, <2>2 DEF Begun, RowsBegun
  <2>4. Waits(Snapshot.st)
    BY <1>d, <2>2 DEF Waits, RowsWait
  <2>5. row' = row
    BY DEF tables
  <2> QED
    BY <1>f, <2>1, <2>2, <2>3, <2>4, <2>5 DEF Kept
<1>2. ASSUME NEW f \in {worker[w].base, worker[w].file}, NEW o, FinalResult(o), NEW phase,
             worker[w].phase \in FilePhase, Delivers(w, f, o, phase)
      PROVE  Kept(w)'
  <2> SUFFICES ASSUME Holds(w)
               PROVE  Kept(w)'
    <3>1. worker'[w].task = worker[w].task
      BY <1>0, <1>2 DEF Delivers, TypeOK, WorkerState
    <3>2. Holds(w)' => Holds(w)
      BY <3>1 DEF Holds, TaskOf, tables
    <3> QED
      BY <3>2 DEF Kept
  <2> DEFINE st == SettledOf(f.st, f.rep, TaskOf(w), o)
             b == worker[w].base.st
             t == TaskOf(w)
             fs == f.st
  <2>1. /\ worker'[w].task = worker[w].task /\ worker'[w].base = worker[w].base
        /\ worker'[w].file.st = st
    BY <1>0, <1>2 DEF Delivers, FileAfter, TypeOK, WorkerState
  <2>2. fs \in Statuses
    BY <1>0, <1>2 DEF WorkerState, File, Statuses
  <2>3. /\ Begun(b) /\ Begun(fs) /\ Waits(b) /\ b[t] = "in-progress"
        /\ \A r \in Route : fs[FirstOf(r)] = "pending" => b[FirstOf(r)] = "pending"
        /\ \A u \in Task : Elsewhere(u, t) /\ u # EnvTask /\ StageOf(u) # "requirements-analysis" =>
                fs[u] = b[u]
        /\ t \in Task
    BY <1>0, <1>2 DEF Kept, Reported
  <2>e. \A u \in Task : Elsewhere(u, t) => fs[u] = b[u] \/ (b[u] = "pending" /\ fs[u] = "ready")
    BY <1>2 DEF Fresh
  <2>4. \A r \in Route : st[FirstOf(r)] = "pending" => fs[FirstOf(r)] = "pending"
    BY <1>2, <2>2, <2>3, FirstStays
  <2>5. ASSUME NEW u \in Task, Elsewhere(u, t), u # EnvTask, StageOf(u) # "requirements-analysis"
        PROVE  st[u] = b[u]
    <3>0. fs[u] = b[u]
      BY <2>3, <2>5
    <3>1. st[u] = fs[u] \/ (fs[u] = "pending" /\ st[u] = "ready")
      <4> DEFINE new == After(f.st, f.rep, TaskOf(w), o)
      <4>1. new[u] = fs[u]
        BY <1>0, <1>2, <2>2, <2>5, OtherTaskUnchanged DEF Elsewhere, FinalResult
      <4>2. st = PromoteReadyTasks(new) /\ new \in Statuses
        BY <1>0, <1>2, <2>2, SettledIsPromoted DEF FinalResult
      <4> HIDE DEF new, st, fs
      <4> QED
        BY <4>1, <4>2, PromotedTask
    <3>2. CASE fs[u] = "pending"
      <4>1. PICK d \in DependsOn[u] : b[d] \notin Passed
        BY <2>3, <3>0, <3>2 DEF Waits
      <4>2. /\ d \in Task /\ d # EnvTask /\ RouteOf(d) = RouteOf(u)
            /\ \A e \in DependsOn[u] : e = d
        <5>1. u = <<RouteOf(u), StageOf(u)>> /\ RouteOf(u) \in Route /\ StageOf(u) \in RouteStage
          BY <2>5, TaskIsPair
        <5>2. DependsOn[u] = {<<RouteOf(u), Previous(StageOf(u))>>}
          BY <2>5, <5>1, DependsOnPrevious
        <5> HIDE DEF b
        <5> QED
          BY <2>5, <4>1, <5>2, UpstreamTasks
      <4>3. Elsewhere(d, t)
        BY <2>5, <4>2 DEF Elsewhere
      <4>4. fs[d] \notin Passed
        BY <2>e, <4>1, <4>2, <4>3 DEF Passed
      <4>5. \A e \in DependsOn[u] : f.st[e] \notin Passed
        BY <4>2, <4>4
      <4>6. st[u] = "pending"
        BY <1>2, <2>2, <2>3, <2>5, <3>2, <4>5, ElsewherePromoted
      <4> QED
        BY <3>0, <3>2, <4>6
    <3> HIDE DEF st, b, fs
    <3> QED
      BY <3>0, <3>1, <3>2
  <2>6. Begun(st)
    <3> HIDE DEF st, b, fs, t
    <3>1. ASSUME NEW r \in Route, st[FirstOf(r)] = "pending", NEW s \in RouteStage
          PROVE  st[<<r, s>>] = "pending"
      <4>1. \A x \in RouteStage : b[<<r, x>>] = "pending"
        BY <2>3, <2>4, <3>1 DEF Begun
      <4>2. t = EnvTask \/ RouteOf(t) # r
        <5>1. ASSUME t # EnvTask, RouteOf(t) = r
              PROVE  FALSE
          <6>1. t = <<r, StageOf(t)>> /\ StageOf(t) \in RouteStage
            BY <2>3, <5>1, TaskIsPair
          <6> QED
            BY <2>3, <4>1, <6>1
        <5> QED
          BY <5>1
      <4>3. /\ <<r, s>> \in Task /\ <<r, s>> # EnvTask /\ RouteOf(<<r, s>>) = r
            /\ StageOf(<<r, s>>) = s
        BY TaskOfStage DEF EnvTask, RouteStage, RepairableStage, RouteOf, StageOf
      <4>4. CASE s = "requirements-analysis"
        BY <3>1, <4>4 DEF FirstOf
      <4>5. CASE s # "requirements-analysis"
        <5>1. Elsewhere(<<r, s>>, t)
          BY <4>2, <4>3 DEF Elsewhere
        <5> QED
          BY <2>5, <4>1, <4>3, <4>5, <5>1
      <4> QED
        BY <4>4, <4>5
    <3> QED
      BY <3>1 DEF Begun
  <2>7. row' = row /\ TaskOf(w)' = t
    BY <2>1 DEF tables, TaskOf
  <2>8. /\ \A r \in Route : b[FirstOf(r)] = "pending" => row[FirstOf(r)].status = "pending"
        /\ \A u \in Task : row[u].status = "cancelled" /\ b[u] # "blocked" =>
                Elsewhere(u, t) /\ u # EnvTask
    BY <1>2 DEF Kept
  <2> DEFINE fs2 == worker'[w].file.st
             b2 == worker'[w].base.st
  <2>9. fs2 = st /\ b2 = b
    BY <2>1
  <2> HIDE DEF fs2, b2, st, b, fs, t
  <2>10. /\ Begun(b2) /\ Begun(fs2) /\ Waits(b2)
         /\ \A u \in Task : Elsewhere(u, t) /\ u # EnvTask /\ StageOf(u) # "requirements-analysis" =>
                fs2[u] = b2[u]
         /\ \A r \in Route : /\ fs2[FirstOf(r)] = "pending" => b2[FirstOf(r)] = "pending"
                             /\ b2[FirstOf(r)] = "pending" => row[FirstOf(r)].status = "pending"
         /\ \A u \in Task : row[u].status = "cancelled" /\ b2[u] # "blocked" =>
                Elsewhere(u, t) /\ u # EnvTask
    BY <2>3, <2>4, <2>5, <2>6, <2>8, <2>9
  <2> QED
    BY <2>7, <2>10 DEF Kept, fs2, b2
<1>3. CASE Catches(w)
  <2>1. /\ worker'[w].task = worker[w].task /\ worker'[w].base = worker[w].base
        /\ worker'[w].file = worker[w].file
    BY <1>0, <1>3 DEF Catches, TypeOK, WorkerState
  <2>2. worker[w].phase \in FilePhase
    BY <1>3 DEF Catches, FilePhase
  <2>3. TaskOf(w)' = TaskOf(w) /\ (Holds(w)' => Holds(w)) /\ row' = row
    BY <2>1 DEF Holds, TaskOf, tables
  <2> QED
    BY <2>1, <2>2, <2>3 DEF Kept
<1>4. ASSUME NEW o \in Outcomes[StageOf(TaskOf(w))]
      PROVE  FinalResult(o)
  <2>1. StageOf(TaskOf(w)) \in TaskStage
    BY <1>0, TaskIsPair
  <2>2. o.status \in ResultStatus
    BY <2>1 DEF Outcomes
  <2> QED
    BY <2>1, <2>2, OutcomesAreResults DEF FinalResult
<1> QED
  BY <1>1, <1>2, <1>3, <1>4, StoppedIsFinal DEF FileStep, FilePhase

\* Where a worker is left as it was, rows may be lost to it.
LEMMA StillKept ==
    ASSUME TypeOK, SilentStep, NEW w \in Worker, LosesHold(w), Kept(w)
    PROVE  Kept(w)'
<1>1. CASE worker'[w].phase \notin FilePhase
  BY <1>1 DEF Kept, FilePhase
<1>2. CASE worker'[w] = worker[w] /\ (Holds(w)' => Holds(w))
  <2>1. ASSUME NEW u \in Task
        PROVE  /\ row'[u].status = "pending" <=> row[u].status = "pending"
               /\ row'[u].status = "cancelled" => row[u].status = "cancelled"
    BY SilentStatus DEF SilentMove, Held
  <2>2. TaskOf(w)' = TaskOf(w)
    BY <1>2 DEF TaskOf
  <2>3. \A r \in Route : FirstOf(r) \in Task
    BY FirstOfRoute
  <2> QED
    BY <1>2, <2>1, <2>2, <2>3 DEF Kept
<1> QED
  BY <1>1, <1>2 DEF LosesHold

LEMMA StepKept ==
    ASSUME ResultStatus \subseteq FinalStatus, TypeOK, ReceiptInv, WayInv, CancelInv,
           NEW w \in Worker, Worker = {w}, [Next]_vars
    PROVE  Kept(w)'
<1>0. FilesAreOwn /\ Fresh(w) /\ Kept(w) /\ Reported(w) /\ RowsWait /\ RowsBegun
  BY DEF FilesAreOwn, WayInv, CancelInv, ReceiptInv
<1>1. Rests(w) => Kept(w)'
  BY DEF Rests, Kept, FilePhase
<1>2. CASE WorkerStep(w) \/ WorkerTrouble(w)
  BY <1>0, <1>1, <1>2, WorkerMoves, FileStepKept
<1>3. CASE LeaseNextTask(w) \/ RunLeasedTask(w) \/ StopDraining(w)
  BY <1>1, <1>3, LeaseRests, RerunRests, LeaveRests DEF StopDraining
<1>4. CASE (\E t \in Task : LeaseLapses(t)) \/ ExpireLeases
  <2>1. LosesHold(w)
    BY <1>4, LapseLosesHold, ExpiryLosesHold
  <2>2. SilentStep
    BY <1>4 DEF SilentStep
  <2> QED
    BY <1>0, <2>1, <2>2, StillKept
<1>5. CASE Heartbeat(w) \/ PauseOrResume \/ UNCHANGED vars
  <2>1. LosesHold(w)
    BY <1>5 DEF Heartbeat, PauseOrResume, vars, tables, LosesHold, Holds, TaskOf
  <2>2. SilentStep
    BY <1>5 DEF SilentStep
  <2> QED
    BY <1>0, <2>1, <2>2, StillKept
<1> QED
  BY <1>2, <1>3, <1>4, <1>5 DEF Next, SweepLeases, ExpireCommand

\* A result begins no route at another stage than its first, and ends no first stage
\* back at its beginning.
LEMMA PersistBegins ==
    ASSUME TypeOK, WayInv, CancelInv, NEW w \in Worker, PersistResult(w),
           NEW r \in Route, row'[FirstOf(r)].status = "pending"
    PROVE  /\ row[FirstOf(r)].status = "pending"
           /\ \A s \in RouteStage : row'[<<r, s>>].status = "pending"
<1> DEFINE b == worker[w].base.st
           f == worker[w].file.st
           v == FirstOf(r)
<1>1. worker[w].phase \in FilePhase /\ Holds(w) /\ Fresh(w) /\ Kept(w) /\ RowsBegun
  BY DEF PersistResult, Persistable, WayInv, CancelInv, FilePhase
<1>2. v \in Task /\ StageOf(v) = "requirements-analysis" /\ \A s \in RouteStage : <<r, s>> \in Task
  BY FirstOfRoute, TaskOfStage
<1>3. /\ f[v] = "pending" => b[v] = "pending"
      /\ b[v] = "pending" => row[v].status = "pending"
      /\ Begun(b) /\ Begun(f)
  BY <1>1 DEF Kept
<1>4. row[v].status = "pending" => b[v] = "pending"
  BY <1>1, <1>2 DEF Fresh
<1>5. \A u \in Task : row'[u].status = IF f[u] = b[u] THEN row[u].status ELSE f[u]
  BY PersistNow
<1>6. row'[v].status = "pending"
  OBVIOUS
<1>7. row[v].status = "pending" => \A s \in RouteStage : row[<<r, s>>].status = "pending"
  BY <1>1 DEF RowsBegun
<1>8. b[v] = "pending" => \A s \in RouteStage : b[<<r, s>>] = "pending"
  BY <1>3 DEF Begun
<1>9. f[v] = "pending" => \A s \in RouteStage : f[<<r, s>>] = "pending"
  BY <1>3 DEF Begun
<1> HIDE DEF b, f, v
<1>10. f[v] = "pending" /\ b[v] = "pending" /\ row[v].status = "pending"
  BY <1>2, <1>3, <1>4, <1>5, <1>6
<1> QED
  BY <1>2, <1>5, <1>7, <1>8, <1>9, <1>10 DEF v

LEMMA StepBegun ==
    ASSUME TypeOK, WayInv, CancelInv, [Next]_vars, NEW r \in Route, row'[FirstOf(r)].status = "pending"
    PROVE  /\ row[FirstOf(r)].status = "pending"
           /\ \A s \in RouteStage : row'[<<r, s>>].status = "pending"
<1>1. CASE SilentStep
  <2>1. \A u \in Task : row'[u].status = "pending" <=> row[u].status = "pending"
    BY <1>1, SilentStatus DEF SilentMove, Held
  <2>2. FirstOf(r) \in Task /\ \A s \in RouteStage : <<r, s>> \in Task
    BY FirstOfRoute, TaskOfStage
  <2> QED
    BY <2>1, <2>2 DEF CancelInv, RowsBegun
<1> QED
  BY <1>1, SilentOrPersist, PersistBegins

\* What a worker leaves for the operator it leaves of an evaluation it held.
LEMMA PersistAsked ==
    ASSUME TypeOK, OperatorTypeOK, WayInv, CancelInv, NEW w \in Worker, Persist(w),
           NEW r \in Route, Rerouted(r)'
    PROVE  row'[FirstOf(r)].status # "pending"
<1>1. PersistResult(w) /\ Holds(w) /\ TaskOf(w) \in Task
  BY DEF Persist, PersistResult, Persistable, TypeOK, WorkerState, TaskOf
<1>2. row'[FirstOf(r)].status = "pending" => row[FirstOf(r)].status = "pending"
  BY <1>1, PersistBegins
<1>3. CASE Rerouted(r)
  BY <1>2, <1>3 DEF CancelInv, AskedIsBegun
<1>4. CASE ~Rerouted(r)
  <2>1. StageOf(TaskOf(w)) = "evaluation" /\ RouteOf(TaskOf(w)) = r
    BY <1>4 DEF Persist, Rerouted, OperatorTypeOK
  <2>2. TaskOf(w) # EnvTask
    BY <2>1 DEF EnvTask, StageOf
  <2>3. TaskOf(w) = <<r, "evaluation">>
    BY <1>1, <2>1, <2>2, TaskIsPair
  <2>4. row[<<r, "evaluation">>].status # "pending"
    BY <1>1, <2>3 DEF Holds, Held
  <2>5. row[FirstOf(r)].status # "pending"
    BY <2>4 DEF CancelInv, RowsBegun, RouteStage
  <2> QED
    BY <1>2, <2>5
<1> QED
  BY <1>3, <1>4

\* The operator takes back no route that was not begun.
LEMMA OperatorBegun ==
    ASSUME TypeOK, OperatorTypeOK, RowsBegun, AskedIsBegun, OperatorStep, NEW r \in Route
    PROVE  /\ row[FirstOf(r)].status = "pending" => \A s \in RouteStage : row'[<<r, s>>].status = "pending"
           /\ row'[FirstOf(r)].status = "pending" => row[FirstOf(r)].status = "pending"
           /\ Rerouted(r)' => Rerouted(r)
<1> DEFINE Goal == /\ row[FirstOf(r)].status = "pending" =>
                        \A s \in RouteStage : row'[<<r, s>>].status = "pending"
                   /\ row'[FirstOf(r)].status = "pending" => row[FirstOf(r)].status = "pending"
           v == FirstOf(r)
<1>f. v \in Task /\ StageOf(v) = "requirements-analysis" /\ \A s \in RouteStage : <<r, s>> \in Task
  BY FirstOfRoute, TaskOfStage
<1>r. row[v].status = "pending" =>
        ~Rerouted(r) /\ \A s \in RouteStage : row[<<r, s>>].status = "pending"
  BY DEF AskedIsBegun, RowsBegun
<1>s. \A s \in RepairableStage : ~LaterOnRoute(v, <<r, s>>, s)
  <2>1. \A s \in RepairableStage : ~(StageOrder["requirements-analysis"] > StageOrder[s])
    BY StageOrderValues, SMTT(30) DEF RepairableStage
  <2> QED
    BY <1>f, <2>1 DEF LaterOnRoute
<1>a. Rerouted(r)' => Rerouted(r)
  BY DEF OperatorStep, RetryTask, ResumeFromTargetStage, RerouteToStage, RearmFrom, CancelRoute,
         ForcePublish, ForcePublishFails, Rerouted, OperatorTypeOK
<1>1. ASSUME NEW S, NEW s \in {"ready", "cancelled", "completed"}, Resets(S, s, {}, "pending"),
             \A x \in RouteStage : <<r, x>> \in S => row[<<r, x>>].status # "pending"
      PROVE  Goal
  <2>1. \A u \in Task : (u \in S /\ row'[u].status = s) \/ (u \notin S /\ row'[u] = row[u])
    BY <1>1 DEF Resets, Reset
  <2>2. \A x \in RouteStage : row[<<r, x>>].status = "pending" => row'[<<r, x>>].status = "pending"
    BY <1>1, <1>f, <2>1
  <2>3. row'[v].status = "pending" => row[v].status = "pending"
    BY <1>1, <1>f, <2>1
  <2> HIDE DEF v
  <2> QED
    BY <1>r, <2>2, <2>3 DEF v
<1>2. ASSUME NEW t \in Task, RetryTask(t)
      PROVE  Goal
  <2>1. Resets({t}, "ready", {}, "pending") /\ row[t].status # "pending"
    BY <1>2, RetryResets DEF RetryTask, MayRetry, Retriable
  <2> QED
    BY <1>1, <2>1
<1>3. ASSUME NEW q \in Route, CancelRoute(q)
      PROVE  Goal
  <2>1. Resets(OpenOnRoute(q), "cancelled", {}, "pending") /\ Rerouted(q)
    BY <1>3, CancelResets DEF CancelRoute, MayCancel
  <2>2. ASSUME NEW x \in RouteStage, <<r, x>> \in OpenOnRoute(q)
        PROVE  r = q
    BY <2>2 DEF OpenOnRoute, RouteOf
  <2>3. CASE r # q
    BY <1>1, <2>1, <2>2, <2>3
  <2>4. CASE r = q
    <3>1. row[v].status # "pending"
      BY <1>r, <2>1, <2>4
    <3>2. row'[v].status # "pending"
      BY <1>f, <2>1, <3>1 DEF Resets, Reset
    <3> QED
      BY <3>1, <3>2
  <2> QED
    BY <2>3, <2>4
<1>4. ASSUME NEW q \in Route, ResumeFromTargetStage(q) \/ RerouteToStage(q)
      PROVE  Goal
  <2>1. PICK s \in RepairableStage : RearmFrom(q, s)
    BY <1>4, RearmsStage
  <2>2. Resets({<<q, s>>}, "ready", {u \in Task : LaterOnRoute(u, <<q, s>>, s)}, "pending")
        /\ Rerouted(q)
    BY <2>1, RearmResets DEF RearmFrom, MayRearm
  <2>3. CASE r # q
    <3>1. ASSUME NEW x \in RouteStage
          PROVE  row'[<<r, x>>] = row[<<r, x>>]
      <4>1. <<r, x>> # <<q, s>> /\ ~LaterOnRoute(<<r, x>>, <<q, s>>, s)
        BY <2>3 DEF LaterOnRoute, RouteOf
      <4> QED
        BY <1>f, <2>2, <4>1 DEF Resets
    <3>2. row'[v] = row[v]
      BY <3>1 DEF FirstOf, RouteStage, RepairableStage
    <3> HIDE DEF v
    <3> QED
      BY <1>r, <3>1, <3>2 DEF v
  <2>4. CASE r = q
    <3>1. row[v].status # "pending"
      BY <1>r, <2>2, <2>4
    <3>2. ~LaterOnRoute(v, <<q, s>>, s)
      BY <1>s, <2>4
    <3>3. row'[v].status # "pending"
      BY <1>f, <2>2, <3>1, <3>2 DEF Resets, Reset
    <3> QED
      BY <3>1, <3>3
  <2> QED
    BY <2>3, <2>4
<1>5. ASSUME NEW q \in Route, ForcePublish(q)
      PROVE  Goal
  <2>1. Resets({<<q, "collaboration">>}, "completed", {}, "pending")
        /\ row[<<q, "collaboration">>].status # "pending"
    BY <1>5, PublishResets DEF ForcePublish, Publishable
  <2> QED
    BY <1>1, <2>1
<1>6. ASSUME NEW q \in Route, ForcePublishFails(q)
      PROVE  Goal
  <2>1. row' = row
    BY <1>6 DEF ForcePublishFails, vars, tables
  <2> QED
    BY <1>r, <2>1
<1>7. Goal
  <2> HIDE DEF Goal
  <2> QED
    BY <1>2, <1>3, <1>4, <1>5, <1>6 DEF OperatorStep
<1> QED
  BY <1>a, <1>7

LEMMA OperatorKept ==
    ASSUME TypeOK, OperatorTypeOK, RowsBegun, AskedIsBegun, OperatorStep, NEW w \in Worker, Kept(w)
    PROVE  Kept(w)'
<1> DEFINE t == TaskOf(w)
<1>0. t \in Task /\ worker' = worker /\ TaskOf(w)' = t
  BY OperatorKeeps DEF TypeOK, WorkerState, TaskOf
<1>1. CASE ~(worker[w].phase \in FilePhase /\ Holds(w)')
  BY <1>0, <1>1 DEF Kept
<1>2. CASE worker[w].phase \in FilePhase /\ Holds(w)'
  <2>1. Holds(w)
    BY <1>0, <1>2, OperatorLosesHold DEF LosesHold, Holds
  <2>2. row'[t] = row[t] /\ row[t].status \in Held
    <3>1. row'[t].owner # NoWorker
      BY <1>0, <1>2, PlatformAssumption DEF Holds, TaskOf
    <3> QED
      BY <1>0, <2>1, <3>1, OperatorResets DEF Reset, Holds
  <2>3. ASSUME NEW u \in Task, row'[u].status = "cancelled", row[u].status # "cancelled"
        PROVE  Elsewhere(u, t) /\ u # EnvTask
    <3>1. PICK r \in Route : CancelRoute(r)
      <4>1. ASSUME NEW S, NEW s \in {"ready", "completed"}, NEW R, Resets(S, s, R, "pending")
            PROVE  FALSE
        BY <2>3, <4>1 DEF Resets, Reset
      <4>2. (\E q \in Task : RetryTask(q)) => FALSE
        BY <4>1, RetryResets
      <4>3. (\E q \in Route : ResumeFromTargetStage(q) \/ RerouteToStage(q)) => FALSE
        BY <4>1, RearmsStage, RearmResets
      <4>4. (\E q \in Route : ForcePublish(q)) => FALSE
        BY <4>1, PublishResets
      <4>5. (\E q \in Route : ForcePublishFails(q)) => FALSE
        BY <2>3 DEF ForcePublishFails, vars, tables
      <4> QED
        BY <4>2, <4>3, <4>4, <4>5 DEF OperatorStep
    <3>2. Resets(OpenOnRoute(r), "cancelled", {}, "pending")
      BY <3>1, CancelResets
    <3>3. u \in OpenOnRoute(r)
      BY <2>3, <3>2 DEF Resets
    <3>4. t \notin OpenOnRoute(r)
      BY <1>0, <2>2, <3>2 DEF Resets, Reset, Held
    <3>5. row[t].status \notin Passed \cup {"cancelled"}
      BY <2>2 DEF Held, Passed
    <3>6. t = EnvTask \/ RouteOf(t) # r
      BY <1>0, <3>4, <3>5 DEF OpenOnRoute, Task
    <3>7. RouteOf(u) = r /\ u # EnvTask
      BY <3>3, TaskIsPair DEF OpenOnRoute, EnvTask, RouteTask, RouteStage, RepairableStage
    <3> QED
      BY <3>3, <3>4, <3>6, <3>7 DEF Elsewhere
  <2> DEFINE b == worker[w].base.st
             f == worker[w].file.st
  <2>4. /\ Begun(b) /\ Begun(f) /\ Waits(b)
        /\ \A u \in Task : Elsewhere(u, t) /\ u # EnvTask /\ StageOf(u) # "requirements-analysis" =>
                f[u] = b[u]
        /\ \A r \in Route : /\ f[FirstOf(r)] = "pending" => b[FirstOf(r)] = "pending"
                            /\ b[FirstOf(r)] = "pending" => row[FirstOf(r)].status = "pending"
        /\ \A u \in Task : row[u].status = "cancelled" /\ b[u] # "blocked" =>
                Elsewhere(u, t) /\ u # EnvTask
    BY <1>2, <2>1 DEF Kept
  <2>5. ASSUME NEW r \in Route, row[FirstOf(r)].status = "pending"
        PROVE  row'[FirstOf(r)].status = "pending"
    BY <2>5, OperatorBegun DEF FirstOf, RouteStage, RepairableStage
  <2> HIDE DEF b, f, t
  <2> QED
    BY <1>0, <2>3, <2>4, <2>5 DEF Kept, b, f
<1> QED
  BY <1>1, <1>2

LEMMA OperatorCancels ==
    ASSUME TypeOK, OperatorTypeOK, CancelInv, OperatorStep
    PROVE  CancelInv'
<1>1. RowsBegun /\ AskedIsBegun /\ \A w \in Worker : Kept(w)
  BY DEF CancelInv
<1>2. \A w \in Worker : Kept(w)'
  BY <1>1, OperatorKept
<1>3. RowsBegun' /\ AskedIsBegun'
  BY <1>1, OperatorBegun DEF RowsBegun, AskedIsBegun
<1> QED
  BY <1>2, <1>3 DEF CancelInv

LEMMA OperatedCancels ==
    ASSUME OneWorker, ResultStatus \subseteq FinalStatus, TypeOK, OperatorTypeOK, ReceiptInv, WayInv,
           CancelInv, [ControlPlaneNext]_allVars
    PROVE  CancelInv'
<1>1. CASE OperatorStep
  BY <1>1, OperatorCancels
<1>2. CASE ~OperatorStep
  <2>0. [Next]_vars
    BY <1>2, PlatformOrOperator
  <2>1. \A w \in Worker : Kept(w)'
    BY <2>0, StepKept DEF OneWorker
  <2>2. RowsBegun'
    BY <2>0, StepBegun DEF RowsBegun
  <2>3. AskedIsBegun'
    <3>1. ASSUME NEW w \in Worker, Persist(w)
          PROVE  AskedIsBegun'
      BY <3>1, PersistAsked DEF AskedIsBegun
    <3>2. CASE asked' = asked
      BY <2>0, <3>2, StepBegun DEF CancelInv, AskedIsBegun, Rerouted
    <3> QED
      BY <1>2, <3>1, <3>2
         DEF ControlPlaneNext, PlatformStep, Materialize, Deliver, allVars, operatorVars
  <2> QED
    BY <2>1, <2>2, <2>3 DEF CancelInv
<1> QED
  BY <1>1, <1>2

LEMMA InitCancels ==
    ASSUME Init, OperatorInit
    PROVE  CancelInv
<1>1. \A r \in Route : \A s \in RouteStage : row[<<r, s>>].status = "pending"
  <2>1. ASSUME NEW r \in Route, NEW s \in RouteStage
        PROVE  row[<<r, s>>].status = "pending"
    <3>1. <<r, s>> \in Task /\ <<r, s>> # EnvTask
      BY TaskOfStage DEF EnvTask, RouteStage, RepairableStage
    <3> QED
      BY <3>1 DEF Init, InitialStatus
  <2> QED
    BY <2>1
<1>2. \A w \in Worker : worker[w].phase = "idle"
  BY DEF Init, Resting
<1> QED
  BY <1>1, <1>2 DEF CancelInv, RowsBegun, AskedIsBegun, Kept, FilePhase, OperatorInit, Rerouted

\* What a result writes over a cancelled row it was computed on.
LEMMA StepUncancels ==
    ASSUME TypeOK, OperatorTypeOK, WayInv, CancelInv, [ControlPlaneNext]_allVars,
           NEW t \in Task, row[t].status = "cancelled", row'[t].status # "cancelled"
    PROVE  \/ acted' # acted
           \/ \E w \in Worker :
                /\ worker[w].phase \in {"executed", "stopped"}
                /\ worker'[w].phase \in {"idle", "draining"}
                /\ worker[w].base.st[t] = "blocked"
<1>1. CASE OperatorStep
  <2>1. acted' = acted + 1 /\ acted \in Nat
    BY <1>1 DEF OperatorStep, RetryTask, ResumeFromTargetStage, RerouteToStage, RearmFrom,
                CancelRoute, ForcePublish, ForcePublishFails, Act, OperatorTypeOK
  <2> QED
    BY <2>1
<1>2. CASE ~OperatorStep
  <2>0. [Next]_vars
    BY <1>2, PlatformOrOperator
  <2>1. CASE SilentStep
    BY <2>1, SilentStatus DEF SilentMove, Held
  <2>2. ASSUME NEW w \in Worker, PersistResult(w)
        PROVE  /\ worker[w].phase \in {"executed", "stopped"}
               /\ worker'[w].phase \in {"idle", "draining"}
               /\ worker[w].base.st[t] = "blocked"
    <3>1. worker[w].phase \in {"executed", "stopped"} /\ Holds(w)
      BY <2>2 DEF PersistResult, Persistable
    <3>2. worker'[w].phase \in {"idle", "draining"}
      BY <2>2 DEF PersistResult, Finish, Leave, Resting, TypeOK
    <3> DEFINE b == worker[w].base.st
               f == worker[w].file.st
               k == TaskOf(w)
    <3>3. /\ b[t] # "blocked" => Elsewhere(t, k) /\ t # EnvTask
          /\ \A u \in Task : Elsewhere(u, k) /\ u # EnvTask /\ StageOf(u) # "requirements-analysis" =>
                f[u] = b[u]
          /\ \A r \in Route : b[FirstOf(r)] = "pending" => row[FirstOf(r)].status = "pending"
          /\ \A u \in Task : Elsewhere(u, k) => f[u] = b[u] \/ (b[u] = "pending" /\ f[u] = "ready")
      BY <3>1 DEF CancelInv, Kept, WayInv, Fresh, FilePhase
    <3>4. f[t] # b[t]
      BY <2>2, PersistNow
    <3> HIDE DEF b, f, k
    <3>5. ASSUME b[t] # "blocked"
          PROVE  FALSE
      <4>1. StageOf(t) = "requirements-analysis" /\ b[t] = "pending"
        BY <3>3, <3>4, <3>5
      <4>2. t = FirstOf(RouteOf(t)) /\ RouteOf(t) \in Route
        BY <3>3, <3>5, <4>1, TaskIsPair DEF FirstOf
      <4> QED
        BY <3>3, <4>1, <4>2
    <3> QED
      BY <3>1, <3>2, <3>5 DEF b
  <2> QED
    BY <2>0, <2>1, <2>2, SilentOrPersist
<1> QED
  BY <1>1, <1>2

\* A result computed before a route was cancelled does not bring its tasks back: as long
\* as the operator strands no route, the one worker of a run writes over a cancelled row
\* only what it computed on the row as it was cancelled.
THEOREM CancellationsAreNotUndone ==
    ASSUME OneWorker, ResultStatus \subseteq FinalStatus
    PROVE  ControlPlaneSpec /\ [][~Strands]_allVars => CancelIsNotUndone
<1> DEFINE Inv == TypeOK /\ OperatorTypeOK /\ ReceiptInv /\ WayInv /\ CancelInv
<1>1. Init /\ OperatorInit => Inv
  <2>1. Init => ReceiptInv
    BY DEF Init, Resting, ReceiptInv, Reported, FilePhase
  <2> QED
    BY <2>1, InitType, InitOperatorType, InitWays, InitCancels
<1>2. Inv /\ [ControlPlaneNext]_allVars /\ [~Strands]_allVars => Inv'
  <2>1. OneWorker => FilesAreOwn
    BY DEF OneWorker, FilesAreOwn
  <2>2. Inv /\ UNCHANGED allVars => Inv'
    <3>1. Inv /\ UNCHANGED allVars => TypeOK' /\ OperatorTypeOK' /\ ReceiptInv' /\ CancelInv'
      BY <2>1, OperatedStepType, OperatedOperatorType, OperatedReceipt, OperatedCancels
    <3>2. WayInv /\ UNCHANGED allVars => WayInv'
      BY DEF allVars, vars, tables, WayInv, RowsWait, FinishedRunIsClosed, Fresh, Promoted,
             Holds, TaskOf
    <3> QED
      BY <3>1, <3>2
  <2> QED
    BY <2>1, <2>2, OperatedStepType, OperatedOperatorType, OperatedReceipt, OperatedWays,
       OperatedCancels
<1>3. Inv /\ [ControlPlaneNext]_allVars =>
        [\A t \in Task :
            row[t].status = "cancelled" /\ row'[t].status # "cancelled" =>
                \/ acted' # acted
                \/ \E w \in Worker :
                    /\ worker[w].phase \in {"executed", "stopped"}
                    /\ worker'[w].phase \in {"idle", "draining"}
                    /\ worker[w].base.st[t] = "blocked"]_allVars
  BY StepUncancels
<1> QED
  BY <1>1, <1>2, <1>3, PTL DEF ControlPlaneSpec, CancelIsNotUndone
=============================================================================
