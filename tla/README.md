# Spec2Flow: a TLA+ model of its runs

Spec2Flow (`src/packages/cli`) turns a requirement into a graph of tasks and has
adapters (AI agents) and deterministic executors work through it. A *run* is one
task graph with the state of its tasks. There are two ways to execute a run: a
file-based loop of one process, and a PostgreSQL-backed platform with several
workers. Both apply task results with the same code.

All paths below are relative to `src/packages/cli/src/`.

## 1. Inventory

| Component | State | Operations | What makes it correct |
|---|---|---|---|
| Task graph planning (`planning/`) | none: produces the graph | select routes, infer dependencies, risk and policy, build the graph | each stage waits for the one before it, some route can start, a change reaches its routes at its risk |
| Execution state (`runtime/execution-state-service.ts`) | task statuses, run status, current stage | promotion, inference | a run is called completed only if it is |
| Task results (`runtime/task-result-service.ts`) | the same, artifacts, notes | `applyTaskResult`: record, route into defect feedback, three gates, repair, promote | one stage of a route at a time; no collaboration before the defect path is through; an accepted route is final |
| Auto-repair (`runtime/auto-repair-policy-service.ts`) | `auto-repair-attempt:<n>` notes | decide, requeue or escalate | repairs stay within the review policy |
| Workflow loop (`runtime/workflow-loop-service.ts`, `task-claim-service.ts`) | `execution-state.json` | claim, resume, apply, write | terminates; survives a crash |
| Publication (`runtime/collaboration-publication-service.ts`) | git, publication records | commit or block | a route publishes its own changes |
| Platform scheduler (`platform/platform-scheduler-service.ts`) | tables `tasks`, `task_attempts`, `runs` | lease, start, heartbeat, expire | a task has one lease; lost tasks are recovered within their retries |
| Platform worker (`platform/platform-worker-service.ts`, `cli/run-platform-worker-task-command.ts`) | the materialized snapshot, the execution-state file | materialize, execute, stop, persist | a result reaches the attempt it was made for, and no other worker's rows |
| Auto-runner (`platform/platform-auto-runner-service.ts`) | the runs in progress | poll, drain, sweep | no run is left behind |
| Auto-repair reconciliation (`platform/platform-auto-repair-service.ts`) | table `repair_attempts` | insert, settle | a repair is recorded once |
| Control-plane actions (`platform/platform-control-plane-action-service.ts`) | rows, run metadata | pause, resume, retry, approve, reject, reroute, cancel, publish | an operator's action leaves a run that can go on |
| Run submission (`platform/platform-control-plane-run-submission-service.ts`, `platform-run-provisioning-service.ts`, `platform-repository.ts`, `platform-project-service.ts`) | rows of repositories, projects and runs, git worktrees | submit, init, register, edit; provision, plan, insert | a run is there completely or not at all, in a worktree of its own; transactions do not deadlock |
| Adapter runner (`adapters/`) | an adapter process, its output and deliverables on disk, the preflight cache | probe, start, time out, abort, close; normalize, enrich, judge | a run ends, a stopped one completes nothing, what a role may not do is refused, verdicts are the adapter's |
| Deterministic execution (`runtime/deterministic-execution-service.ts`, `service-orchestration-service.ts`, `execution-lifecycle-service.ts`, `browser-automation-service.ts`) | started services, command results, the lifecycle guard | start in order, health-check, run commands and browser checks, tear down, report | completed means verified; nothing started is left running against the policy; it ends |
| Artifact store (`runtime/execution-artifact-*.ts`, `execution-evidence-index-service.ts`) | stored artifacts, upload status | register, flush, catalog | what is listed is stored, and the catalog tells what was uploaded |
| Read models (`platform/platform-observability-service.ts`, `platform-control-plane-service.ts`) | none: projections of the tables | attention items, repair summaries, review packet | a run that needs a decision is shown |
| Web console (`packages/web/src/lib/run-operator-actions.ts`, `components/task-actions-panel.tsx`) | polled projections | offer actions | what needs an operator has an action that works |
| HTTP server, onboarding, docs tooling, command line, other pages of the web UI | none the runs depend on | | |

How they interact. The loop owns a state file, and calls the claim service, the
adapter runner and `applyTaskResult` in turn. On the platform a worker leases a
row in one transaction, starts it in another, copies the run into a file in a
third, executes on that file with the same `applyTaskResult`, and writes the
differences back in a fourth. Between these transactions other workers, the
sweep of expired leases and the operator change the same rows. Executing a task is
either a run of an external adapter, a child process that leaves a report and
deliverables, or a deterministic execution of services, commands and browser checks.
The operator sees projections of the rows that his browser polls, and acts on them.

What is hard: overlapping snapshots; leases that lapse while the adapter still
answers; results that arrive for an attempt already expired; two workers sharing
one id or one file; unique keys that make a whole result fail; crashes between claim,
publication and write; repairs and reroutes that send a route back any number
of times; a deadline, an abort and an exit that race; files of an earlier attempt;
a worktree made in the middle of a transaction; routes that wait for each other. The hazards are listed one by one in `PROJECT.json`.

## 2. Modules

    TaskPlanning         which routes, which wait for which, at what risk
                                                    -> MCTaskPlanning
    TaskGraph            the graph: routes, stages, dependencies, order
      TaskRouting        what one result does to the statuses (pure operators)
        WorkflowLoop     the file-based loop        -> MCWorkflowLoop
        PlatformRun      tables, workers, leases    -> MCPlatformRun
          TaskLease      what leases promise, implemented by PlatformRun
          ControlPlane   the operator over it
            OperatorConsole  what he is shown and offered
                                                    -> MCControlPlane
    ServiceOrchestration, ArtifactStore
      TaskExecution      an execution without a provider
                                                    -> MCTaskExecution
    AdapterOutput        normalization, enrichment, role policy (pure operators)
      AdapterRun         attempts of an external adapter
                                                    -> MCAdapterRun
    RunSubmission        how a run comes to be      -> MCRunSubmission

    RecursionProofs, TaskRoutingProofs              lemmas on recursion, and on the operators
    WorkflowLoopProofs, PlatformRunProofs, TaskPlanningProofs,
    TaskExecutionProofs, RunSubmissionProofs, AdapterRunProofs
                                                    theorems

`PlatformRunProofs` has the theorems of `PlatformRun`, `ControlPlane` and `OperatorConsole`.

**TaskGraph.** A task is a pair of route and stage, as its id
`<route>--<stage>` is; the environment task is the root. `DependsOn` is the chain
built by `buildRouteTaskBundle`, with the evaluations of upstream routes before the
first stage. Which routes exist and which consume which are constants.

**TaskRouting.** `applyTaskResult` as the composition the code is: `Gated` records
the result, routes a bad delivery stage into defect feedback
(`ApplyRouteOutcome`), then asks the collaboration and the evaluation gate; `Judged`
adds the publication gate; `RepairDecision` and `ApplyAutoRepair` are the repair
policy; `Settled` promotes. `InferRunStatus` and `NextCurrentStage` are what the
run says of itself. A result is a record of the few facts these functions read: the
status, how much of the artifact contract is met, whether the errors are
recoverable, and the readiness, decision, target and publication outcome that
its documents carry. `Outcomes[s]` is every such record for a stage.

**WorkflowLoop.** `ClaimNextTask`, `ResumeInProgressTask` and `ApplyResult` are one
turn of the loop. The state file is the variables `status` to `summaryOf`; it
survives `Crash` and `CrashAfterPublication` (the commit is made, the file is not
written). `published` is git. `verdict` is a history variable: what the last
result of an evaluation said.

**PlatformRun.** `row`, `ledger`, `repairs` and `runStatus` are the tables; one
database transaction is one action. `worker` holds for each process its phase,
the attempt it set out on, the snapshot it materialized (`base`) and its
execution-state file (`file`). The tables know a worker by its id only (`IdOf`): the
auto-runner makes one up, a command has it from its caller, who may give two commands the
same, as the guides do (`docs/usage-guide.md:224-285`). So `Holds`, which is what start,
heartbeat, materialization and persist ask of the row, compares ids and asks whether the
lease has lapsed, not whose lease it is. `LeaseNextTask`, `StartTask`, `MaterializeClaim`,
`Execute` and `PersistResult` are the way of a task, and `RunLeasedTask` is a command that is run for
a task leased under its id, whether or not another process is at work on it. `StartRejected`
(the auto-runner leaves the task alone, a command goes on and is stopped by the materialization),
`MaterializeFails`, `PersistFails`, `ExecutionThrows`, `WriteStopped`,
`HeartbeatRejected` and `HeartbeatErrors` are the code's early returns, catches
and aborts. `Heartbeat` writes the status of the row to its attempt. `SharesFile` are the workers
that write one execution-state file: those at work on a task without an `--output-base` (`OwnBase`) of
their own. `PersistResult` writes every row whose status differs between `base` and
`file`, as the code does, and rolls back whole if a repair attempt's number is
taken. Time is abstracted to `live`: `LeaseLapses` is the passing of a lease's time
to live, possible for a late or dead worker; that a renewal puts it off is the absence of that step.

**ControlPlane.** The steps of `PlatformRun` and those of an operator, who shares no lock
with the workers: `RetryTask`, `ResumeFromTargetStage`, `RerouteToStage`, `CancelRoute`,
`ForcePublish` and `ForcePublishFails`, each one transaction of
`platform-control-plane-action-service.ts`. What these act on, a worker leaves behind:
`Deliver` and `Persist` add to `Execute` and `PersistResult` the repair target of an
evaluation (`asked`) and the publication records (`records`), which travel with the
result (`carried`). Whether a forced publication succeeds is free. Approve, reject and
approve-publication cannot be reached: they ask for a record that is
`approval-required`, and the publication policy writes one only with auto-commit off,
where a worker does not call it and an operator calls it with auto-commit forced.

**TaskLease.** The abstract promise: a log of attempts, the current lease of each task
and what each worker believes it holds. `Grant` opens a new attempt, `Join` takes up a lease
that one's id has, `Write` succeeds only for who goes by the id of the current lease and
only on its attempt, `Expire` frees tasks and closes their attempts for good, `GiveUp` is a worker
that achieves nothing. A lease is thus fenced against other ids, not against other processes of the same. `LeasesAreFenced`
says that `PlatformRun` implements it with the mapping `AttemptLog` (the ledger), `Holder` (the
lease columns of the row) and `Given` (the attempt a working process set out on).

**OperatorConsole.** Operators over the state of `ControlPlane`: `AttentionRequired`
as the read models compute it, the offers of the action bar (`Bars`) and of the
task list (`ListOffers`), and `Works`, whether the control plane accepts an offered
action. Where the page takes the latest of several rows by its time stamp, it is any of them.

**TaskPlanning.** One step plans: `selectRoutes` by requirement, changed files or all, the
filter, `Needs` (the dependencies inferred from services), `RiskOf` and the review
policy. Then routes are accepted one by one (`AcceptRoute`), which is all the planner's
dependencies know of a run; `Waiting` is what a route still waits for. Keyword matching is a score per route,
free in the request; the location of a service is the set of files that match it.

**ServiceOrchestration, ArtifactStore, TaskExecution.** `runDeterministicTaskAsync`: `phase`
is where it is, `step` and `pos` where the orchestration or the teardown of services is. Each
`await` is a step boundary, and between any two `GuardFires` (the deadline or the worker's
abort) and `ProcessDies` may happen. `WaitThrows`, `CatchAbort`, `CatchOther`, `Finally` and
`Report` follow the exceptions: which are caught where, and what is lost. `StartServiceProcess`
puts a service among `running`, and only `Started`, after its health wait, among `managed`:
the gap between the two is where an abort leaves a service behind. `CheckUrlThrows` is a path that
makes no address: it is found so outside the `try` of its check, and the checks done so far are lost. The store registers
artifacts and flushes them in order; `UploadRefused` is an answer that is not ok and
`UploadBreaks` a rejected fetch.

**AdapterOutput, AdapterRun.** `AdapterRun` is `Attempts` runs of one task's adapter by workers
that follow each other on the same disk: preflight with its cache (`CachedReport`, `Tick`,
`AvailabilityChanges`; the option that skips it is left out), `Start`, the process's own `WritesDeliverable`, `WritesOutput` and
`Exits`, the timer and the abort (`TimesOut`, `AbortRun`), and `Closes`, which decides.
`AdapterOutput` is what `Closes` does with a report: `Normalized`, `Enriched` (deliverables
built or completed from it, the handoff of a collaboration read back from disk),
`ApplyRolePolicy`, `SchemaBackedArtifactsValid`. A report is a record of the facts these
functions read; a deliverable is who wrote it, whether its schema accepts it and
what it says. `before` and `written` are history: what lay there, and what the adapter wrote.

**RunSubmission.** Requests of four kinds (submit, init, register, edit), each a
sequence of statements with row locks; the worktree is made by git between two of them. A
statement waits for a lock (`WaitsFor`), succeeds, meets a taken key or fails; `RollsBack`,
crashes and an operator's removal of a left worktree (`RemoveWorktree`) are actions.

## 3. Runs

Ten runs pass and two check a sentence of the documentation that the code does not
keep. Deadlock is not checked: a run that is completed or given up, a task that is
executed, a plan that is accepted really stop.

Each property is also tested against a plausible mistake in the code (the operators
commented "Mutant of ..."): with it in place TLC finds the property violated.

| Run | Instance | Properties | Shows |
|---|---|---|---|
| `WL_route` | one route, every reported status, one automatic repair, evaluator reroutes, a crash, fair | `TypeOK` `OneActiveStagePerRoute` `CollaborationAfterDefect` `CompletedRunIsAccepted` `ClaimsWithinBudget` `LoopStops` | one stage at a time, the defect path before collaboration, completed means accepted, every claim is paid for by a repair or an evaluation, the loop comes to rest |
| `WL_two` | two routes, the second consuming the first, with different policies | `DependenciesStayAccepted` `AcceptedRouteIsFinal` | routes do not disturb each other; what others built on is not reopened |
| `PR_identity` | one route about to be evaluated, the auto-runner and two commands with one id and one state file, trouble in the evaluation, one retry | `TypeOK` `RetriesAreExpiries` `ResultsCloseOwnAttempt` `LeasesAreFenced` | every expiry is paid for once; only who goes by the id of a lease writes to its attempt, and who shares its id with nobody closes only its own |
| `PR_repair` | one route from its start, the auto-runner and a command, failing tasks, a repair, trouble in implementation, an operator who pauses and resumes | `OneOpenStagePerRoute` `ClosedRunIsQuiet` | late results and repairs never open two stages of a route; a closed run has no work |
| `PR_parallel` | two independent routes about to be evaluated, two workers, trouble in both, one retry for the first, fair | `RowMatchesLedger` `HeldTaskIsReleased` | one worker's snapshot leaves the other's rows alone; a held task is released while its run goes on |
| `CP_operator` | one route about to be evaluated, the auto-runner, an operator who pauses and acts twice | `AcceptedRouteHasNoTarget` `StalledRunCanBeMoved` `StalledRunAsksForAttention` `BlockedTaskHasAWayOn` `CancelIsNotUndone` | what he does under a working worker holds, and a run at rest is shown to him with something that works |
| `TE_run` | an api that needs a db, declared in five ways, commands, browser checks, a deadline, an abort, uploads that fail | `CompletedMeansVerified` `StartedServicesAreStopped` `EvidenceIsTold` `ExecutionEnds` | completed means verified; only an abort leaves a service behind; the catalog tells what was uploaded |
| `AR_run` | two attempts of one task of any stage | `StoppedNeverCompletes` `CompletedKeepsRole` `NoStaleDeliverable` `VerdictIsTold` `StartsAreProbed` `AdapterRunEnds` | timer, abort and exit race safely; roles are kept; what is handed over is the attempt's own |
| `RS_run` | any three of six requests on one repository and project, two run ids with one worktree | `RunIsWhole` `RunOwnsItsWorktree` `AcceptedRunIsThere` `TransactionsEnd` | a submission is there whole or not at all, wherever it fails; transactions end |
| `PL_plan` | three routes over three services, a family of acyclic topologies, requests of every kind | `SomeRouteCanStart` `ChangeReachesItsRoutes` | a plan can be worked through, a change reaches its routes |
| `PR_v_promotion` | two upstream routes and one that waits for both | `PromotionIsNotLost` | violated, see below |
| `PL_v_cycle` | the repository's own topology | `SomeRouteCanStart` | violated, see below |

### Bounds

- *Routes.* A route always has its seven stages, so one goes through every operator of
  `TaskRouting`; two show what one does to another, three a promotion that waits for two.
- *Workers.* The auto-runner and a worker command differ in how they fail, and suffice for
  a holder and a successor; a third makes two commands that share an id beside the auto-runner (`SharedId` in
  `PR_identity`). `Rerun` are the commands run for tasks leased already. `Troubled` names the tasks whose worker
  may crash, throw or be late: the scheduler treats all stages alike, so one in the middle of a route shows it,
  or the last where two routes or three workers are needed. In `PR_parallel` both routes are in trouble at once, and the
  evaluations end blocked: rows and attempts tell no final status from another. With the three ways of an evaluation that
  reports completed both properties hold too, in 100,160 states and three times the time.
- *Repairs and crashes.* `RepairTarget` bounds the stages repairs ask for; `MaxAutoRepair` is
  the review policy's own. `MaxCrashes` bounds crashes of the loop, and of the server in `RS_run`.
  Attempts on the platform need no bound: retries and repairs are bounded by the code.
- *Operator.* `MaxActions` and `RerouteStage`: two actions, since one takes a route back or
  cancels it and a second meets what the first left; a reroute to another stage than the
  evaluation asked for. `Pausing` keeps him out of the runs that are not about him.
- *Execution.* Two services, since start order, teardown order and the loss of what was
  started before need one that depends on another; at most two commands and two browser
  checks; `MaxUploadFaults` is one, as every fault ends or marks the upload it hits.
- *Adapter.* Two attempts, since files are left by an earlier to a later one or overwritten by an
  overlapping one; the age of the cached probe goes up to `TTL` + 1 with `TTL` = 1 tick. Each kind of activity is
  reported alone, as no policy looks at two together. One stage reports through a file.
- *Submission.* `MaxRequests` is three, so that a third meets what two have left; one crash and one clean-up.
- *Planning.* Three routes, three services and their locations are the repository's own
  `.spec2flow`; the topologies are every acyclic one of `MCTaskPlanning`'s family.

`PR_identity`, `PR_parallel`, `CP_operator` and `PR_v_promotion` start from a run under way (`UnderWay` in
`MCPlatformRun`): every earlier stage completed at its first attempt and defect feedback
skipped, which is how an untroubled run gets there.

### Disagreements between code and documentation

`findings` in `PROJECT.json` quotes the sentence and the line for the two that are run:

- `PR_v_promotion`: two routes that finish at once leave their dependent pending, as each
  worker promotes on its own snapshot.
- `PL_v_cycle`: with the repository's own topology two routes wait for each other's evaluation.

Others were met while modelling and proving, have their place in the models, and have no run of their own. The first six
are counterexamples TLC gives within seconds when the formula named is checked on the instance of a passing run; they
are why the properties and the theorems of section 4 say and assume what they do.

- A worker is fenced by its id, not by its lease. A command whose lease lapsed, and whose task was recovered and leased again
  under the same `--worker-id`, goes on, renews the lease of its successor and closes its attempt
  (`platform/platform-worker-service.ts:251`, `platform/platform-scheduler-service.ts:675`), though it "stops work when lease
  ownership is lost" (`docs/usage-guide.md:321`): `ResultsCloseOwnAttempt` without `IdIsOwn(w) =>`, on `PR_identity`.
- Without `--output-base` the workers of a task write one file (`platform/platform-worker-service.ts:234`), the new one
  after an expiry and the late one too, and the guides name none (`docs/usage-guide.md:273-278`,
  `docs/ops-startup-guide.md:240-244`). The attempt is closed with the worker's own result and the row takes what is in the file:
  that a persist leaves both with one status fails on `PR_identity`.
- The sweep looks at running runs only (`platform/platform-auto-runner-service.ts:349`). Where a run is blocked by
  one task while another is held by a dead worker, the other stays held, and "a crashed adapter process can never permanently block
  a run" (`docs/ops-startup-guide.md:221`) is not so: `HeldTaskIsReleased` without `runStatus # "running"`, on `PR_parallel`.
- Two workers whose last tasks overlap both infer from their own file that the run goes on. All tasks are then
  completed, the run stays `running`, and nothing infers its status again
  (`platform/platform-worker-service.ts:943`; `docs/architecture.md:427`): that a run with all tasks through is completed fails
  on `PR_parallel` with completed results. `PlatformRunProofs` proves it of one worker, as a part of `WayInv`.
- A persist also writes back the attempt counters of its snapshot. A second worker, given a retried evaluation while
  the requeued execution is at work, sets that of defect feedback back to 0; the next lease inserts
  attempt 1 again, which the unique key refuses, as often as it is tried
  (`platform/platform-worker-service.ts:650`; `docs/ops-startup-guide.md:222`): that `AttemptIsFree` of every ready task fails
  on `CP_operator` with `TwoWorkers`, `FailOrPass`, `RepairOnce` and one operator action.
- A forced publication completes the collaboration, and only a worker promotes. The evaluation stays pending in a
  run with nothing ready and nothing the operator may do
  (`platform/platform-control-plane-action-service.ts:1306`; `docs/usage-guide.md:353`): `StalledRunCanBeMoved` on
  `CP_operator` with `HumanApproval <- Always`, where the collaboration blocks, and three actions.
- A failed automated execution leaves defect feedback pending, since promotion never passes a
  failed dependency (`docs/playbooks/defect-feedback.md:10`).
- With several routes the first implementation summary is published for all
  (`docs/usage-guide.md:352`).
- A second repair of one stage has the number of the first, and the persist of its result
  fails (`docs/usage-guide.md:345`; `RepairIsTaken`, `PersistFails`).
- A route rerouted past the stage a worker still executes (`RearmFrom`) meets that worker's result: a
  stage it routes to is left skipped or waiting, and nothing promotes it
  (`platform/platform-control-plane-action-service.ts:1511`).
- An aborted orchestration leaves services running under the policy `always`
  (`docs/usage-guide.md:92`); `StartedServicesAreStopped` says that nothing but an abort does.
- A submission without an adapter profile replaces the one an operator has set
  (`docs/agent-orchestration-platform-design.md:69`).
- A stuck repair hides a blocked evaluation from the page (`docs/ui/operator-console.md:268`); `BlockedTaskHasAWayOn`
  leaves that case out.

### Fairness

- *Loop.* One `while` in one process, and the adapter runner kills an adapter at its timeout,
  so a turn always ends: weak fairness of claim, resume and apply together.
- *Platform.* A live worker goes on (`WorkerStep`), the auto-runner polls on a timer
  (`LeaseNextTask`, `StopDraining`, `SweepLeases`), and time passes for a lease that no process of
  its id is left to renew (`Abandoned`). Nothing is assumed of crashes, late workers, the operator, worker
  commands being started, or the expire command being run.
- *Execution.* The executor goes on (`Executor`): a probe answers or times out, and a service is
  stopped by its command or by SIGTERM and then SIGKILL. The guard's timer fires if it is armed.
  A verification command may run for ever (`CommandCloses` is not among the fair steps). A health check that is
  a command is run synchronously, and that it ends is assumed.
- *Adapter.* The timer fires, and a process that was sent SIGTERM exits. The code sends it
  once and has nothing stronger; with one that ignores it `AdapterRunEnds` does not hold.
- *Submission.* The next statement of a transaction is executed unless another transaction
  holds its key: PostgreSQL's row locks.

## 4. Proofs

The theorems hold for every value of the constants that the named assumptions allow, and are checked by
TLAPS without an unproved step. The properties they state were checked with TLC first.

**WorkflowLoopProofs**, for any routes, dependencies and policies: `LoopTypeCorrect`;
`OneStageAtATime` and `DefectBeforeCollaboration`, assuming `ResultStatus \subseteq FinalStatus`:
adapters report completed, failed, blocked or skipped. The schema of an adapter run admits any
task status, and a result that says "ready" does break the property, hence the assumption.

The property is not inductive: a second stage opens if a later stage is already
waiting to be promoted. The invariant `LoopInv` adds the shape of a route
(`RouteInv` in `TaskRoutingProofs`): when a stage is open every later stage of the route
waits; if the first waits all wait; an open collaboration has its defect path
through; nothing is left that promotion would promote. `SettledShape`, the
main lemma, says that applying any result to a claimed task of such a
route gives such a route again. Its proof goes by the stage of the task: delivery
stages through `ApplyRouteOutcome`, defect feedback through the repair decision,
collaboration and evaluation through their gates, and then promotion. It opens at
most one stage because each dependency chain has one first waiting stage. Other
routes are disturbed only by promotion of their first stage.

On the shape of a route rest what a run says of itself and what routes owe each other:
`CompletionMeansAcceptance`, `RoutesRestOnAcceptedRoutes`, `AcceptedRoutesStay` (an action
property) and `ClaimsArePaidFor`. `AcceptInv` adds that a route whose collaboration is through
is handed over to its evaluation (`HandedOver`), that a completed evaluation is one that
accepted, and that the routes a started route consumes are closed. Then no later result can
reopen them: `AcceptedUnchanged` and `ElsewhereUnchanged` follow every write of
`applyTaskResult` and find it behind the first open stage of its own route. The first, second and
fourth assume `ResultStatus \subseteq ExecutedStatus`: the code's runners report completed, failed or
blocked. With "skipped", which the schema of an adapter's output admits too, an
evaluation ends its route without a verdict. `BudgetInv` counts, beside the claims made, the one claim that each
task still to be done is good for (`Owed`) and the evaluation at work (`UnderEvaluation`), which can send its
route round again: together they stay within what repairs, evaluations and crashes have paid for (`RouteBudget`).

**PlatformRunProofs**, for any workers, routes, retries and faults, and whoever shares an id or a file:
`PlatformTypeCorrect`; `ResultsCloseTheirAttempt`, that an attempt is closed by a worker of the id on the row, and by the
one that set out on that very attempt if it shares its id with nobody. The code compares ids only. The invariant `OwnerLease`
says what that is enough for: while the id of a working worker, and of nobody else, is on its row, the row's lease is the attempt it
set out on, because a worker leases one task at a time and expiry clears the id. With two workers of one id
it is not so, and neither is the conclusion (section 3).
`RetriesCountExpiries` needs that the lease of a row points to an attempt not expired.

`LeasesAreImplemented`, `Spec => LeasesAreFenced`, is the refinement of `TaskLease`. Initial
states map to initial states, and each step to one of `Grant`, `Join`, `Write`, `Expire`, `GiveUp` or a
stutter. The invariant `FenceInv` says that a worker set out on an attempt of its task, that a row points
to an attempt exactly if it names a holder, and that the attempt is not expired. The steps that need it are
starting, renewing and persisting, where the mapped state shows that the attempt written is the current one, and
expiry, where it shows that every freed lease was held. No id is assumed to be a worker's own, and the refinement promises
the less for it: `Write` is open to every worker of the id.

What the snapshots do to the rows is the harder part: a worker writes back every row that differs
between its snapshot and its file, and the rows have moved on since. Three theorems say that this is safe,
and when:

| Theorem | Hypotheses |
|---|---|
| `RowsMatchTheLedger`, `OneStageAtATimeOnThePlatform`, `ClosedRunsAreQuiet` | `FilesAreOwn`, `IdsAreOwn`, `OneUpstream`, `ResultStatus \subseteq FinalStatus` |

`FilesAreOwn`: at most one worker is without an output base of its own. What the auto-runner claims and
a command without `--output-base` share the state file of the task, and persist each other's results. `IdsAreOwn`: no two
workers go by one id, without which a late one persists the snapshot of its own time over the rows of its successor's.
Whoever runs the commands by hand has to see to both: the guides do not. `OneUpstream`: a route waits for one other at most. `PR_v_promotion`
shows what two do: each worker's snapshot misses the other's evaluation and the promotion is lost, so the
rows are no longer a run in shape. `FinalStatus`: as in the loop. `PR_repair` and `PR_parallel` meet all four, and
`PR_identity` checks what is left without the first two.

The invariant is `PlatInv`. The rows, with what is leased seen as in progress (`RowsOf`), are a run in the shape
the loop's proofs use (`RunInv`), and agree with the ledger. The snapshot of a worker is such a run too. While the worker
holds its task, the snapshot is up to date where its result can reach (`UpToDate`): its
route, and the first stages of the routes that wait for its evaluation or, for the environment task, of all. Its file is the snapshot or
what one result makes of it (`Made`), or asks for a repair that is on record and so cannot be
persisted (`Taken`). Two tasks at work reach nothing in common (`ReachesApart`), and no transaction of another worker,
of the sweep or of an operator who pauses disturbs what a holder can reach (`Undisturbed`). Persisting then comes to applying the
result to the rows as they are (`Merged`, `MergedIsSettled`), and `SettledShape` does the rest. A run is
inferred completed or failed from one file only: that no other worker is at work then follows as the
snapshot, too, shows the other's task open (`Alone`). TLC checked `PlatInv` in the states of `PR_repair` and of `PR_parallel`.

That a row which waits does so on something not through (`RowsWait`) is proved twice: `PromotionsAreNotLost`, from
`PlatInv` with any number of workers (`PR_v_promotion` breaks its `OneUpstream`), and `OneWorkerPromotes`, with one
worker and any dependencies, from `WayInv` (below).

*The operator.* His actions write rows under a working worker, so a run under him has no shape for
`PlatInv` to rest on: after a reroute two stages of one route may be at work. What remains is proved from
invariants that say less about the rows, and relate them to what a worker can still write:

| Theorem | Hypotheses | Invariant | Fails without them |
|---|---|---|---|
| `OperatedTypeCorrect`, `OperatedResultsCloseTheirAttempt`, `BlockedTasksHaveAWayOn` | none | `OwnerLease` | |
| `AcceptedRoutesHaveNoTarget` | `FilesAreOwn` | `ReceiptInv`, `AskInv` | |
| `StalledRunsCanBeMoved`, `StalledRunsAskForAttention` | `OneWorker`, `FinalStatus`, `RankedDeps`, no `Strands` | `WayInv` | forced publication; `PL_v_cycle` |
| `CancellationsAreNotUndone` (action property) | `OneWorker`, `FinalStatus`, no `Strands` | `WayInv`, `CancelInv` | |

`OneWorker`: one worker, the auto-runner with no worker command beside it.
`RankedDeps`: the dependencies between routes go in no circle. `Strands` is what the operator must not have
done: a forced publication of a collaboration not completed, after which nothing
promotes, and a route taken back past the stage at work. It is an action, and the theorems are about
behaviours without it (`[][~Strands]_allVars`), in which he does everything else at any time, under
a working worker too.

- `ReceiptInv` and `AskInv` follow one result. A worker completes no task but the one it was given, and carries
  a target only with an evaluation that it blocked; so what an evaluation asked for is erased with
  the result that accepts.
- `WayInv` has three parts. `RowsWait`, as above. `Fresh`: what is through in the rows is so
  in the snapshot of the holder, and what waits in the rows is later on another's route if the snapshot
  has it begun. `Promoted`: its file has nothing left to promote. Then persisting leaves nothing that could be
  promoted, and a run at rest that is not completed has a task that is blocked, failed or cancelled: if
  all were through or waiting, of those that wait the one of least rank would wait for nothing (`WaitingHasAnEnd`).
- `CancelInv`: only a route that is begun asks for a repair and can be cancelled (`AskedIsBegun`), and a result reaches
  its own route and first stages that are not begun (`Kept`). A cancelled row is thus out of its reach, unless the
  snapshot has it blocked, as it was when it was cancelled.

TLC checked `WayInv` and `CancelInv` without `Strands` in the states of `CP_operator` with failing results, of one route
with a repair from the automated execution on, and of two routes in a chain.

**TaskPlanningProofs**: `PlanTypeCorrect`; `RankedPlansNeverDeadlock`, that if the needs of
every topology can be ranked no plan, however selected and filtered, gets stuck: the route
of least rank among those not accepted waits for none. `PL_v_cycle` shows the assumption
is needed. `ChangesReachTheirRoutes` for any topology that has a route.
`RiskIsHighestOfRulebook`: of the rules that match, the fold over the rulebook keeps the highest, for a rulebook of any length.

**TaskExecutionProofs**, for any services with any dependencies, any number of commands and
checks, and any faults: `CompletedIsVerifiedAlways`, `NoServiceIsLeftRunning` and
`EvidenceIsToldAlways`. `ExecutionInv` is a conjunction of named parts, one for each thing the
exceptions can lose: an abort that was seen stays seen (`AbortInv`); each
service passed in the order is up or left a gap (`ServicesInv`); where the `try` block is left, all is
done or there is a reason (`VerdictInv`); a process that runs is managed, or is the one just being
waited for, or was lost to an abort (`ManagedInv`); the teardown has reported what it could
not stop (`StoppedInv`); what is marked uploaded is what was sent (`EvidenceInv`, `UploadInv`). TLC
checks `ExecutionInv` in the states of `TE_run` with two upload faults. That the startup
order lists every selected service once (`OrderedServices`) is proved of the closure under `DependsOn` and the filters
that compute it.

**RecursionProofs** is what these two need of recursion: that a function defined by recursion on a
natural number, and with it a fold of the community modules, exists and satisfies its
equations (`RecursionExists`, `FoldExists`), by choosing the least length at which it would not.
The library states it with operator parameters that no installed prover can instantiate; here
base and step are functions. For the same reason `GetStartupOrder` and `RegisterArtifacts`
are written with folds (`Filtered`, `SetAll`).

**RunSubmissionProofs**: `SubmissionTypeCorrect`; `RunsOwnTheirWorktrees`, whose invariant says that a
submission being written still has the worktree it made (an operator removes those of ended
ones only) and that a transaction writes no run but the one it was given; `RunsAreWhole` and
`AcceptedRunsAreThere`, whose invariant `RowsInv` says that what a transaction will write has
been written or is still to be, that it writes nothing else, and that the key of a run is held
by one transaction and by no committed run. The row lock (`WaitsFor`) and the primary key
(`KeyTaken`) are where the last comes from.

**AdapterRunProofs**, for any number of attempts, any reports and any lifetime of the cache:
`AdapterRunTypeCorrect`, `StoppedRunsNeverComplete`, `CompletedRunsKeepTheirRole`,
`DeliverablesAreNew`, `VerdictsAreTold` (where evaluations report on stdout) and
`CopilotStartsAreProbed`. `Enriches` is what every step of the enrichment has in common:
it writes in the name of its attempt, lists no more than it wrote (but for a handoff), and
never makes a failed run complete. `AttemptInv` says that an attempt that is not over has no outcome, that
an abort is heard while the process lives, and that what an attempt wrote is overwritten by no
attempt that was over before it started.

**TaskRoutingProofs** has the lemmas that the loop's and the platform's theorems share: the types
of every operator, the least task of a set, stage order, the shape of a route, what a result can reach.

Every invariant and action property that the passing runs check is stated by one of these theorems, under the
hypotheses given. Model-checked only: everything temporal under fairness (`LoopStops`,
`HeldTaskIsReleased`, `ExecutionEnds`, `AdapterRunEnds`, `TransactionsEnd`), which TLAPS cannot do. Not proved, and not
expected to hold: what the tables above assume away, several workers under an operator foremost.

## 5. Not modelled

- Artifacts on the platform, notes (but for repair numbers), events, timestamps.
- The keyword matching by which an evaluation's findings name a stage: any
  target of `RepairTarget` or none; the keyword scores of the planner: any ranking.
- git and `gh`: publishing succeeds, blocks or does not apply, freely.
- Reading a materialized file is one step with writing it; the persist transaction is
  one step although it takes no row lock; one clock for all.
- Worker ids that no process of the model goes by: the auto-runner makes up an id for each task it leases
  (`platform/platform-auto-runner-service.ts:314`), and is one worker with one id here; a command's id is its
  caller's, and `IdOf` lets any of them be shared.
- A task that is started or renewed from the command line without a worker at work on it
  (`cli/start-platform-task-command.ts`, `cli/heartbeat-platform-task-command.ts`).
- The option that skips the preflight of the Copilot CLI (`adapters/copilot-preflight.ts:345`).
- The operator's approve and reject actions (unreachable, see `ControlPlane`), and which of
  several rerouted routes an action takes: any, where the code takes the latest.
- The synchronous and the simulated adapter runner; the probes of a browser.
- The components marked `not_modelled` in `PROJECT.json`: HTTP, document checks, argument
  parsing and the pages of the web client.

Hazards that no property covers, beside those listed in `PROJECT.json`:

- A task promoted by two overlapping snapshots may have been leased in between and is set back
  to ready under its holder (`platform/platform-worker-service.ts:559`): it takes four routes.
- A needs-repair evaluation stays blocked after its repair (`runtime/task-result-service.ts:378`),
  and an accepted one whose policy forbids auto-commit ends without a publication (424): the
  documents do not say what should happen.
- The persist reads the row without a lock and writes it later (`platform/platform-worker-service.ts:891`),
  and compares an expiry with its own clock (262).
- Pause and resume may lose an update of the run's metadata
  (`platform/platform-control-plane-action-service.ts:1385`); the progress inferred after an action
  does not know leased tasks (513).
- The second publication record of a route has the key of the first and is not inserted
  (`platform/platform-worker-service.ts:568`).
- Two loop processes on one state file claim the same task (`runtime/task-claim-service.ts:153`).
- A service exits before it is signalled (`runtime/service-orchestration-service.ts:638`); a
  health command hangs the process (251); a command that cannot be spawned throws past the
  policy `on-failure` (`runtime/deterministic-execution-service.ts:743`).
- The evidence index leaves out some stored artifacts (`runtime/execution-evidence-index-service.ts:61`).
- An output file of an earlier attempt is read when the new one writes none
  (`adapters/adapter-normalizer.ts:448`), and output the schema refuses ends the worker's process (428).
- Deliverables are written before the role policy is judged: a failed evaluation leaves an accepted
  summary that is persisted (`platform/platform-worker-service.ts:916`). It takes `AdapterRun`
  and `PlatformRun` together.
- An edit of a profile writes back columns it has read without a lock
  (`platform/platform-project-service.ts:225`).
- Routes a filter leaves out disappear from the dependencies of the others
  (`planning/task-graph-service.ts:722`).
- The session panel shows one run and acts on another, and remembered approvals fire on whatever
  matches (`packages/web/src/hooks/use-control-plane-projects-page.ts:755`, 685).

## 6. Plan

All components with state of their own are modelled. What is left, in order:

1. The persist transaction split at its unlocked read, on one route.
2. `ControlPlane` with two routes, cut to the stages that matter, and what holds of several workers under
   an operator who acts on routes at rest only.
3. The composition of `AdapterRun` with the persisting of `PlatformRun`: one task, its
   evaluation columns and its deliverables.
