--------------------------- MODULE TaskExecution ----------------------------
(***************************************************************************)
(* A claimed task executed without a provider                              *)
(* (runDeterministicTaskAsync of runtime/deterministic-execution-          *)
(* service.ts): services, verification commands, browser checks            *)
(* (runtime/browser-automation-service.ts), then teardown, reports and     *)
(* uploads, under a deadline and the abort signal of the worker.           *)
(*                                                                         *)
(* A verification command may never exit on its own.  Abstracted: the text *)
(* of reports and logs; a browser check is one step with every outcome.    *)
(***************************************************************************)
EXTENDS ServiceOrchestration, ArtifactStore

VARIABLES
    phase,      \* where runDeterministicTaskAsync is
    commands,   \* commandResults, by status
    checked,    \* the browser checks made, by status
    required,   \* requiredFailureCount
    evidence,   \* serviceArtifacts and browserArtifacts
    thrown,     \* an error other than an AbortError is on its way out
    index,      \* what the evidence index lists
    catalog,    \* what the artifact catalog says of each artifact
    result      \* status of the adapter run, "none" before it is there

executionVars == <<phase, commands, checked, required, evidence, thrown, index, catalog, result>>
taskVars == <<task, storeMode>>
vars == <<taskVars, guardVars, serviceVars, storeVars, executionVars>>

\* What a browser check asks for, and what a claim does.
BrowserCheck == [target : BOOLEAN, required : BOOLEAN, capture : BOOLEAN, mustCapture : BOOLEAN]

Claim ==
    [stage : {"environment-preparation", "automated-execution", "other"},
     entries : SUBSET Service, services : [Service -> Declaration],
     policy : {"always", "on-failure", "never"}, commands : Nat, browser : Seq(BrowserCheck)]

ExecutionInit ==
    /\ task \in Claim
    /\ ServiceInit /\ StoreInit
    /\ phase = "begin"
    /\ commands = <<>> /\ checked = <<>> /\ required = 0
    /\ evidence = {} /\ thrown = FALSE
    /\ index = {} /\ catalog = <<>>
    /\ result = "none"

Automated == task.stage = "automated-execution"
GuardArmed == phase \in {"orchestrate", "commands", "running", "browser"}

-----------------------------------------------------------------------------
(* Before the guard is armed.                                               *)

Unsupported == task.stage = "other"
NoCommands == task.commands = 0

Begin ==
    /\ phase = "begin"
    /\ IF Unsupported \/ NoCommands
       THEN phase' = "done" /\ result' = "blocked"
       ELSE /\ phase' = IF Automated /\ task.entries # {} THEN "orchestrate" ELSE "commands"
            /\ UNCHANGED result
    /\ UNCHANGED <<taskVars, guardVars, serviceVars, storeVars, commands, checked, required,
                   evidence, thrown, index, catalog>>

\* The deadline and the parent signal, while the guard listens.
GuardFires ==
    /\ GuardArmed
    /\ \/ GuardTimeout
       \/ OnParentAbort
    /\ UNCHANGED <<taskVars, serviceVars, storeVars, executionVars>>

\* A process dies, any time before it is stopped.
ProcessDies ==
    /\ GuardArmed
    /\ \E s \in Service : ServiceDies(s)
    /\ UNCHANGED <<taskVars, guardVars, storeVars, executionVars>>

-----------------------------------------------------------------------------
(* The body of the try block.                                               *)

ServiceArtifacts ==
    (IF after' /\ ~after THEN <<<<"startup", Current>>>> ELSE <<>>)
        \o (IF pos' # pos THEN <<<<"health", Current>>>> ELSE <<>>)

OrchestrateServices ==
    /\ phase = "orchestrate"
    /\ Orchestrate
    /\ RegisterArtifacts(ServiceArtifacts)
    /\ evidence' = evidence \cup Range(ServiceArtifacts)
    /\ UNCHANGED <<taskVars, guardVars, flushing, sent, faults, phase, commands, checked, required,
                   thrown, index, catalog, result>>

ServicesUp ==
    /\ phase = "orchestrate"
    /\ Orchestrated
    /\ phase' = "commands"
    /\ UNCHANGED <<taskVars, guardVars, serviceVars, storeVars, commands, checked, required,
                   evidence, thrown, index, catalog, result>>

\* The catch block: an AbortError becomes a blocked command, others go on.
CatchAbort ==
    /\ commands' = Append(commands, "blocked")
    /\ RegisterArtifacts(<<<<"log", Len(commands) + 1>>>>)
    /\ phase' = "finally"
    /\ UNCHANGED thrown

CatchOther ==
    /\ thrown' = TRUE
    /\ phase' = "finally"
    /\ UNCHANGED <<commands, stored, upload>>

\* The wait rejects with the reason of the signal: the timeout is an AbortError,
\* what the worker aborts with is not.
OrchestrationThrows ==
    /\ phase = "orchestrate" /\ step = "thrown"
    /\ IF signal = "timeout" THEN CatchAbort ELSE CatchOther
    /\ evidence' = {}
    /\ UNCHANGED <<taskVars, guardVars, serviceVars, flushing, sent, faults, checked, required,
                   index, catalog, result>>

NextCommand ==
    /\ phase = "commands" /\ Len(commands) < task.commands
    /\ IF Aborted THEN CatchAbort
       ELSE phase' = "running" /\ UNCHANGED <<commands, stored, upload, thrown>>
    /\ UNCHANGED <<taskVars, guardVars, serviceVars, flushing, sent, faults, checked, required,
                   evidence, index, catalog, result>>

CommandCloses(status) ==
    /\ phase = "running" /\ ~Aborted
    /\ commands' = Append(commands, status)
    /\ RegisterArtifacts(<<<<"log", Len(commands) + 1>>>>)
    /\ phase' = "commands"
    /\ UNCHANGED <<taskVars, guardVars, serviceVars, flushing, sent, faults, checked, required,
                   evidence, thrown, index, catalog, result>>

\* Mutant of CommandAborted: only an abort of the worker reaches the command.
CommandStoppedByWorker ==
    /\ phase = "running" /\ signal = "stopped"
    /\ CatchAbort
    /\ UNCHANGED <<taskVars, guardVars, serviceVars, flushing, sent, faults, checked, required,
                   evidence, index, catalog, result>>

\* onAbort settles the promise at once, whatever the reason.
CommandAborted ==
    /\ phase = "running" /\ Aborted
    /\ CatchAbort
    /\ UNCHANGED <<taskVars, guardVars, serviceVars, flushing, sent, faults, checked, required,
                   evidence, index, catalog, result>>

\* The shell cannot be spawned.
CommandErrs ==
    /\ phase = "running" /\ ~Aborted
    /\ CatchOther
    /\ UNCHANGED <<taskVars, guardVars, serviceVars, flushing, sent, faults, checked, required,
                   evidence, index, catalog, result>>

CommandsRun ==
    /\ phase = "commands" /\ Len(commands) = task.commands
    /\ phase' = IF Automated /\ task.browser # <<>> THEN "browser" ELSE "finally"
    /\ UNCHANGED <<taskVars, guardVars, serviceVars, storeVars, commands, checked, required,
                   evidence, thrown, index, catalog, result>>

-----------------------------------------------------------------------------
(* runBrowserAutomation; it never looks at the signal.                      *)

\* What check b came to: its status, the gaps and the artifacts it leaves.  A
\* page that does not load leaves a report in the store that evidence misses.
CheckOutcomes(b, n) ==
    IF ~b.target
    THEN {[status |-> "skipped", gaps |-> {"browser-check-target-missing"},
           kept |-> <<>>, known |-> {}]}
    ELSE LET page == <<"page", n>>
             shot == <<"capture", n>>
             degraded == IF b.capture /\ b.mustCapture THEN {"failed"} ELSE {"passed", "failed"}
         IN  {[status |-> "failed", gaps |-> {"browser-check-request-failed"},
               kept |-> <<page>>, known |-> {}]}
             \cup {[status |-> s, gaps |-> {}, kept |-> IF b.capture THEN <<page, shot>> ELSE <<page>>,
                    known |-> IF b.capture THEN {page, shot} ELSE {page}] : s \in {"passed", "failed"}}
             \cup {[status |-> s, gaps |-> {"browser-automation-unavailable"},
                    kept |-> <<page>>, known |-> {page}] : s \in IF b.capture THEN degraded ELSE {}}

RequiredFailure(b, status) == b.required /\ status # "passed"

RunBrowserCheck ==
    /\ phase = "browser" /\ Len(checked) < Len(task.browser)
    /\ LET n == Len(checked) + 1
           b == task.browser[n]
       IN  \E o \in CheckOutcomes(b, n) :
              /\ checked' = Append(checked, o.status)
              /\ gaps' = gaps \cup {<<c, n>> : c \in o.gaps}
              /\ required' = required + (IF RequiredFailure(b, o.status) THEN 1 ELSE 0)
              /\ RegisterArtifacts(o.kept)
              /\ evidence' = evidence \cup o.known
    /\ UNCHANGED <<taskVars, guardVars, step, pos, after, running, summary, managed, flushing,
                   sent, faults, phase, commands, thrown, index, catalog, result>>

\* A path that makes no address is found so before the check has begun, past what would
\* catch it: the checks done so far are lost with it.
CheckUrlThrows ==
    /\ phase = "browser" /\ Len(checked) < Len(task.browser)
    /\ task.browser[Len(checked) + 1].target
    /\ CatchOther
    /\ UNCHANGED <<taskVars, guardVars, serviceVars, flushing, sent, faults, checked, required,
                   evidence, index, catalog, result>>

BrowserChecked ==
    /\ phase = "browser" /\ Len(checked) = Len(task.browser)
    /\ phase' = "finally"
    /\ IF required > 0
       THEN /\ commands' = Append(commands, "failed")
            /\ RegisterArtifacts(<<<<"log", Len(commands) + 1>>>>)
       ELSE UNCHANGED <<commands, stored, upload>>
    /\ UNCHANGED <<taskVars, guardVars, serviceVars, flushing, sent, faults, checked, required,
                   evidence, thrown, index, catalog, result>>

-----------------------------------------------------------------------------
(* The finally block: the guard is completed, then the teardown.            *)

NotPassed == \E i \in DOMAIN commands : commands[i] # "passed"

Finally ==
    /\ phase = "finally"
    /\ IF Automated /\ managed # <<>> /\ ShouldTeardown(NotPassed)
       THEN phase' = "teardown" /\ step' = "stopping" /\ pos' = Len(managed)
       ELSE phase' = "report" /\ UNCHANGED <<step, pos>>
    /\ UNCHANGED <<taskVars, guardVars, after, running, summary, managed, gaps, storeVars,
                   commands, checked, required, evidence, thrown, index, catalog, result>>

\* The log of a stop command is stored and not returned.
TearDown ==
    /\ phase = "teardown"
    /\ TearDownService
    /\ RegisterArtifacts((IF task.services[ToStop].stop THEN <<<<"teardown-log", ToStop>>>> ELSE <<>>)
                            \o <<<<"teardown", ToStop>>>>)
    /\ evidence' = evidence \cup {<<"teardown", ToStop>>}
    /\ UNCHANGED <<taskVars, guardVars, flushing, sent, faults, phase, commands, checked, required,
                   thrown, index, catalog, result>>

TornDown ==
    /\ phase = "teardown" /\ pos = 0
    /\ phase' = "report"
    /\ UNCHANGED <<taskVars, guardVars, serviceVars, storeVars, commands, checked, required,
                   evidence, thrown, index, catalog, result>>

-----------------------------------------------------------------------------
(* The result.                                                              *)

Interrupted == timedOut \/ Aborted

\* Mutant of ResultStatus: an interruption that no command noticed is forgotten.
ResultStatusOfCommands ==
    IF \E i \in DOMAIN commands : commands[i] = "failed" THEN "failed"
    ELSE IF gaps # {} THEN "blocked"
    ELSE "completed"

ResultStatus ==
    IF \E i \in DOMAIN commands : commands[i] = "failed" THEN "failed"
    ELSE IF Interrupted \/ gaps # {} THEN "blocked"
    ELSE "completed"

PreparationStatus == IF NotPassed THEN "blocked" ELSE "completed"

Indexed ==
    evidence \cup {<<"log", i>> : i \in DOMAIN commands}
        \cup {<<x, 0>> : x \in {"lifecycle", "report", "index"}}

\* The lifecycle report is written before a pending error leaves the finally
\* block; reports, evidence index and first flush follow it.
Report ==
    /\ phase = "report"
    /\ IF ~Automated
       THEN /\ IF thrown THEN phase' = "failed" /\ UNCHANGED result
               ELSE phase' = "done" /\ result' = PreparationStatus
            /\ UNCHANGED <<storeVars, index>>
       ELSE IF thrown
       THEN /\ RegisterArtifacts(<<<<"lifecycle", 0>>>>)
            /\ phase' = "failed"
            /\ UNCHANGED <<flushing, sent, faults, index, result>>
       ELSE /\ RegisterArtifacts(<<<<"lifecycle", 0>>, <<"report", 0>>, <<"index", 0>>>>)
            /\ BeginFlush(stored')
            /\ index' = Indexed
            /\ phase' = "flush"
            /\ UNCHANGED <<sent, faults, result>>
    /\ UNCHANGED <<taskVars, guardVars, serviceVars, commands, checked, required, evidence, thrown,
                   catalog>>

Flush ==
    /\ phase \in {"flush", "flush-catalog"}
    /\ FlushStep
    /\ UNCHANGED <<taskVars, guardVars, serviceVars, executionVars>>

\* Nothing catches a rejected fetch: the execution ends without a result.
FlushThrows ==
    /\ phase \in {"flush", "flush-catalog"}
    /\ UploadBreaks
    /\ phase' = "failed"
    /\ UNCHANGED <<taskVars, guardVars, serviceVars, commands, checked, required, evidence, thrown,
                   index, catalog, result>>

WriteCatalog ==
    /\ phase = "flush" /\ flushing = <<>>
    /\ catalog' = upload
    /\ RegisterArtifacts(<<<<"catalog", 0>>>>)
    /\ BeginFlush(<<<<"catalog", 0>>>>)
    /\ phase' = "flush-catalog"
    /\ UNCHANGED <<taskVars, guardVars, serviceVars, sent, faults, commands, checked, required,
                   evidence, thrown, index, result>>

Return ==
    /\ phase = "flush-catalog" /\ flushing = <<>>
    /\ result' = ResultStatus
    /\ phase' = "done"
    /\ UNCHANGED <<taskVars, guardVars, serviceVars, storeVars, commands, checked, required,
                   evidence, thrown, index, catalog>>

-----------------------------------------------------------------------------

\* What the executor does itself; a command that exits is not among it.
Executor ==
    \/ Begin \/ OrchestrateServices \/ ServicesUp \/ OrchestrationThrows
    \/ NextCommand \/ CommandAborted \/ CommandsRun
    \/ RunBrowserCheck \/ BrowserChecked
    \/ Finally \/ TearDown \/ TornDown
    \/ Report \/ Flush \/ WriteCatalog \/ Return

ExecutionNext ==
    \/ Executor
    \/ \E status \in {"passed", "failed"} : CommandCloses(status)
    \/ CommandErrs
    \/ CheckUrlThrows
    \/ GuardFires
    \/ ProcessDies
    \/ FlushThrows

ExecutionSpec == ExecutionInit /\ [][ExecutionNext]_vars

\* The executor goes on, and the timer of its deadline fires.
ExecutionFairness ==
    /\ WF_vars(Executor)
    /\ WF_vars(GuardArmed /\ GuardTimeout /\ UNCHANGED <<taskVars, serviceVars, storeVars, executionVars>>)

-----------------------------------------------------------------------------
(* Properties.                                                              *)

Ended == phase \in {"done", "failed"}

\* An execution that reports itself completed has run every command to success,
\* found every service it needs healthy, stopped what it stopped, failed no
\* required browser check and was not interrupted (the status of
\* runDeterministicTaskAsync, which the evaluation of the route relies on).
CompletedMeansVerified ==
    result = "completed" =>
        /\ Len(commands) = task.commands /\ ~NotPassed
        /\ Automated =>
            /\ \A s \in Selected : summary[s] \in {"ready", "started"}
            /\ \A n \in DOMAIN task.browser : RequiredFailure(task.browser[n], "failed") => checked[n] = "passed"
            /\ ~Interrupted
            /\ ~\E g \in gaps : g[1] = "service-teardown-failed"

\* Every service the execution started is stopped at the end, or reported as not
\* stoppable, when the policy is always, or on-failure and the result is not
\* completed (shouldTeardownManagedServices; a thrown error is no failure to it).
\* Only an abort leaves one behind, which was started and not yet managed.
StartedServicesAreStopped ==
    /\ Ended
    /\ \/ task.policy = "always"
       \/ task.policy = "on-failure" /\ result \in {"failed", "blocked"}
    => \A s \in running :
          s \in Range(managed) \/ ~Aborted => <<"service-teardown-failed", s>> \in gaps

\* What the evidence index lists has been stored, and the catalog tells of each
\* artifact whether the remote store has it.
EvidenceIsTold ==
    /\ phase = "done" => index \subseteq Range(stored)
    /\ catalog # <<>> => \A a \in DOMAIN catalog : catalog[a] = "uploaded" <=> a \in sent

\* An execution ends, although its commands may hang: the deadline of the
\* lifecycle guard stops them.
ExecutionEnds == <>Ended
=============================================================================
