----------------------------- MODULE AdapterRun -----------------------------
(***************************************************************************)
(* The attempts of one task, each an adapter process that is started,      *)
(* limited by a timeout, stopped when its worker is, and whose report is   *)
(* turned into a task result: executeTaskRunAsync of                       *)
(* adapters/adapter-runner.ts.                                             *)
(*                                                                         *)
(* All attempts share the artifacts directory of the task, and the output  *)
(* file when the runtime reports through one.  A worker that lost its      *)
(* lease may still be at it when the next attempt starts, so attempts      *)
(* overlap.  From the end of the process on the code is synchronous, and   *)
(* one step here.                                                          *)
(***************************************************************************)
EXTENDS AdapterOutput

CONSTANTS
    Attempts,          \* how many attempts are made
    Stages,            \* the stages the task may be of
    Reports,           \* for each stage, the reports its adapter may give
    FileStages,        \* the stages whose runtime reports through a file, not stdout
    Timed,             \* does the runtime set timeoutMs
    CopilotStages,     \* the stages whose runtime is the Copilot CLI, probed before use
    TTL                \* how old a cached probe may be, in ticks

ASSUME RunAssumption ==
    /\ Attempts \in Nat \ {0} /\ TTL \in Nat
    /\ Stages \subseteq AdapterStage /\ Reports \in [Stages -> SUBSET Report]
    /\ FileStages \subseteq Stages /\ Timed \in BOOLEAN /\ CopilotStages \subseteq Stages

VARIABLES
    stage,             \* the stage of the task
    phase,             \* of each attempt: waiting, running, closing or done
    aborted,           \* its abort signal fired
    heard,             \* what made it send SIGTERM: its signal, its timer
    output,            \* the report in the output file, and whose it is
    files,             \* the deliverables of the task on disk
    outcome,           \* what became of each attempt
    available,         \* would a probe of the Copilot CLI pass
    cache,             \* the age of the cached probe, or None
    passed,            \* the age of the last probe that passed, or None
    written,           \* history: the deliverables each adapter has written
    before             \* history: the attempts that were over when each started

attemptVars == <<phase, aborted, heard, outcome>>
diskVars == <<output, files>>
probeVars == <<available, cache, passed>>
historyVars == <<written, before>>
vars == <<stage, attemptVars, diskVars, probeVars, historyVars>>

Attempt == 1..Attempts
None == TTL + 2
Age == 0..(TTL + 1)
NoOutput == [by |-> 0]

\* How an attempt ends: no end yet, an error thrown to the worker, the end of
\* the worker's process, or a result applied with its final status.
NoOutcome == [kind |-> "none", status |-> "none", acts |-> {}, wrote |-> {},
              told |-> "nothing", says |-> {}]
Ends(kind) == [NoOutcome EXCEPT !.kind = kind]

\* A file is by the attempt that wrote it last, or by none.
File == [by : 0..Attempts, valid : BOOLEAN, says : Verdict]
OwnReport == {r \in Report : r.listed \subseteq Deliverables(stage)}
Outcome ==
    [kind : {"none", "threw", "exited", "applied"},
     status : {"none", "completed", "blocked", "failed"}, acts : SUBSET Activity,
     wrote : SUBSET (0..Attempts), told : Verdict \cup {"nothing"}, says : SUBSET Verdict]

\* The types of the attempts, of what they share on disk, and of the probe.
AdapterRunTypeOK ==
    /\ stage \in Stages
    /\ phase \in [Attempt -> {"waiting", "running", "closing", "done"}]
    /\ aborted \in [Attempt -> BOOLEAN]
    /\ heard \in [Attempt -> SUBSET {"abort", "timeout"}]
    /\ output = NoOutput \/ output \in [by : Attempt, report : OwnReport]
    /\ files \in [Deliverables(stage) -> File]
    /\ outcome \in [Attempt -> Outcome]
    /\ available \in BOOLEAN /\ cache \in Age \cup {None} /\ passed \in Age \cup {None}
    /\ written \in [Attempt -> SUBSET Deliverables(stage)]
    /\ before \in [Attempt -> SUBSET Attempt]

AdapterRunInit ==
    /\ stage \in Stages
    /\ phase = [a \in Attempt |-> "waiting"]
    /\ aborted = [a \in Attempt |-> FALSE]
    /\ heard = [a \in Attempt |-> {}]
    /\ output = NoOutput
    /\ files = [d \in Deliverables(stage) |-> NoFile]
    /\ outcome = [a \in Attempt |-> NoOutcome]
    /\ available = TRUE /\ cache = None /\ passed = None
    /\ written = [a \in Attempt |-> {}]
    /\ before = [a \in Attempt |-> {}]

-----------------------------------------------------------------------------
(* The probe of the Copilot CLI (adapters/copilot-preflight.ts).            *)

Preflight == stage \in CopilotStages

\* Mutant of CachedReport: the age of the cached report is not looked at.
CachedReportForever == cache # None
CachedReport == cache <= TTL

\* A report that passed is cached, one that failed is not.
WriteCachedReport == cache' = IF available THEN 0 ELSE cache

EnsureAdapterPreflight ==
    IF ~Preflight \/ CachedReport
    THEN UNCHANGED <<cache, passed>>
    ELSE /\ WriteCachedReport
         /\ passed' = IF available THEN 0 ELSE passed

PreflightPasses == ~Preflight \/ CachedReport \/ available

Tick ==
    /\ Preflight
    /\ cache' = IF cache \in 0..TTL THEN cache + 1 ELSE cache
    /\ passed' = IF passed \in 0..TTL THEN passed + 1 ELSE passed
    /\ UNCHANGED <<stage, attemptVars, diskVars, available, historyVars>>

AvailabilityChanges ==
    /\ Preflight
    /\ available' = ~available
    /\ UNCHANGED <<stage, attemptVars, diskVars, cache, passed, historyVars>>

-----------------------------------------------------------------------------
(* The adapter process.                                                     *)

MayStart(a) == phase[a] = "waiting" /\ \A b \in 1..(a - 1) : phase[b] # "waiting"

\* A failed probe ends the controller; a signal that has fired already, or a
\* command that cannot be spawned, ends the attempt.
Start(a) ==
    /\ MayStart(a)
    /\ EnsureAdapterPreflight
    /\ \/ /\ PreflightPasses /\ ~aborted[a]
          /\ phase' = [phase EXCEPT ![a] = "running"]
          /\ UNCHANGED outcome
       \/ /\ phase' = [phase EXCEPT ![a] = "done"]
          /\ outcome' = [outcome EXCEPT ![a] = Ends(IF PreflightPasses THEN "threw" ELSE "exited")]
    /\ before' = [before EXCEPT ![a] = {b \in Attempt : phase[b] = "done"}]
    /\ UNCHANGED <<stage, aborted, heard, diskVars, available, written>>

\* Mutant of AbortRun: an abort is not noted when the timer fired before it.
AbortRunUnlessLate(a) ==
    /\ phase[a] # "done" /\ ~aborted[a]
    /\ aborted' = [aborted EXCEPT ![a] = TRUE]
    /\ heard' = IF phase[a] \in {"running", "closing"} /\ heard[a] = {}
                THEN [heard EXCEPT ![a] = @ \cup {"abort"}] ELSE heard
    /\ UNCHANGED <<stage, phase, outcome, diskVars, probeVars, historyVars>>

\* The listener is there from the spawn to the close.
AbortRun(a) ==
    /\ phase[a] # "done" /\ ~aborted[a]
    /\ aborted' = [aborted EXCEPT ![a] = TRUE]
    /\ heard' = IF phase[a] \in {"running", "closing"}
                THEN [heard EXCEPT ![a] = @ \cup {"abort"}] ELSE heard
    /\ UNCHANGED <<stage, phase, outcome, diskVars, probeVars, historyVars>>

\* Mutant of TimesOut: the timer only fires while the process writes no output.
TimesOutIfQuiet(a) ==
    /\ Timed /\ phase[a] \in {"running", "closing"} /\ "timeout" \notin heard[a]
    /\ output.by # a /\ \A d \in DOMAIN files : files[d].by # a
    /\ heard' = [heard EXCEPT ![a] = @ \cup {"timeout"}]
    /\ UNCHANGED <<stage, phase, aborted, outcome, diskVars, probeVars, historyVars>>

TimesOut(a) ==
    /\ Timed /\ phase[a] \in {"running", "closing"} /\ "timeout" \notin heard[a]
    /\ heard' = [heard EXCEPT ![a] = @ \cup {"timeout"}]
    /\ UNCHANGED <<stage, phase, aborted, outcome, diskVars, probeVars, historyVars>>

\* An adapter lists deliverables it wrote itself.
Told(a) == {r \in Reports[stage] : r.listed \subseteq written[a]}

\* What the process does to the disk while it lives, SIGTERM or not.
WritesDeliverable(a) ==
    /\ phase[a] = "running"
    /\ \E d \in Deliverables(stage), ok \in BOOLEAN, verdict \in Verdict :
          /\ ok /\ d \in Judging(stage) => verdict # "unsaid"
          /\ d \notin Judging(stage) => verdict = "unsaid"
          /\ files' = [files EXCEPT ![d] = [by |-> a, valid |-> ok, says |-> verdict]]
          /\ written' = [written EXCEPT ![a] = @ \cup {d}]
    /\ UNCHANGED <<stage, attemptVars, output, probeVars, before>>

WritesOutput(a) ==
    /\ phase[a] = "running" /\ stage \in FileStages
    /\ \E r \in Told(a) : output' = [by |-> a, report |-> r]
    /\ UNCHANGED <<stage, attemptVars, files, probeVars, historyVars>>

\* It exits; its pipes are still to be closed.
Exits(a) ==
    /\ phase[a] = "running"
    /\ phase' = [phase EXCEPT ![a] = "closing"]
    /\ UNCHANGED <<stage, aborted, heard, outcome, diskVars, probeVars, historyVars>>

-----------------------------------------------------------------------------
(* The end of the run.                                                      *)

\* Normalized, enriched, judged and applied: the deliverables it writes are on
\* disk even when the application throws.
Applied(a, report) ==
    LET done == Enriched(stage, Normalized(report), files, a)
        run == ApplyRolePolicy(stage, done.run)
    IN  /\ files' = done.files
        /\ outcome' = [outcome EXCEPT ![a] =
              IF SchemaBackedArtifactsValid(run, done.files)
              THEN [kind |-> "applied", status |-> run.status, acts |-> run.acts,
                    wrote |-> {done.files[d].by : d \in run.listed}, told |-> report.told,
                    says |-> {done.files[d].says : d \in Judging(stage)}]
              ELSE Ends("threw")]

EndsWithout(a, kind) ==
    /\ outcome' = [outcome EXCEPT ![a] = Ends(kind)]
    /\ UNCHANGED files

\* A report nobody can read throws, one the schema refuses exits.
ReadStdout(a) ==
    \/ \E r \in Told(a) : Applied(a, r)
    \/ EndsWithout(a, "threw")
    \/ EndsWithout(a, "exited")

ReadOutputFile(a) ==
    \/ output.by = 0 /\ EndsWithout(a, "exited")
    \/ output.by # 0 /\ Applied(a, output.report)

ExitedCleanly(a) == IF stage \in FileStages THEN ReadOutputFile(a) ELSE ReadStdout(a)

Settles(a) == phase[a] = "closing" /\ phase' = [phase EXCEPT ![a] = "done"]

Closes(a) ==
    /\ Settles(a)
    /\ \/ "abort" \in heard[a] /\ EndsWithout(a, "threw")
       \/ heard[a] = {"timeout"} /\ Applied(a, TimeoutReport)
       \/ heard[a] = {} /\ ExitedCleanly(a)
       \/ heard[a] = {} /\ EndsWithout(a, "threw")
    /\ UNCHANGED <<stage, aborted, heard, output, probeVars, historyVars>>

-----------------------------------------------------------------------------

AdapterRunNext ==
    \/ \E a \in Attempt :
          \/ Start(a) \/ AbortRun(a) \/ TimesOut(a)
          \/ WritesDeliverable(a) \/ WritesOutput(a) \/ Exits(a) \/ Closes(a)
    \/ Tick \/ AvailabilityChanges

\* An adapter dies of SIGTERM: the code sends it once and has nothing stronger.
AdapterRunFairness ==
    \A a \in Attempt :
        /\ WF_vars(TimesOut(a))
        /\ WF_vars(heard[a] # {} /\ Exits(a))
        /\ WF_phase(Settles(a))

AdapterRunSpec == AdapterRunInit /\ [][AdapterRunNext]_vars /\ AdapterRunFairness

-----------------------------------------------------------------------------
(* Properties.                                                              *)

\* An attempt that ran out of time never completes its task, and nothing is
\* applied for one whose worker was stopped, whichever came first and whatever
\* the process wrote (the close handler of runExternalAdapterAsync).
StoppedNeverCompletes ==
    \A a \in Attempt :
        /\ heard[a] # {} => outcome[a].status # "completed"
        /\ aborted[a] => outcome[a].kind # "applied"

\* A task completes only if what its adapter reports was its role's to do,
\* even when the controller turned blocked into completed (collectRolePolicyViolations).
CompletedKeepsRole ==
    \A a \in Attempt : outcome[a].status = "completed" =>
        /\ stage \notin {"code-implementation", "test-design"} => "edited-file" \notin outcome[a].acts
        /\ stage \in {"requirements-analysis", "defect-feedback", "collaboration", "evaluation"} =>
              outcome[a].acts \cap Command = {}
        /\ stage # "collaboration" => "collaboration-action" \notin outcome[a].acts
        /\ stage \notin {"requirements-analysis", "defect-feedback", "evaluation"} =>
              "mutation-command" \notin outcome[a].acts

\* A result lists no deliverable left by an attempt that was over before its own
\* started, though one lies in the artifacts directory; but a collaboration may
\* hand over what an earlier attempt left (enrichCollaborationRunOutput).
NoStaleDeliverable ==
    stage \notin FileStages \cup {"collaboration"} =>
        \A a \in Attempt : outcome[a].wrote \cap before[a] = {}

\* An evaluation that its adapter's output rejects is accepted only when the adapter
\* itself wrote a summary that says otherwise (inferEvaluationDecision).  A handoff has no
\* such protection: any file that lies there, even one without a readiness, comes first.
VerdictIsTold ==
    stage = "evaluation" =>
        \A a \in Attempt :
            outcome[a].status = "completed" /\ outcome[a].says = {"go"} /\ outcome[a].told = "stop"
                => "evaluation-summary" \in written[a]

\* An adapter of the Copilot CLI is started only when a probe has passed within
\* the lifetime of the cache (ensureAdapterPreflight; with the option skip-preflight,
\* which is left out here, nothing is probed: copilot-preflight.ts:345).
StartsAreProbed ==
    [][\A a \in Attempt : Preflight /\ phase[a] = "waiting" /\ phase'[a] = "running" => passed' <= TTL]_vars

\* With a timeout every attempt that starts an adapter comes to an end.
AdapterRunEnds ==
    \A a \in Attempt : Timed /\ phase[a] = "running" ~> phase[a] = "done"
=============================================================================
