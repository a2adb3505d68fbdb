--------------------------- MODULE AdapterOutput ---------------------------
(***************************************************************************)
(* What the controller makes of the report of an adapter: its normalized   *)
(* activity, the deliverables of the stage it writes or rewrites, and the  *)
(* role policy that may fail the run (adapters/adapter-runner.ts and       *)
(* adapters/adapter-normalizer.ts).                                        *)
(*                                                                         *)
(* A deliverable is a file of the route's artifacts directory: who wrote it *)
(* last, whether its schema accepts it, and the verdict of a handoff or an *)
(* evaluation.  The rest of what it says is left out, and so are the other *)
(* names an adapter may give it.                                           *)
(***************************************************************************)
EXTENDS FiniteSets, Naturals

CONSTANT
    VerifyCommands     \* does the project allowlist commands to verify with

ASSUME OutputAssumption == VerifyCommands \in BOOLEAN

\* Of an evaluation: accepted, or anything else.  Of a handoff: ready, or blocked.
Verdict == {"go", "stop", "unsaid"}

NoFile == [by |-> 0, valid |-> FALSE, says |-> "unsaid"]

\* The activity an adapter may report, sorted by what the policies tell apart.
Command == {"verify-command", "artifact-command", "mutation-command", "other-command"}
Activity == Command \cup {"edited-file", "edited-artifact", "edited-outside", "collaboration-action"}

-----------------------------------------------------------------------------
(* Roles.                                                                   *)

AdapterStage ==
    {"environment-preparation", "requirements-analysis", "code-implementation", "test-design",
     "automated-execution", "defect-feedback", "collaboration", "evaluation"}

Role(stage) ==
    [policy |->
        CASE stage = "environment-preparation" -> "bootstrap-only"
          [] stage = "automated-execution" -> "verification-only"
          [] stage \in {"code-implementation", "test-design"} -> "safe-repo-commands"
          [] stage = "collaboration" -> "collaboration-only"
          [] OTHER -> "none",
     edits |-> stage \in {"code-implementation", "test-design"},
     runs |-> stage \in {"environment-preparation", "automated-execution",
                         "code-implementation", "test-design"},
     collaborates |-> stage = "collaboration"]

\* The deliverables of a stage that have a schema.
Deliverables(stage) ==
    CASE stage = "environment-preparation" -> {"environment-preparation-report"}
      [] stage = "requirements-analysis" -> {"requirements-summary"}
      [] stage = "code-implementation" -> {"implementation-summary"}
      [] stage = "test-design" -> {"test-plan", "test-cases"}
      [] stage = "automated-execution" -> {"execution-report"}
      [] stage = "defect-feedback" -> {"defect-summary"}
      [] stage = "collaboration" -> {"collaboration-handoff"}
      [] stage = "evaluation" -> {"evaluation-summary"}

\* The deliverable that gives the stage's verdict.
Judging(stage) == Deliverables(stage) \cap {"collaboration-handoff", "evaluation-summary"}

CapabilityViolations(stage, acts) ==
    (IF Role(stage).runs THEN {} ELSE acts \cap Command)
        \cup (IF Role(stage).edits THEN {} ELSE acts \cap {"edited-file"})
        \cup (IF Role(stage).collaborates THEN {} ELSE acts \cap {"collaboration-action"})

CollaborationOnlyViolations(acts) == acts \cap (Command \cup {"edited-file"})

\* Without an allowlist no command passes, not even one that writes artifacts.
AllowlistViolations(acts) ==
    IF VerifyCommands THEN acts \cap {"mutation-command", "other-command"}
                      ELSE acts \cap Command

\* Mutant of CommandPolicyViolations: safe-repo-commands falls through to the
\* default.
CommandPolicyViolationsButSafe(stage, acts) ==
    CASE Role(stage).policy = "none" -> acts \cap Command
      [] Role(stage).policy = "collaboration-only" -> CollaborationOnlyViolations(acts)
      [] Role(stage).policy \in {"bootstrap-only", "verification-only"} -> AllowlistViolations(acts)
      [] OTHER -> {}

CommandPolicyViolations(stage, acts) ==
    CASE Role(stage).policy = "none" -> acts \cap Command
      [] Role(stage).policy = "collaboration-only" -> CollaborationOnlyViolations(acts)
      [] Role(stage).policy \in {"bootstrap-only", "verification-only"} -> AllowlistViolations(acts)
      [] Role(stage).policy = "safe-repo-commands" -> acts \cap {"mutation-command"}

RolePolicyViolations(stage, acts) ==
    CapabilityViolations(stage, acts) \cup CommandPolicyViolations(stage, acts)

-----------------------------------------------------------------------------
(* Reports.                                                                 *)

\* listed: the deliverables among its artifacts; told: the verdict of the
\* deliverable in its model output, "nothing" without one; errors: none, only
\* blocked artifact writes, or others.
Report ==
    [status : {"completed", "blocked", "failed"}, acts : SUBSET Activity,
     listed : SUBSET UNION {Deliverables(s) : s \in AdapterStage},
     told : Verdict \cup {"nothing"}, errors : {"none", "write-blocked", "other"}]

\* An edit outside the repository, or of an artifact, is no repository edit.
NormalizeActivity(acts) == acts \ {"edited-artifact", "edited-outside"}

Normalized(report) == [report EXCEPT !.acts = NormalizeActivity(@)]

TimeoutReport ==
    [status |-> "failed", acts |-> {}, listed |-> {}, told |-> "nothing", errors |-> "other"]

-----------------------------------------------------------------------------
(* Deliverables.  run is the normalized report of attempt a, files the      *)
(* deliverables on disk; both are returned.                                 *)

Exists(file) == file # NoFile

\* A deliverable that is listed and that its schema accepts is left alone.
Keeps(run, files, d) == d \in run.listed /\ files[d].valid

\* The builders fill in from the claim what the source lacks: the schema accepts
\* what they make.
Judged(a, verdict) == [by |-> a, valid |-> TRUE, says |-> verdict]
Built(a) == Judged(a, "unsaid")

Writes(run, files, d, file) ==
    [run |-> [run EXCEPT !.listed = @ \cup {d}], files |-> [files EXCEPT ![d] = file]]

Unchanged(run, files) == [run |-> run, files |-> files]

HasModelOutput(run) == run.told # "nothing"

Said(run) == IF HasModelOutput(run) THEN run.told ELSE "unsaid"

EnrichRequirements(run, files, a) ==
    IF Keeps(run, files, "requirements-summary") \/ ~HasModelOutput(run)
    THEN Unchanged(run, files)
    ELSE Writes(run, files, "requirements-summary", Built(a))

\* The edits of the run name the changed files when the model output does not.
NamesChangedFiles(run) == HasModelOutput(run) \/ "edited-file" \in run.acts

EnrichImplementation(run, files, a) ==
    IF Keeps(run, files, "implementation-summary") \/ ~NamesChangedFiles(run)
    THEN Unchanged(run, files)
    ELSE Writes(run, files, "implementation-summary", Built(a))

\* Test cases are rebuilt from the cases of listed test cases, a plan from them or from
\* the focus of a listed plan or of the model output: each has one if it is there.
Has(run, files, d) == d \in run.listed /\ Exists(files[d])

HasCases(run, files) == Has(run, files, "test-cases")

HasPlanCases(run, files) ==
    HasCases(run, files) \/ Has(run, files, "test-plan") \/ HasModelOutput(run)

EnrichTestDesign(run, files, a) ==
    LET plan == IF Keeps(run, files, "test-plan") \/ ~HasPlanCases(run, files)
                THEN Unchanged(run, files)
                ELSE Writes(run, files, "test-plan", Built(a))
    IN  IF Keeps(run, files, "test-cases") \/ ~HasCases(run, files)
        THEN plan
        ELSE Writes(plan.run, plan.files, "test-cases", Built(a))

EnrichDefect(run, files, a) ==
    IF Keeps(run, files, "defect-summary")
    THEN Unchanged(run, files)
    ELSE Writes(run, files, "defect-summary", Built(a))

\* What does not say that it is blocked is ready, whatever became of the run.
InferReadiness(said) == IF said = "stop" THEN "stop" ELSE "go"

BuiltHandoff(a, source) == Judged(a, InferReadiness(source))

\* A handoff is looked for where it belongs whether or not the adapter lists it,
\* and blocked writes count as recovered once there is one.
Recovered(run) == run.errors = "write-blocked"

Recover(run) ==
    [run EXCEPT !.errors = "none", !.status = IF @ = "blocked" THEN "completed" ELSE @]

EnrichCollaboration(run, files, a) ==
    LET found == files["collaboration-handoff"]
        source == IF Exists(found) THEN found.says ELSE Said(run)
        handed == IF found.valid
                  THEN [run |-> [run EXCEPT !.listed = @ \cup {"collaboration-handoff"}], files |-> files]
                  ELSE Writes(run, files, "collaboration-handoff", BuiltHandoff(a, source))
    IN  IF Recovered(run) THEN [handed EXCEPT !.run = Recover(@)] ELSE handed

\* Mutant of InferDecision: only the status of the run is looked at.
DecisionOfStatus(said, status) == IF status = "completed" THEN "go" ELSE "stop"

\* A completed run that says nothing else has accepted.
InferDecision(said, status) ==
    IF said # "unsaid" THEN said ELSE IF status = "completed" THEN "go" ELSE "stop"

BuiltEvaluation(a, run) == Judged(a, InferDecision(Said(run), run.status))

\* Mutant of EnrichEvaluation: any valid summary on disk is taken, as the
\* collaboration stage does with handoffs.
EnrichEvaluationFromDisk(run, files, a) ==
    IF files["evaluation-summary"].valid
    THEN [run |-> [run EXCEPT !.listed = @ \cup {"evaluation-summary"}], files |-> files]
    ELSE Writes(run, files, "evaluation-summary", BuiltEvaluation(a, run))

EnrichEvaluation(run, files, a) ==
    IF Keeps(run, files, "evaluation-summary")
    THEN Unchanged(run, files)
    ELSE Writes(run, files, "evaluation-summary", BuiltEvaluation(a, run))

Enriched(stage, run, files, a) ==
    CASE stage = "requirements-analysis" -> EnrichRequirements(run, files, a)
      [] stage = "code-implementation" -> EnrichImplementation(run, files, a)
      [] stage = "test-design" -> EnrichTestDesign(run, files, a)
      [] stage = "defect-feedback" -> EnrichDefect(run, files, a)
      [] stage = "collaboration" -> EnrichCollaboration(run, files, a)
      [] stage = "evaluation" -> EnrichEvaluation(run, files, a)
      [] OTHER -> Unchanged(run, files)

\* The policy comes last, after the files are written.
ApplyRolePolicy(stage, run) ==
    IF RolePolicyViolations(stage, run.acts) = {} THEN run
    ELSE [run EXCEPT !.status = "failed", !.errors = "other"]

\* Every listed deliverable must be there and valid, whatever the status.
SchemaBackedArtifactsValid(run, files) == \A d \in run.listed : files[d].valid
=============================================================================
