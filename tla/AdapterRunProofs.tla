-------------------------- MODULE AdapterRunProofs --------------------------
(***************************************************************************)
(* Theorems about adapter runs, for any number of attempts, any reports    *)
(* and any lifetime of the cached probe.                                   *)
(***************************************************************************)
EXTENDS AdapterRun, TLAPS

-----------------------------------------------------------------------------
(* What the controller makes of a report.                                   *)

\* A step of the enrichment of attempt a: it lists more only of what it wrote, or,
\* of a collaboration, of what lay there; it writes as a, and never makes a
\* failed run complete.
Enriches(s, run, files1, a, e) ==
    /\ e.run \in Report /\ e.run.listed \subseteq Deliverables(s)
    /\ e.files \in [Deliverables(s) -> File]
    /\ e.run.acts = run.acts /\ e.run.told = run.told
    /\ run.status = "failed" => e.run.status = "failed"
    /\ \A d \in Deliverables(s) : e.files[d] = files1[d] \/ e.files[d].by = a
    /\ s # "collaboration" =>
         \A d \in e.run.listed : d \in run.listed \/ e.files[d].by = a

LEMMA EnrichesUnchanged ==
    ASSUME NEW s, NEW run \in Report, run.listed \subseteq Deliverables(s),
           NEW files1 \in [Deliverables(s) -> File], NEW a \in Attempt
    PROVE  Enriches(s, run, files1, a, Unchanged(run, files1))
BY DEF Enriches, Unchanged

LEMMA ListedIsReport ==
    ASSUME NEW s \in AdapterStage, NEW run \in Report, NEW d \in Deliverables(s)
    PROVE  LET r == [run EXCEPT !.listed = @ \cup {d}]
           IN  /\ r \in Report /\ r.listed = run.listed \cup {d}
               /\ r.acts = run.acts /\ r.told = run.told /\ r.status = run.status
               /\ r.errors = run.errors
BY DEF Report

LEMMA EnrichesWrites ==
    ASSUME NEW s \in AdapterStage, NEW run \in Report, run.listed \subseteq Deliverables(s),
           NEW files1 \in [Deliverables(s) -> File], NEW a \in Attempt,
           NEW d \in Deliverables(s), NEW file \in File, file.by = a
    PROVE  Enriches(s, run, files1, a, Writes(run, files1, d, file))
<1> DEFINE r == [run EXCEPT !.listed = @ \cup {d}]
           f == [files1 EXCEPT ![d] = file]
<1>1. /\ r \in Report /\ r.listed = run.listed \cup {d}
      /\ r.acts = run.acts /\ r.told = run.told /\ r.status = run.status
  BY ListedIsReport
<1>2. /\ f \in [Deliverables(s) -> File] /\ f[d].by = a
      /\ \A c \in Deliverables(s) : f[c] = files1[c] \/ f[c].by = a
  OBVIOUS
<1>3. Writes(run, files1, d, file).run = r /\ Writes(run, files1, d, file).files = f
  BY DEF Writes
<1> HIDE DEF r, f
<1> QED
  BY <1>1, <1>2, <1>3 DEF Enriches

LEMMA EnrichesTwice ==
    ASSUME NEW s, NEW run, NEW files1, NEW a, NEW e, NEW g,
           Enriches(s, run, files1, a, e), Enriches(s, e.run, e.files, a, g)
    PROVE  Enriches(s, run, files1, a, g)
BY DEF Enriches

LEMMA JudgedType ==
    ASSUME NEW a \in Attempt, NEW verdict \in Verdict
    PROVE  /\ Judged(a, verdict) \in File /\ Judged(a, verdict).by = a
           /\ Judged(a, verdict).says = verdict
BY RunAssumption DEF Judged, File, Attempt

LEMMA BuiltType ==
    ASSUME NEW a \in Attempt
    PROVE  Built(a) \in File /\ Built(a).by = a
BY JudgedType DEF Built, Verdict

LEMMA InferredVerdicts ==
    ASSUME NEW run \in Report, NEW said \in Verdict
    PROVE  /\ Said(run) \in Verdict
           /\ InferReadiness(said) \in Verdict
           /\ InferDecision(said, run.status) \in Verdict
BY DEF Report, Said, HasModelOutput, InferReadiness, InferDecision, Verdict

\* Blocked writes that are recovered: nothing but the status and the errors.
LEMMA RecoveredRun ==
    ASSUME NEW s, NEW run, NEW files1, NEW a, NEW r \in Report, NEW f,
           Enriches(s, run, files1, a, [run |-> r, files |-> f])
    PROVE  Enriches(s, run, files1, a, [run |-> Recover(r), files |-> f])
<1>1. /\ Recover(r) \in Report /\ Recover(r).listed = r.listed /\ Recover(r).acts = r.acts
      /\ Recover(r).told = r.told /\ (r.status = "failed" => Recover(r).status = "failed")
  BY DEF Report, Recover
<1> QED
  BY <1>1 DEF Enriches

LEMMA EnrichesCollaboration ==
    ASSUME NEW run \in Report, run.listed \subseteq Deliverables("collaboration"),
           NEW files1 \in [Deliverables("collaboration") -> File], NEW a \in Attempt
    PROVE  Enriches("collaboration", run, files1, a, EnrichCollaboration(run, files1, a))
<1> DEFINE s == "collaboration"
           d == "collaboration-handoff"
           found == files1[d]
           source == IF Exists(found) THEN found.says ELSE Said(run)
           listing == [run |-> [run EXCEPT !.listed = @ \cup {d}], files |-> files1]
           written1 == Writes(run, files1, d, BuiltHandoff(a, source))
           handed == IF found.valid THEN listing ELSE written1
<1>0. s \in AdapterStage /\ d \in Deliverables(s)
  BY DEF AdapterStage, Deliverables
<1>1. Enriches(s, run, files1, a, listing)
  <2> DEFINE r == [run EXCEPT !.listed = @ \cup {d}]
  <2>1. /\ r \in Report /\ r.listed = run.listed \cup {d}
        /\ r.acts = run.acts /\ r.told = run.told /\ r.status = run.status
    BY <1>0, ListedIsReport
  <2> HIDE DEF r
  <2> QED
    BY <1>0, <2>1 DEF Enriches, r
<1>2. Enriches(s, run, files1, a, written1)
  <2>1. source \in Verdict
    BY <1>0, InferredVerdicts DEF File
  <2>2. BuiltHandoff(a, source) \in File /\ BuiltHandoff(a, source).by = a
    BY <2>1, InferredVerdicts, JudgedType DEF BuiltHandoff
  <2> QED
    BY <1>0, <2>2, EnrichesWrites
<1>3. Enriches(s, run, files1, a, handed)
  BY <1>1, <1>2
<1>4. handed = [run |-> handed.run, files |-> handed.files]
  BY DEF Writes
<1>5. EnrichCollaboration(run, files1, a) =
        IF Recovered(run) THEN [handed EXCEPT !.run = Recover(@)] ELSE handed
  BY DEF EnrichCollaboration
<1> HIDE DEF handed
<1>6. handed.run \in Report
  BY <1>3 DEF Enriches
<1>7. [handed EXCEPT !.run = Recover(@)] = [run |-> Recover(handed.run), files |-> handed.files]
  BY <1>4
<1>8. Enriches(s, run, files1, a, [run |-> Recover(handed.run), files |-> handed.files])
  BY <1>3, <1>4, <1>6, RecoveredRun
<1> QED
  BY <1>3, <1>5, <1>7, <1>8

LEMMA EnrichesTestDesign ==
    ASSUME NEW run \in Report, run.listed \subseteq Deliverables("test-design"),
           NEW files1 \in [Deliverables("test-design") -> File], NEW a \in Attempt
    PROVE  Enriches("test-design", run, files1, a, EnrichTestDesign(run, files1, a))
<1> DEFINE s == "test-design"
           plan == IF Keeps(run, files1, "test-plan") \/ ~HasPlanCases(run, files1)
                   THEN Unchanged(run, files1)
                   ELSE Writes(run, files1, "test-plan", Built(a))
<1>0. s \in AdapterStage /\ {"test-plan", "test-cases"} \subseteq Deliverables(s)
  BY DEF AdapterStage, Deliverables
<1>1. Enriches(s, run, files1, a, plan)
  BY <1>0, EnrichesUnchanged, EnrichesWrites, BuiltType
<1>2. EnrichTestDesign(run, files1, a) =
        IF Keeps(run, files1, "test-cases") \/ ~HasCases(run, files1) THEN plan
        ELSE Writes(plan.run, plan.files, "test-cases", Built(a))
  BY DEF EnrichTestDesign
<1> HIDE DEF plan
<1>3. /\ plan.run \in Report /\ plan.run.listed \subseteq Deliverables(s)
      /\ plan.files \in [Deliverables(s) -> File]
  BY <1>1 DEF Enriches
<1>4. Enriches(s, plan.run, plan.files, a, Writes(plan.run, plan.files, "test-cases", Built(a)))
  BY <1>0, <1>3, EnrichesWrites, BuiltType
<1> QED
  BY <1>1, <1>2, <1>4, EnrichesTwice

LEMMA EnrichedEnriches ==
    ASSUME NEW s \in AdapterStage, NEW run \in Report, run.listed \subseteq Deliverables(s),
           NEW files1 \in [Deliverables(s) -> File], NEW a \in Attempt
    PROVE  Enriches(s, run, files1, a, Enriched(s, run, files1, a))
<1> DEFINE Goal(e) == Enriches(s, run, files1, a, e)
<1>0. /\ Goal(Unchanged(run, files1))
      /\ \A d \in Deliverables(s), file \in File :
            file.by = a => Goal(Writes(run, files1, d, file))
  BY EnrichesUnchanged, EnrichesWrites
<1> HIDE DEF Goal
<1>1. CASE s = "requirements-analysis"
  <2>1. "requirements-summary" \in Deliverables(s)
    BY <1>1 DEF Deliverables
  <2>2. Enriched(s, run, files1, a) = EnrichRequirements(run, files1, a)
    BY <1>1 DEF Enriched
  <2> QED
    BY <1>0, <2>1, <2>2, BuiltType DEF EnrichRequirements, Goal
<1>2. CASE s = "code-implementation"
  <2>1. "implementation-summary" \in Deliverables(s)
    BY <1>2 DEF Deliverables
  <2>2. Enriched(s, run, files1, a) = EnrichImplementation(run, files1, a)
    BY <1>2 DEF Enriched
  <2> QED
    BY <1>0, <2>1, <2>2, BuiltType DEF EnrichImplementation, Goal
<1>3. CASE s = "test-design"
  <2>1. Enriched(s, run, files1, a) = EnrichTestDesign(run, files1, a)
    BY <1>3 DEF Enriched
  <2> QED
    BY <1>3, <2>1, EnrichesTestDesign
<1>4. CASE s = "defect-feedback"
  <2>1. "defect-summary" \in Deliverables(s)
    BY <1>4 DEF Deliverables
  <2>2. Enriched(s, run, files1, a) = EnrichDefect(run, files1, a)
    BY <1>4 DEF Enriched
  <2> QED
    BY <1>0, <2>1, <2>2, BuiltType DEF EnrichDefect, Goal
<1>5. CASE s = "collaboration"
  <2>1. Enriched(s, run, files1, a) = EnrichCollaboration(run, files1, a)
    BY <1>5 DEF Enriched
  <2> QED
    BY <1>5, <2>1, EnrichesCollaboration
<1>6. CASE s = "evaluation"
  <2>1. "evaluation-summary" \in Deliverables(s)
    BY <1>6 DEF Deliverables
  <2>2. Enriched(s, run, files1, a) = EnrichEvaluation(run, files1, a)
    BY <1>6 DEF Enriched
  <2>3. BuiltEvaluation(a, run) \in File /\ BuiltEvaluation(a, run).by = a
    BY InferredVerdicts, JudgedType DEF BuiltEvaluation, Verdict
  <2> QED
    BY <1>0, <2>1, <2>2, <2>3 DEF EnrichEvaluation, Goal
<1>7. CASE s \in {"environment-preparation", "automated-execution"}
  <2>1. Enriched(s, run, files1, a) = Unchanged(run, files1)
    BY <1>7 DEF Enriched
  <2> QED
    BY <1>0, <2>1 DEF Goal
<1> QED
  BY <1>1, <1>2, <1>3, <1>4, <1>5, <1>6, <1>7 DEF AdapterStage

\* What the role policy lets through.
RoleKept(s, acts) ==
    /\ s \notin {"code-implementation", "test-design"} => "edited-file" \notin acts
    /\ s \in {"requirements-analysis", "defect-feedback", "collaboration", "evaluation"} =>
          acts \cap Command = {}
    /\ s # "collaboration" => "collaboration-action" \notin acts
    /\ s \notin {"requirements-analysis", "defect-feedback", "evaluation"} =>
          "mutation-command" \notin acts

LEMMA PolicyKeepsRole ==
    ASSUME NEW s \in AdapterStage, NEW acts \in SUBSET Activity, RolePolicyViolations(s, acts) = {}
    PROVE  RoleKept(s, acts)
<1>1. CapabilityViolations(s, acts) = {} /\ CommandPolicyViolations(s, acts) = {}
  BY DEF RolePolicyViolations
<1>2. /\ Role(s).edits = (s \in {"code-implementation", "test-design"})
      /\ Role(s).runs = (s \in {"environment-preparation", "automated-execution",
                                "code-implementation", "test-design"})
      /\ Role(s).collaborates = (s = "collaboration")
  BY DEF Role
<1>3. /\ s \in {"environment-preparation", "automated-execution"} =>
            Role(s).policy \in {"bootstrap-only", "verification-only"}
      /\ s \in {"code-implementation", "test-design"} => Role(s).policy = "safe-repo-commands"
  BY DEF Role, AdapterStage
<1>4. /\ Role(s).runs \/ acts \cap Command = {}
      /\ Role(s).edits \/ acts \cap {"edited-file"} = {}
      /\ Role(s).collaborates \/ acts \cap {"collaboration-action"} = {}
  BY <1>1, <1>2 DEF CapabilityViolations
<1>5. CASE s \in {"environment-preparation", "automated-execution"}
  <2>1. AllowlistViolations(acts) = {}
    BY <1>1, <1>3, <1>5 DEF CommandPolicyViolations
  <2> QED
    BY <1>2, <1>4, <1>5, <2>1 DEF AllowlistViolations, RoleKept, Command
<1>6. CASE s \in {"code-implementation", "test-design"}
  <2>1. acts \cap {"mutation-command"} = {}
    BY <1>1, <1>3, <1>6 DEF CommandPolicyViolations
  <2> QED
    BY <1>2, <1>4, <1>6, <2>1 DEF RoleKept
<1>7. CASE s \in {"requirements-analysis", "defect-feedback", "evaluation", "collaboration"}
  BY <1>2, <1>4, <1>7 DEF RoleKept, Command
<1> QED
  BY <1>5, <1>6, <1>7 DEF AdapterStage

LEMMA NormalizedType ==
    ASSUME NEW report \in Report
    PROVE  /\ Normalized(report) \in Report /\ Normalized(report).listed = report.listed
           /\ Normalized(report).told = report.told /\ Normalized(report).status = report.status
<1>1. report.acts \ {"edited-artifact", "edited-outside"} \in SUBSET Activity
  BY DEF Report
<1> QED
  BY <1>1 DEF Normalized, NormalizeActivity, Report

LEMMA PolicyType ==
    ASSUME NEW s \in AdapterStage, NEW run \in Report
    PROVE  LET p == ApplyRolePolicy(s, run)
           IN  /\ p \in Report /\ p.listed = run.listed /\ p.acts = run.acts /\ p.told = run.told
               /\ run.status = "failed" => p.status = "failed"
               /\ p.status = "completed" => RoleKept(s, p.acts)
<1> DEFINE failed == [run EXCEPT !.status = "failed", !.errors = "other"]
<1>1. /\ failed \in Report /\ failed.listed = run.listed /\ failed.acts = run.acts
      /\ failed.told = run.told /\ failed.status = "failed"
  BY DEF Report
<1>2. run.acts \in SUBSET Activity
  BY DEF Report
<1>3. RolePolicyViolations(s, run.acts) = {} => RoleKept(s, run.acts)
  BY <1>2, PolicyKeepsRole
<1>4. ApplyRolePolicy(s, run) = IF RolePolicyViolations(s, run.acts) = {} THEN run ELSE failed
  BY DEF ApplyRolePolicy
<1> HIDE DEF failed
<1> QED
  BY <1>1, <1>3, <1>4

\* The outcomes that end an attempt without a result.
LEMMA EndsType ==
    ASSUME NEW kind \in {"threw", "exited"}
    PROVE  /\ Ends(kind) \in Outcome /\ Ends(kind).kind = kind /\ Ends(kind).status = "none"
           /\ Ends(kind).wrote = {}
BY DEF Ends, NoOutcome, Outcome, Verdict

\* What may be said of an outcome of attempt a, given what its report lists.
Judges(a, listed, o) ==
    /\ o \in Outcome /\ o.kind # "none"
    /\ o.status = "completed" => RoleKept(stage, o.acts)
    /\ stage # "collaboration" =>
         \A b \in o.wrote : b = a \/ \E d \in listed : files[d].by = b
    /\ stage = "evaluation" /\ o.status = "completed" /\ o.says = {"go"} /\ o.told = "stop" =>
         "evaluation-summary" \in listed

LEMMA EndsJudges ==
    ASSUME NEW a, NEW listed, NEW kind \in {"threw", "exited"}
    PROVE  Judges(a, listed, Ends(kind))
BY EndsType DEF Judges

\* An evaluation's output that rejects is not overruled by what is built from it.
LEMMA BuiltVerdictIsTold ==
    ASSUME NEW run \in Report, NEW files1 \in [Deliverables("evaluation") -> File], NEW a \in Attempt,
           run.told = "stop"
    PROVE  \/ "evaluation-summary" \in run.listed
           \/ Enriched("evaluation", run, files1, a).files["evaluation-summary"].says = "stop"
<1> DEFINE d == "evaluation-summary"
<1>1. d \in Deliverables("evaluation")
  BY DEF Deliverables
<1>2. Enriched("evaluation", run, files1, a) = EnrichEvaluation(run, files1, a)
  BY DEF Enriched
<1>3. BuiltEvaluation(a, run).says = "stop"
  BY JudgedType DEF BuiltEvaluation, InferDecision, Said, HasModelOutput, Verdict
<1>4. Writes(run, files1, d, BuiltEvaluation(a, run)).files = [files1 EXCEPT ![d] = BuiltEvaluation(a, run)]
  BY DEF Writes
<1> QED
  BY <1>1, <1>2, <1>3, <1>4 DEF EnrichEvaluation, Keeps

LEMMA AppliedJudges ==
    ASSUME AdapterRunTypeOK, NEW a \in Attempt, NEW report \in OwnReport, Applied(a, report)
    PROVE  /\ files' \in [Deliverables(stage) -> File]
           /\ \A d \in Deliverables(stage) : files'[d] = files[d] \/ files'[d].by = a
           /\ \E o : /\ outcome' = [outcome EXCEPT ![a] = o] /\ Judges(a, report.listed, o)
                     /\ report.status = "failed" => o.status # "completed"
<1> DEFINE n == Normalized(report)
           e == Enriched(stage, n, files, a)
           run == ApplyRolePolicy(stage, e.run)
           judging == {e.files[d].says : d \in Judging(stage)}
           by == {e.files[d].by : d \in run.listed}
           result == [kind |-> "applied", status |-> run.status, acts |-> run.acts,
                      wrote |-> by, told |-> report.told, says |-> judging]
           o == IF SchemaBackedArtifactsValid(run, e.files) THEN result ELSE Ends("threw")
<1>1. /\ stage \in AdapterStage /\ files \in [Deliverables(stage) -> File]
      /\ report \in Report /\ report.listed \subseteq Deliverables(stage)
  BY RunAssumption DEF AdapterRunTypeOK, OwnReport
<1>2. /\ n \in Report /\ n.listed = report.listed /\ n.told = report.told
      /\ n.status = report.status
  BY <1>1, NormalizedType
<1>3. Enriches(stage, n, files, a, e)
  BY <1>1, <1>2, EnrichedEnriches
<1>4. files' = e.files /\ outcome' = [outcome EXCEPT ![a] = o]
  BY DEF Applied
<1>5. stage = "evaluation" /\ report.told = "stop" =>
          "evaluation-summary" \in report.listed \/ "stop" \in judging
  <2> SUFFICES ASSUME stage = "evaluation", report.told = "stop"
               PROVE  "evaluation-summary" \in report.listed \/ "stop" \in judging
    OBVIOUS
  <2>1. "evaluation-summary" \in Judging(stage)
    BY DEF Judging, Deliverables
  <2>2. \/ "evaluation-summary" \in n.listed
        \/ e.files["evaluation-summary"].says = "stop"
    BY <1>1, <1>2, BuiltVerdictIsTold
  <2> QED
    BY <1>2, <2>1, <2>2
<1> HIDE DEF n, e
<1>6. /\ run \in Report /\ run.listed = e.run.listed /\ run.listed \subseteq Deliverables(stage)
      /\ e.run.status = "failed" => run.status = "failed"
      /\ run.status = "completed" => RoleKept(stage, run.acts)
      /\ e.files \in [Deliverables(stage) -> File]
  BY <1>1, <1>3, PolicyType DEF Enriches
<1> HIDE DEF run
<1>7. judging \in SUBSET Verdict /\ by \in SUBSET (0..Attempts)
  BY <1>6 DEF Judging, File
<1>8. stage # "collaboration" => \A b \in by : b = a \/ \E d \in report.listed : files[d].by = b
  BY <1>2, <1>3, <1>6 DEF Enriches
<1> HIDE DEF judging, by
<1>9. /\ result \in Outcome /\ result.kind = "applied" /\ result.status = run.status
      /\ result.acts = run.acts /\ result.wrote = by /\ result.told = report.told
      /\ result.says = judging
  BY <1>1, <1>6, <1>7 DEF Outcome, Report
<1>10. Judges(a, report.listed, result)
  BY <1>5, <1>6, <1>8, <1>9 DEF Judges
<1>11. report.status = "failed" => result.status # "completed"
  BY <1>2, <1>3, <1>6, <1>9 DEF Enriches
<1> HIDE DEF result
<1>12. Judges(a, report.listed, o) /\ (report.status = "failed" => o.status # "completed")
  BY <1>10, <1>11, EndsJudges, EndsType
<1> HIDE DEF o
<1> QED
  BY <1>3, <1>4, <1>6, <1>12 DEF Enriches

-----------------------------------------------------------------------------
(* Types.                                                                   *)

LEMMA TimeoutReportType == TimeoutReport \in OwnReport /\ TimeoutReport.status = "failed"
BY DEF TimeoutReport, OwnReport, Report

LEMMA ToldType ==
    ASSUME AdapterRunTypeOK, NEW a \in Attempt, NEW r \in Told(a)
    PROVE  r \in OwnReport /\ r.listed \subseteq written[a]
BY RunAssumption DEF AdapterRunTypeOK, Told, OwnReport

\* The outcomes with which an attempt may close: none is a result when it heard
\* an abort, none completes when it heard anything.
MayClose(a, o) ==
    \E listed :
        /\ Judges(a, listed, o)
        /\ "abort" \in heard[a] => o.kind # "applied" /\ o.status = "none"
        /\ heard[a] # {} => o.status # "completed"
        /\ stage \notin FileStages => listed \subseteq written[a]

LEMMA ClosesWith ==
    ASSUME AdapterRunTypeOK, NEW a \in Attempt, Closes(a)
    PROVE  /\ files' \in [Deliverables(stage) -> File]
           /\ \A d \in Deliverables(stage) : files'[d] = files[d] \/ files'[d].by = a
           /\ \E o : outcome' = [outcome EXCEPT ![a] = o] /\ MayClose(a, o)
<1> DEFINE Goal == /\ files' \in [Deliverables(stage) -> File]
                   /\ \A d \in Deliverables(stage) : files'[d] = files[d] \/ files'[d].by = a
                   /\ \E o : outcome' = [outcome EXCEPT ![a] = o] /\ MayClose(a, o)
<1>1. ASSUME NEW kind \in {"threw", "exited"}, EndsWithout(a, kind)
      PROVE  Goal
  <2>0. /\ Judges(a, {}, Ends(kind)) /\ Ends(kind).kind # "applied" /\ Ends(kind).status = "none"
    BY EndsJudges, EndsType
  <2>1. MayClose(a, Ends(kind))
    BY <2>0 DEF MayClose
  <2>2. files' = files /\ outcome' = [outcome EXCEPT ![a] = Ends(kind)]
    BY <1>1 DEF EndsWithout
  <2>3. files \in [Deliverables(stage) -> File]
    BY DEF AdapterRunTypeOK
  <2> QED
    BY <2>1, <2>2, <2>3
<1>2. ASSUME NEW report \in OwnReport, Applied(a, report), "abort" \notin heard[a],
             heard[a] # {} => report.status = "failed",
             stage \notin FileStages => report.listed \subseteq written[a]
      PROVE  Goal
  <2>1. PICK o : /\ outcome' = [outcome EXCEPT ![a] = o] /\ Judges(a, report.listed, o)
                 /\ report.status = "failed" => o.status # "completed"
    BY <1>2, AppliedJudges
  <2>2. MayClose(a, o)
    BY <1>2, <2>1 DEF MayClose
  <2> QED
    BY <1>2, <2>1, <2>2, AppliedJudges
<1> SUFFICES Goal
  OBVIOUS
<1> HIDE DEF Goal
<1>3. CASE "abort" \in heard[a] /\ EndsWithout(a, "threw")
  BY <1>1, <1>3
<1>4. CASE heard[a] = {"timeout"} /\ Applied(a, TimeoutReport)
  <2>1. TimeoutReport.listed \subseteq written[a]
    BY DEF TimeoutReport
  <2> QED
    BY <1>2, <1>4, <2>1, TimeoutReportType
<1>5. CASE heard[a] = {} /\ ExitedCleanly(a)
  <2>1. CASE stage \in FileStages
    <3>1. (output.by = 0 /\ EndsWithout(a, "exited")) \/ (output.by # 0 /\ Applied(a, output.report))
      BY <1>5, <2>1 DEF ExitedCleanly, ReadOutputFile
    <3>2. output.by # 0 => output.report \in OwnReport
      BY DEF AdapterRunTypeOK, NoOutput
    <3> QED
      BY <1>1, <1>2, <1>5, <2>1, <3>1, <3>2
  <2>2. CASE stage \notin FileStages
    <3>1. \/ \E r \in Told(a) : Applied(a, r)
          \/ EndsWithout(a, "threw") \/ EndsWithout(a, "exited")
      BY <1>5, <2>2 DEF ExitedCleanly, ReadStdout
    <3> QED
      BY <1>1, <1>2, <1>5, <3>1, ToldType
  <2> QED
    BY <2>1, <2>2
<1>6. CASE heard[a] = {} /\ EndsWithout(a, "threw")
  BY <1>1, <1>6
<1> QED
  BY <1>3, <1>4, <1>5, <1>6 DEF Closes

\* How an attempt starts: it runs, or is over at once.
LEMMA StartsWith ==
    ASSUME AdapterRunTypeOK, NEW a \in Attempt, Start(a)
    PROVE  /\ phase[a] = "waiting"
           /\ \/ /\ phase' = [phase EXCEPT ![a] = "running"] /\ outcome' = outcome
                 /\ ~aborted[a] /\ PreflightPasses
              \/ /\ phase' = [phase EXCEPT ![a] = "done"]
                 /\ \E kind \in {"threw", "exited"} : outcome' = [outcome EXCEPT ![a] = Ends(kind)]
           /\ before' = [before EXCEPT ![a] = {b \in Attempt : phase[b] = "done"}]
           /\ UNCHANGED <<stage, aborted, heard, output, files, available, written>>
           /\ \/ UNCHANGED <<cache, passed>>
              \/ cache' = (IF available THEN 0 ELSE cache) /\ passed' = (IF available THEN 0 ELSE passed)
BY DEF Start, MayStart, diskVars, EnsureAdapterPreflight, WriteCachedReport

LEMMA AgeType ==
    ASSUME NEW age \in Age \cup {None}
    PROVE  (IF age \in 0..TTL THEN age + 1 ELSE age) \in Age \cup {None} /\ 0 \in Age
BY RunAssumption DEF Age, None

LEMMA StepAdapterType ==
    ASSUME AdapterRunTypeOK, [AdapterRunNext]_vars
    PROVE  AdapterRunTypeOK'
<1> USE DEF attemptVars, diskVars, probeVars, historyVars
<1>1. ASSUME NEW a \in Attempt, Start(a)
      PROVE  AdapterRunTypeOK'
  <2>1. stage' = stage /\ cache' \in Age \cup {None} /\ passed' \in Age \cup {None}
    BY <1>1, StartsWith, AgeType DEF AdapterRunTypeOK
  <2>2. /\ phase' \in [Attempt -> {"waiting", "running", "closing", "done"}]
        /\ outcome' \in [Attempt -> Outcome]
    BY <1>1, StartsWith, EndsType DEF AdapterRunTypeOK
  <2>3. before' \in [Attempt -> SUBSET Attempt]
    BY <1>1, StartsWith DEF AdapterRunTypeOK
  <2> QED
    BY <1>1, <2>1, <2>2, <2>3, StartsWith DEF AdapterRunTypeOK, OwnReport
<1>2. ASSUME NEW a \in Attempt, AbortRun(a) \/ TimesOut(a) \/ Exits(a)
      PROVE  AdapterRunTypeOK'
  <2>1. /\ aborted' \in [Attempt -> BOOLEAN]
        /\ heard' \in [Attempt -> SUBSET {"abort", "timeout"}]
        /\ phase' \in [Attempt -> {"waiting", "running", "closing", "done"}]
    <3>1. CASE AbortRun(a)
      BY <3>1 DEF AbortRun, AdapterRunTypeOK
    <3>2. CASE TimesOut(a)
      BY <3>2 DEF TimesOut, AdapterRunTypeOK
    <3>3. CASE Exits(a)
      BY <3>3 DEF Exits, AdapterRunTypeOK
    <3> QED
      BY <1>2, <3>1, <3>2, <3>3
  <2>2. UNCHANGED <<stage, outcome, output, files, available, cache, passed, written, before>>
    BY <1>2 DEF AbortRun, TimesOut, Exits
  <2> QED
    BY <2>1, <2>2 DEF AdapterRunTypeOK, OwnReport
<1>3. ASSUME NEW a \in Attempt, WritesDeliverable(a)
      PROVE  AdapterRunTypeOK'
  <2>1. PICK d \in Deliverables(stage), ok \in BOOLEAN, verdict \in Verdict :
          /\ files' = [files EXCEPT ![d] = [by |-> a, valid |-> ok, says |-> verdict]]
          /\ written' = [written EXCEPT ![a] = @ \cup {d}]
    BY <1>3 DEF WritesDeliverable
  <2>2. [by |-> a, valid |-> ok, says |-> verdict] \in File
    BY RunAssumption DEF File, Attempt
  <2>3. /\ files' \in [Deliverables(stage) -> File]
        /\ written' \in [Attempt -> SUBSET Deliverables(stage)]
    BY <2>1, <2>2 DEF AdapterRunTypeOK
  <2> QED
    BY <1>3, <2>3 DEF WritesDeliverable, AdapterRunTypeOK, OwnReport
<1>4. ASSUME NEW a \in Attempt, WritesOutput(a)
      PROVE  AdapterRunTypeOK'
  <2>1. PICK r \in Told(a) : output' = [by |-> a, report |-> r]
    BY <1>4 DEF WritesOutput
  <2>2. output' \in [by : Attempt, report : OwnReport]
    BY <2>1, ToldType
  <2> QED
    BY <1>4, <2>2 DEF WritesOutput, AdapterRunTypeOK, OwnReport
<1>5. ASSUME NEW a \in Attempt, Closes(a)
      PROVE  AdapterRunTypeOK'
  <2>1. outcome' \in [Attempt -> Outcome]
    BY <1>5, ClosesWith DEF AdapterRunTypeOK, MayClose, Judges
  <2>2. phase' \in [Attempt -> {"waiting", "running", "closing", "done"}]
    BY <1>5 DEF Closes, Settles, AdapterRunTypeOK
  <2>3. UNCHANGED <<stage, aborted, heard, output, available, cache, passed, written, before>>
    BY <1>5 DEF Closes
  <2> QED
    BY <1>5, <2>1, <2>2, <2>3, ClosesWith DEF AdapterRunTypeOK, OwnReport
<1>6. CASE Tick \/ AvailabilityChanges
  <2>1. cache' \in Age \cup {None} /\ passed' \in Age \cup {None} /\ available' \in BOOLEAN
    BY <1>6, AgeType DEF Tick, AvailabilityChanges, AdapterRunTypeOK
  <2>2. UNCHANGED <<stage, phase, aborted, heard, outcome, output, files, written, before>>
    BY <1>6 DEF Tick, AvailabilityChanges
  <2> QED
    BY <2>1, <2>2 DEF AdapterRunTypeOK, OwnReport
<1>7. CASE UNCHANGED vars
  BY <1>7 DEF vars, AdapterRunTypeOK, OwnReport
<1> QED
  BY <1>1, <1>2, <1>3, <1>4, <1>5, <1>6, <1>7 DEF AdapterRunNext

LEMMA InitAdapterType ==
    ASSUME AdapterRunInit
    PROVE  AdapterRunTypeOK
<1>1. NoFile \in File /\ NoOutcome \in Outcome /\ None \in Age \cup {None}
  BY RunAssumption DEF NoFile, File, NoOutcome, Outcome, Verdict
<1> QED
  BY <1>1 DEF AdapterRunInit, AdapterRunTypeOK

\* Attempts, the files they share and the probe keep their types.
THEOREM AdapterRunTypeCorrect == AdapterRunSpec => []AdapterRunTypeOK
<1>1. AdapterRunInit => AdapterRunTypeOK
  BY InitAdapterType
<1>2. AdapterRunTypeOK /\ [AdapterRunNext]_vars => AdapterRunTypeOK'
  BY StepAdapterType
<1> QED
  BY <1>1, <1>2, PTL DEF AdapterRunSpec

-----------------------------------------------------------------------------
(* The invariant of the attempts.                                           *)

\* An attempt that is not over has no outcome.
OpenHasNoOutcome == \A a \in Attempt : phase[a] # "done" => outcome[a] = NoOutcome

\* The listener is there while the process is.
AbortIsHeard ==
    \A a \in Attempt : aborted[a] /\ phase[a] \in {"running", "closing"} => "abort" \in heard[a]

WaitingIsFresh ==
    \A a \in Attempt : phase[a] = "waiting" =>
        heard[a] = {} /\ written[a] = {} /\ before[a] = {}

BeforeIsOver == \A a \in Attempt : \A b \in before[a] : phase[b] = "done" /\ b # a

\* What an attempt wrote is not overwritten by one that was over before.
OwnFilesAreNew == \A a \in Attempt : \A d \in written[a] : files[d].by \notin before[a]

OutcomesAreOwn ==
    \A a \in Attempt :
        /\ outcome[a].status = "completed" => RoleKept(stage, outcome[a].acts)
        /\ stage \notin FileStages \cup {"collaboration"} => outcome[a].wrote \cap before[a] = {}
        /\ stage = "evaluation" /\ stage \notin FileStages /\ outcome[a].status = "completed"
           /\ outcome[a].says = {"go"} /\ outcome[a].told = "stop" =>
               "evaluation-summary" \in written[a]

AttemptInv ==
    /\ OpenHasNoOutcome
    /\ AbortIsHeard
    /\ WaitingIsFresh
    /\ BeforeIsOver
    /\ OwnFilesAreNew
    /\ OutcomesAreOwn
    /\ StoppedNeverCompletes

LEMMA NoOutcomeFacts ==
    NoOutcome.kind = "none" /\ NoOutcome.status = "none" /\ NoOutcome.wrote = {}
BY DEF NoOutcome

\* An attempt whose outcome is o, if it judged what it was given.
LEMMA ClosedIsOwn ==
    ASSUME AttemptInv, NEW a \in Attempt, NEW o, MayClose(a, o)
    PROVE  /\ o.status = "completed" => RoleKept(stage, o.acts)
           /\ stage \notin FileStages \cup {"collaboration"} => o.wrote \cap before[a] = {}
           /\ stage = "evaluation" /\ stage \notin FileStages /\ o.status = "completed"
              /\ o.says = {"go"} /\ o.told = "stop" => "evaluation-summary" \in written[a]
BY DEF AttemptInv, OwnFilesAreNew, BeforeIsOver, MayClose, Judges

LEMMA StartAttempt ==
    ASSUME AdapterRunTypeOK, AttemptInv, NEW a \in Attempt, Start(a)
    PROVE  AttemptInv'
<1>0. /\ OpenHasNoOutcome /\ AbortIsHeard /\ WaitingIsFresh /\ BeforeIsOver
      /\ OwnFilesAreNew /\ OutcomesAreOwn /\ StoppedNeverCompletes
  BY DEF AttemptInv
<1>1. /\ phase[a] = "waiting" /\ phase'[a] \in {"running", "done"}
      /\ (phase'[a] = "running" => ~aborted[a] /\ outcome'[a] = outcome[a])
      /\ before'[a] = {b \in Attempt : phase[b] = "done"}
      /\ \A b \in Attempt \ {a} :
            phase'[b] = phase[b] /\ outcome'[b] = outcome[b] /\ before'[b] = before[b]
      /\ UNCHANGED <<stage, aborted, heard, files, written>>
  BY StartsWith DEF AdapterRunTypeOK
<1>2. outcome'[a].kind # "applied" /\ outcome'[a].status = "none" /\ outcome'[a].wrote = {}
  <2>1. CASE outcome' = outcome
    BY <1>0, <1>1, <2>1, NoOutcomeFacts DEF OpenHasNoOutcome
  <2>2. ASSUME NEW kind \in {"threw", "exited"}, outcome' = [outcome EXCEPT ![a] = Ends(kind)]
        PROVE  outcome'[a].kind # "applied" /\ outcome'[a].status = "none" /\ outcome'[a].wrote = {}
    BY <2>2, EndsType DEF AdapterRunTypeOK
  <2> QED
    BY <2>1, <2>2, StartsWith
<1>3. OpenHasNoOutcome' /\ AbortIsHeard' /\ WaitingIsFresh'
  BY <1>0, <1>1 DEF OpenHasNoOutcome, AbortIsHeard, WaitingIsFresh
<1>4. BeforeIsOver'
  <2>1. ASSUME NEW b \in Attempt, NEW c \in before'[b]
        PROVE  c \in Attempt /\ phase[c] = "done" /\ c # b
    <3>1. CASE b = a
      BY <1>1, <2>1, <3>1
    <3>2. CASE b # a
      BY <1>0, <1>1, <2>1, <3>2 DEF BeforeIsOver, AdapterRunTypeOK
    <3> QED
      BY <3>1, <3>2
  <2> QED
    BY <1>1, <2>1 DEF BeforeIsOver
<1>5. OwnFilesAreNew'
  BY <1>0, <1>1 DEF OwnFilesAreNew, WaitingIsFresh
<1>6. OutcomesAreOwn'
  <2> SUFFICES ASSUME NEW b \in Attempt
               PROVE  /\ outcome'[b].status = "completed" => RoleKept(stage, outcome'[b].acts)
                      /\ stage \notin FileStages \cup {"collaboration"} =>
                            outcome'[b].wrote \cap before'[b] = {}
                      /\ stage = "evaluation" /\ stage \notin FileStages
                         /\ outcome'[b].status = "completed"
                         /\ outcome'[b].says = {"go"} /\ outcome'[b].told = "stop" =>
                            "evaluation-summary" \in written[b]
    BY <1>1 DEF OutcomesAreOwn, RoleKept
  <2>1. CASE b = a
    BY <1>2, <2>1
  <2>2. CASE b # a
    BY <1>0, <1>1, <2>2 DEF OutcomesAreOwn
  <2> QED
    BY <2>1, <2>2
<1>7. StoppedNeverCompletes'
  BY <1>0, <1>1, <1>2 DEF StoppedNeverCompletes
<1> QED
  BY <1>3, <1>4, <1>5, <1>6, <1>7 DEF AttemptInv

LEMMA SignalAttempt ==
    ASSUME AdapterRunTypeOK, AttemptInv, NEW a \in Attempt, AbortRun(a) \/ TimesOut(a) \/ Exits(a)
    PROVE  AttemptInv'
<1>0. /\ OpenHasNoOutcome /\ AbortIsHeard /\ WaitingIsFresh /\ BeforeIsOver
      /\ OwnFilesAreNew /\ OutcomesAreOwn /\ StoppedNeverCompletes
  BY DEF AttemptInv
<1>1. /\ phase[a] # "done" /\ phase'[a] # "done" /\ outcome[a].kind = "none" /\ outcome[a].status = "none"
      /\ \A b \in Attempt \ {a} :
            phase'[b] = phase[b] /\ aborted'[b] = aborted[b] /\ heard'[b] = heard[b]
      /\ UNCHANGED <<stage, outcome, files, written, before>>
  <2>1. phase[a] # "done"
    BY DEF AbortRun, TimesOut, Exits
  <2> QED
    BY <1>0, <2>1, NoOutcomeFacts DEF AbortRun, TimesOut, Exits, diskVars, historyVars,
       AdapterRunTypeOK, OpenHasNoOutcome
<1>2. /\ phase'[a] = "waiting" => phase[a] = "waiting" /\ heard'[a] = heard[a]
      /\ aborted'[a] /\ phase'[a] \in {"running", "closing"} => "abort" \in heard'[a]
  BY <1>0 DEF AbortRun, TimesOut, Exits, AdapterRunTypeOK, AbortIsHeard
<1>3. /\ OpenHasNoOutcome' /\ AbortIsHeard' /\ WaitingIsFresh' /\ BeforeIsOver' /\ OwnFilesAreNew'
  <2>1. OpenHasNoOutcome' /\ AbortIsHeard'
    <3>1. outcome[a] = NoOutcome
      BY <1>0, <1>1 DEF OpenHasNoOutcome
    <3> QED
      BY <1>0, <1>1, <1>2, <3>1 DEF OpenHasNoOutcome, AbortIsHeard
  <2>2. WaitingIsFresh'
    BY <1>0, <1>1, <1>2 DEF WaitingIsFresh
  <2>3. BeforeIsOver'
    BY <1>0, <1>1 DEF BeforeIsOver, AdapterRunTypeOK
  <2>4. OwnFilesAreNew'
    BY <1>0, <1>1 DEF OwnFilesAreNew
  <2> QED
    BY <2>1, <2>2, <2>3, <2>4
<1>4. OutcomesAreOwn'
  BY <1>0, <1>1 DEF OutcomesAreOwn, RoleKept
<1>5. StoppedNeverCompletes'
  BY <1>0, <1>1 DEF StoppedNeverCompletes
<1> QED
  BY <1>3, <1>4, <1>5 DEF AttemptInv

LEMMA WriteAttempt ==
    ASSUME AdapterRunTypeOK, AttemptInv, NEW a \in Attempt, WritesDeliverable(a)
    PROVE  AttemptInv'
<1>0. /\ OpenHasNoOutcome /\ AbortIsHeard /\ WaitingIsFresh /\ BeforeIsOver
      /\ OwnFilesAreNew /\ OutcomesAreOwn /\ StoppedNeverCompletes
  BY DEF AttemptInv
<1>1. PICK d \in Deliverables(stage) :
        /\ phase[a] = "running" /\ written' = [written EXCEPT ![a] = @ \cup {d}]
        /\ files'[d].by = a /\ \A c \in Deliverables(stage) \ {d} : files'[c] = files[c]
        /\ UNCHANGED <<stage, phase, aborted, heard, outcome, before>>
  <2>1. PICK d \in Deliverables(stage), ok \in BOOLEAN, verdict \in Verdict :
          /\ files' = [files EXCEPT ![d] = [by |-> a, valid |-> ok, says |-> verdict]]
          /\ written' = [written EXCEPT ![a] = @ \cup {d}]
    BY DEF WritesDeliverable
  <2>2. files'[d].by = a /\ \A c \in Deliverables(stage) \ {d} : files'[c] = files[c]
    BY <2>1 DEF AdapterRunTypeOK
  <2>3. phase[a] = "running" /\ UNCHANGED <<stage, phase, aborted, heard, outcome, before>>
    BY DEF WritesDeliverable, attemptVars
  <2> QED
    BY <2>1, <2>2, <2>3
<1>2. /\ OpenHasNoOutcome' /\ AbortIsHeard' /\ WaitingIsFresh' /\ BeforeIsOver'
      /\ StoppedNeverCompletes'
  BY <1>0, <1>1 DEF OpenHasNoOutcome, AbortIsHeard, WaitingIsFresh, BeforeIsOver,
     StoppedNeverCompletes, AdapterRunTypeOK
<1>3. OwnFilesAreNew'
  BY <1>0, <1>1 DEF OwnFilesAreNew, BeforeIsOver, AdapterRunTypeOK
<1>4. OutcomesAreOwn'
  <2>1. \A b \in Attempt : written[b] \subseteq written'[b]
    BY <1>1 DEF AdapterRunTypeOK
  <2> QED
    BY <1>0, <1>1, <2>1 DEF OutcomesAreOwn, RoleKept
<1> QED
  BY <1>2, <1>3, <1>4 DEF AttemptInv

LEMMA CloseAttempt ==
    ASSUME AdapterRunTypeOK, AttemptInv, NEW a \in Attempt, Closes(a)
    PROVE  AttemptInv'
<1>0. /\ OpenHasNoOutcome /\ AbortIsHeard /\ WaitingIsFresh /\ BeforeIsOver
      /\ OwnFilesAreNew /\ OutcomesAreOwn /\ StoppedNeverCompletes
  BY DEF AttemptInv
<1>1. /\ phase[a] = "closing" /\ phase' = [phase EXCEPT ![a] = "done"]
      /\ UNCHANGED <<stage, aborted, heard, written, before>>
  BY DEF Closes, Settles, historyVars
<1>2. /\ \A d \in Deliverables(stage) : files'[d] = files[d] \/ files'[d].by = a
      /\ \E o : outcome' = [outcome EXCEPT ![a] = o] /\ MayClose(a, o)
  BY ClosesWith
<1>3. PICK o : outcome' = [outcome EXCEPT ![a] = o] /\ MayClose(a, o)
  BY <1>2
<1>4. /\ outcome'[a] = o /\ \A b \in Attempt \ {a} : outcome'[b] = outcome[b]
      /\ phase'[a] = "done" /\ \A b \in Attempt \ {a} : phase'[b] = phase[b]
  BY <1>1, <1>3 DEF AdapterRunTypeOK
<1>5. OpenHasNoOutcome' /\ AbortIsHeard' /\ WaitingIsFresh' /\ BeforeIsOver'
  BY <1>0, <1>1, <1>4 DEF OpenHasNoOutcome, AbortIsHeard, WaitingIsFresh, BeforeIsOver
<1>6. OwnFilesAreNew'
  BY <1>0, <1>1, <1>2 DEF OwnFilesAreNew, BeforeIsOver, AdapterRunTypeOK
<1>7. OutcomesAreOwn'
  <2>1. /\ o.status = "completed" => RoleKept(stage, o.acts)
        /\ stage \notin FileStages \cup {"collaboration"} => o.wrote \cap before[a] = {}
        /\ stage = "evaluation" /\ stage \notin FileStages /\ o.status = "completed"
           /\ o.says = {"go"} /\ o.told = "stop" => "evaluation-summary" \in written[a]
    BY <1>3, ClosedIsOwn
  <2> QED
    BY <1>0, <1>1, <1>4, <2>1 DEF OutcomesAreOwn, RoleKept
<1>8. StoppedNeverCompletes'
  <2>1. /\ heard[a] # {} => o.status # "completed"
        /\ aborted[a] => o.kind # "applied"
    BY <1>0, <1>1, <1>3 DEF MayClose, AbortIsHeard
  <2> QED
    BY <1>0, <1>1, <1>4, <2>1 DEF StoppedNeverCompletes
<1> QED
  BY <1>5, <1>6, <1>7, <1>8 DEF AttemptInv

LEMMA StepAttempts ==
    ASSUME AdapterRunTypeOK, AttemptInv, [AdapterRunNext]_vars
    PROVE  AttemptInv'
<1>1. ASSUME UNCHANGED <<stage, phase, aborted, heard, outcome, files, written, before>>
      PROVE  AttemptInv'
  BY <1>1 DEF AttemptInv, OpenHasNoOutcome, AbortIsHeard, WaitingIsFresh, BeforeIsOver,
     OwnFilesAreNew, OutcomesAreOwn, StoppedNeverCompletes, RoleKept
<1>2. ASSUME NEW a \in Attempt, WritesOutput(a)
      PROVE  AttemptInv'
  BY <1>1, <1>2 DEF WritesOutput, attemptVars, historyVars
<1>3. CASE Tick \/ AvailabilityChanges \/ UNCHANGED vars
  BY <1>1, <1>3 DEF Tick, AvailabilityChanges, vars, attemptVars, diskVars, historyVars
<1> QED
  BY <1>2, <1>3, StartAttempt, SignalAttempt, WriteAttempt, CloseAttempt DEF AdapterRunNext

LEMMA AttemptInvariant == AdapterRunSpec => [](AdapterRunTypeOK /\ AttemptInv)
<1>1. AdapterRunInit => AttemptInv
  BY NoOutcomeFacts DEF AdapterRunInit, AttemptInv, OpenHasNoOutcome, AbortIsHeard, WaitingIsFresh,
     BeforeIsOver, OwnFilesAreNew, OutcomesAreOwn, StoppedNeverCompletes
<1>2. AdapterRunTypeOK /\ AttemptInv /\ [AdapterRunNext]_vars => AttemptInv'
  BY StepAttempts
<1> QED
  BY <1>1, <1>2, AdapterRunTypeCorrect, PTL DEF AdapterRunSpec

\* Whichever of timer and abort comes first, and whatever the process writes: what
\* ran out of time does not complete, and what was aborted applies nothing.
THEOREM StoppedRunsNeverComplete == AdapterRunSpec => []StoppedNeverCompletes
<1>1. AttemptInv => StoppedNeverCompletes
  BY DEF AttemptInv
<1> QED
  BY <1>1, AttemptInvariant, PTL

\* Whatever an adapter reports: if its task completes, its role was kept.
THEOREM CompletedRunsKeepTheirRole == AdapterRunSpec => []CompletedKeepsRole
<1>1. AttemptInv => CompletedKeepsRole
  BY DEF AttemptInv, OutcomesAreOwn, RoleKept, CompletedKeepsRole
<1> QED
  BY <1>1, AttemptInvariant, PTL

\* However attempts overlap, a result of a stage other than the collaboration, of a
\* runtime that reports on stdout, lists nothing that is older than its attempt.
THEOREM DeliverablesAreNew == AdapterRunSpec => []NoStaleDeliverable
<1>1. AttemptInv => NoStaleDeliverable
  BY DEF AttemptInv, OutcomesAreOwn, NoStaleDeliverable
<1> QED
  BY <1>1, AttemptInvariant, PTL

\* Where evaluations report on stdout, one whose output rejects is accepted only by
\* a summary its adapter wrote itself.
THEOREM VerdictsAreTold ==
    ASSUME "evaluation" \notin FileStages
    PROVE  AdapterRunSpec => []VerdictIsTold
<1>1. AttemptInv => VerdictIsTold
  BY DEF AttemptInv, OutcomesAreOwn, VerdictIsTold
<1> QED
  BY <1>1, AttemptInvariant, PTL

-----------------------------------------------------------------------------
(* The cached probe.                                                        *)

\* The age of the cached report is that of the last probe that passed.
CacheIsPassed == passed = cache

LEMMA StepCache ==
    ASSUME CacheIsPassed, [AdapterRunNext]_vars
    PROVE  CacheIsPassed'
<1>1. ASSUME NEW a \in Attempt, Start(a)
      PROVE  CacheIsPassed'
  BY <1>1 DEF Start, EnsureAdapterPreflight, WriteCachedReport, CacheIsPassed
<1>2. CASE Tick
  BY <1>2 DEF Tick, CacheIsPassed
<1>3. ASSUME NEW a \in Attempt,
             \/ AbortRun(a) \/ TimesOut(a) \/ WritesDeliverable(a) \/ WritesOutput(a)
             \/ Exits(a) \/ Closes(a)
      PROVE  CacheIsPassed'
  BY <1>3 DEF AbortRun, TimesOut, WritesDeliverable, WritesOutput, Exits, Closes, probeVars,
     CacheIsPassed
<1>4. CASE AvailabilityChanges \/ UNCHANGED vars
  BY <1>4 DEF AvailabilityChanges, vars, probeVars, CacheIsPassed
<1> QED
  BY <1>1, <1>2, <1>3, <1>4 DEF AdapterRunNext

\* No Copilot adapter starts on a probe older than the lifetime of the cache.
THEOREM CopilotStartsAreProbed == AdapterRunSpec => StartsAreProbed
<1> DEFINE Probed == \A a \in Attempt :
               Preflight /\ phase[a] = "waiting" /\ phase'[a] = "running" => passed' <= TTL
<1>1. AdapterRunInit => CacheIsPassed
  BY DEF AdapterRunInit, CacheIsPassed
<1>2. CacheIsPassed /\ [AdapterRunNext]_vars => CacheIsPassed'
  BY StepCache
<1>3. AdapterRunTypeOK /\ CacheIsPassed /\ [AdapterRunNext]_vars => Probed
  <2> SUFFICES ASSUME AdapterRunTypeOK, CacheIsPassed, [AdapterRunNext]_vars, NEW a \in Attempt,
                      Preflight, phase[a] = "waiting", phase'[a] = "running"
               PROVE  passed' <= TTL
    OBVIOUS
  <2>1. Start(a)
    <3>1. ASSUME NEW b \in Attempt,
                 \/ AbortRun(b) \/ TimesOut(b) \/ WritesDeliverable(b) \/ WritesOutput(b)
                 \/ Exits(b) \/ Closes(b) \/ (Start(b) /\ b # a)
          PROVE  FALSE
      <4>1. CASE AbortRun(b) \/ TimesOut(b) \/ WritesDeliverable(b) \/ WritesOutput(b)
        BY <4>1 DEF AbortRun, TimesOut, WritesDeliverable, WritesOutput, attemptVars
      <4>2. CASE Exits(b) \/ Closes(b)
        BY <4>2 DEF Exits, Closes, Settles, AdapterRunTypeOK
      <4>3. CASE Start(b) /\ b # a
        BY <4>3, StartsWith DEF AdapterRunTypeOK
      <4> QED
        BY <3>1, <4>1, <4>2, <4>3
    <3>2. CASE Tick \/ AvailabilityChanges \/ UNCHANGED vars
      BY <3>2 DEF Tick, AvailabilityChanges, vars, attemptVars
    <3> QED
      BY <3>1, <3>2 DEF AdapterRunNext
  <2>2. PreflightPasses
    BY <2>1, StartsWith DEF AdapterRunTypeOK
  <2>3. CASE CachedReport
    BY <2>1, <2>3 DEF Start, EnsureAdapterPreflight, CachedReport, CacheIsPassed
  <2>4. CASE ~CachedReport
    <3>1. passed' = 0
      BY <2>1, <2>2, <2>4 DEF Start, EnsureAdapterPreflight, PreflightPasses
    <3> QED
      BY <3>1, RunAssumption
  <2> QED
    BY <2>3, <2>4
<1> QED
  BY <1>1, <1>2, <1>3, AdapterRunTypeCorrect, PTL DEF AdapterRunSpec, StartsAreProbed
=============================================================================
