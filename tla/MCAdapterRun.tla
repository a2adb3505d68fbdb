---------------------------- MODULE MCAdapterRun ----------------------------
(***************************************************************************)
(* Two attempts at a task of any stage.  One stage reports through a file, *)
(* with few reports: the file keeps the last one.                          *)
(***************************************************************************)
EXTENDS AdapterRun

MCStages == AdapterStage

MCFileStages == {"automated-execution"}

\* What its model output may say, for a stage with a verdict and for the others.
MCTold(s) == IF Judging(s) = {} THEN {"nothing", "unsaid"} ELSE Verdict \cup {"nothing"}

\* Each kind of activity with what may yet complete, and everything else
\* without activity.
MCStdoutReports(s) ==
    {[status |-> x, acts |-> {k}, listed |-> {}, told |-> "nothing", errors |-> e] :
        x \in {"completed", "blocked", "failed"}, k \in Activity, e \in {"none", "write-blocked"}}
    \cup {[status |-> x, acts |-> {}, listed |-> l, told |-> v, errors |-> e] :
        x \in {"completed", "blocked", "failed"}, l \in SUBSET Deliverables(s), v \in MCTold(s),
        e \in {"none", "write-blocked", "other"}}

MCFileOutput(s) ==
    {[status |-> x, acts |-> k, listed |-> l, told |-> "nothing", errors |-> "none"] :
        x \in {"completed", "blocked"}, k \in {{}, {"other-command"}}, l \in SUBSET Deliverables(s)}

MCReports ==
    [s \in AdapterStage |-> IF s \in MCFileStages THEN MCFileOutput(s) ELSE MCStdoutReports(s)]
=============================================================================
