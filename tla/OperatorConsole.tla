--------------------------- MODULE OperatorConsole ---------------------------
(***************************************************************************)
(* What the console shows an operator of a run, and the actions it offers  *)
(* him: the attention items of the read model                              *)
(* (platform/platform-observability-service.ts) and, in the web package,   *)
(* the readiness signal of the run's page (run-detail-panel.tsx), its      *)
(* action bar (lib/run-operator-actions.ts) and its list of tasks          *)
(* (task-actions-panel.tsx).                                               *)
(*                                                                         *)
(* All of it is computed from the tables when a page is loaded, so there   *)
(* is no state here.  A page may be out of date when its button is pressed;*)
(* ControlPlane covers that by letting the operator ask for any action at  *)
(* any time.  What is left to say is about a page that is up to date: is   *)
(* what it tells true, and does what it offers work.                       *)
(*                                                                         *)
(* Abstracted: labels and notes; requested approvals, which nothing asks   *)
(* for (see ControlPlane); the score.  Whether artifacts are missing is    *)
(* not part of the tables here, a page may find some or none.              *)
(***************************************************************************)
EXTENDS ControlPlane

-----------------------------------------------------------------------------
(* The read model.                                                         *)

StuckRepairs == {a \in repairs : a.status \in {"blocked", "failed"}}

\* Mutant of AttentionRequired: of the tasks, those that failed.
AttentionToFailures ==
    {<<"evaluator-reroute-requested", <<r, "evaluation">>>> : r \in {q \in Route : Rerouted(q)}}
    \cup {<<"task", t>> : t \in {u \in Task : row[u].status = "failed"}}
    \cup {<<"repair", a.task>> : a \in StuckRepairs}
    \cup {<<"publication", <<r, "collaboration">>>> : r \in {q \in Route : records[q].blocked > 0}}

\* What asks for the operator's attention: evaluations that ask for a repair, tasks and
\* repairs that are stuck, publications that are blocked.
AttentionRequired ==
    {<<"evaluator-reroute-requested", <<r, "evaluation">>>> : r \in {q \in Route : Rerouted(q)}}
    \cup {<<"task", t>> : t \in {u \in Task : row[u].status \in {"blocked", "failed"}}}
    \cup {<<"repair", a.task>> : a \in StuckRepairs}
    \cup {<<"publication", <<r, "collaboration">>>> : r \in {q \in Route : records[q].blocked > 0}}

-----------------------------------------------------------------------------
(* The action bar and the list of tasks.                                   *)

\* Tasks are listed by id: environment preparation, then a route's stages by name.
StagesByName == <<"automated-execution", "code-implementation", "collaboration",
                  "defect-feedback", "evaluation", "requirements-analysis", "test-design">>

ListOrder == [s \in RouteStage |-> CHOOSE i \in 1..7 : StagesByName[i] = s]

ListedBefore(t, u) ==
    \/ t = EnvTask /\ u # EnvTask
    \/ /\ EnvTask \notin {t, u}
       /\ RouteOf(t) = RouteOf(u)
       /\ ListOrder[StageOf(t)] < ListOrder[StageOf(u)]

\* Which of several routes comes first is a matter of their names: any may.
FirstListed(tasks) == {t \in tasks : ~\E u \in tasks : ListedBefore(u, t)}

Offer(action, task, stage) == [action |-> action, task |-> task, stage |-> stage]

Retry(t) == Offer("retry", t, NoStage)

RerouteOffers(r) ==
    LET evaluation == <<r, "evaluation">>
    IN  {Offer("reroute", evaluation, s) : s \in RepairableStage \ {asked[r]}}
        \cup {Offer("cancel-route", evaluation, NoStage)}
        \cup (IF runStatus \in {"blocked", "running"}
              THEN {Offer("resume-from-target-stage", evaluation, asked[r])} ELSE {})

Blocked == {t \in Task : row[t].status = "blocked"}

\* Mutant of FirstBlocked: the first of the tasks that failed.
FirstFailed == FirstListed({t \in Task : row[t].status = "failed"})

FirstBlocked == FirstListed(Blocked)

\* The bars a page may show: the first of these subjects there is decides.
Bars(gaps) ==
    IF \E r \in Route : Rerouted(r)
    THEN {RerouteOffers(r) : r \in {q \in Route : Rerouted(q)}}
    ELSE IF StuckRepairs # {}           THEN {{Retry(a.task)} : a \in StuckRepairs}
    ELSE IF FirstBlocked # {}           THEN {{Retry(t)} : t \in FirstBlocked}
    ELSE IF gaps                        THEN {{}}
    ELSE IF runStatus = "running"       THEN {{Offer("pause", EnvTask, NoStage)}}
    ELSE {{}}

\* The list shows five tasks, each with its buttons.
ListedTask(t) == Cardinality({u \in Task : ListedBefore(u, t)}) < 5

ListOffers == {Retry(t) : t \in {u \in Task : ListedTask(u)}}

\* Whether the control plane does what is asked, were it asked now.
Works(o) ==
    CASE o.action = "retry"        -> MayRetry(o.task)
      [] o.action = "pause"        -> RunIsOpen /\ ~paused
      [] o.action = "cancel-route" -> MayCancel(RouteOf(o.task))
      [] OTHER                     -> MayRearm(RouteOf(o.task))

-----------------------------------------------------------------------------
(* Properties.                                                             *)

\* Nobody works on the run and nothing is there to be leased.
AtRest ==
    /\ \A t \in Task : row[t].status \notin Held \cup {"ready"}
    /\ \A w \in Worker : ~Working(w)

\* docs/ops-startup-guide.md:212 - whatever mixture of results, retries, reroutes and
\* cancellations stopped a run short of its end, the control plane has an action that
\* moves it again.
StalledRunCanBeMoved ==
    AtRest /\ runStatus # "completed" =>
        \/ \E t \in Task : MayRetry(t)
        \/ \E r \in Route : MayRearm(r) \/ Publishable(r)

\* Such a run shows up among those that need attention, unless the operator himself
\* cancelled a route of it: cancelled tasks are not listed.
StalledRunAsksForAttention ==
    AtRest /\ runStatus # "completed" /\ (\A t \in Task : row[t].status # "cancelled") =>
        AttentionRequired # {}

\* docs/ui/operator-console.md:268 - "blocked repair or blocked task states must expose a
\* direct retry control": among the actions an open run's page offers while a task is
\* blocked and nobody works, there is one that goes on with it and that is accepted.
\* With a repair that is stuck as well this does not hold: the bar is then about the
\* repair's task, which may be completed, and the blocked evaluation is the sixth of
\* a list that shows five.
BlockedTaskHasAWayOn ==
    AtRest /\ RunIsOpen /\ Blocked # {} /\ StuckRepairs = {} =>
        \A bar \in Bars(FALSE) :
            \E o \in bar \cup ListOffers : o.action # "pause" /\ Works(o)
=============================================================================
