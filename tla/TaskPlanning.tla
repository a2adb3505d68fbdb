---------------------------- MODULE TaskPlanning ----------------------------
(***************************************************************************)
(* The planner of a run (planning/task-graph-service.ts): which routes of  *)
(* the topology a request selects, which of them wait for which, and the   *)
(* risk each of them is given; and the run that follows, as far as its     *)
(* routes wait for each other.                                             *)
(*                                                                         *)
(* TaskGraph starts where this module ends: its Route, RouteDeps and       *)
(* HumanApproval are a plan's.  How a route gets to be accepted is         *)
(* WorkflowLoop's business; here it is one step.                           *)
(*                                                                         *)
(* Abstracted: texts.  A requirement is the number of phrases and keywords *)
(* of each route found in it; a changed file is the service under whose    *)
(* path it lies, or Elsewhere; a path pattern or service kind of a risk    *)
(* rule is the places or services it matches.                              *)
(***************************************************************************)
EXTENDS Integers, Sequences, SequencesExt

CONSTANTS
    TopologyRoute,  \* topology.workflowRoutes
    Service,        \* the services of the topology and of the project adapter
    Elsewhere,      \* the place of files under no service's path
    Topology,       \* bound: the topologies and adapters planned from
    Request         \* bound: the requests, with the risk policy in force

Place == Service \cup {Elsewhere}

RiskLevel == 1..4   \* low, medium, high, critical

\* A rule that names no paths, workflows or kinds does not look at them.
RiskRule == [level : RiskLevel, paths : SUBSET Place, workflows : SUBSET TopologyRoute,
             kinds : SUBSET Service, approval : BOOLEAN]

\* entry: entryServices.  dependsOn, adapterDependsOn: what the topology and the adapter
\* say of a service.  located: the services whose path the adapter gives.
\* approval: the routes whose own review policy asks for approval, or waives it.
TopologyRecord == [entry : [TopologyRoute -> SUBSET Service],
                   dependsOn : [Service -> SUBSET Service],
                   adapterDependsOn : [Service -> SUBSET Service],
                   located : SUBSET Service,
                   approval : [TopologyRoute -> {"asked", "waived", "unsaid"}]]

ASSUME TopologyAssumption == Topology \subseteq TopologyRecord

ASSUME RequestAssumption ==
    \A q \in Request :
        /\ q.requirement \in BOOLEAN
        /\ q.phrases \in [TopologyRoute -> Nat]
        /\ q.keywords \in [TopologyRoute -> Nat]
        /\ q.files \subseteq Place
        /\ q.filter \subseteq TopologyRoute
        /\ q.rules \in Seq(RiskRule)

VARIABLES
    topology,   \* the topology and the adapter of the project
    request,    \* what the run is asked for
    planned,    \* the selected routes
    accepted    \* the routes whose evaluation is completed

vars == <<topology, request, planned, accepted>>

Unplanned == {Elsewhere}

PlanningTypeOK ==
    /\ topology \in Topology
    /\ request \in Request
    /\ planned = Unplanned \/ planned \subseteq TopologyRoute
    /\ accepted \subseteq TopologyRoute

Init ==
    /\ topology \in Topology
    /\ request \in Request
    /\ planned = Unplanned
    /\ accepted = {}

-----------------------------------------------------------------------------
(* Selecting routes.                                                       *)

Score(q, r) == 4 * q.phrases[r] + q.keywords[r]

Matched(q) == {r \in TopologyRoute : Score(q, r) > 0}

TargetsOf(t, r) == t.entry[r] \cap t.located

\* Mutant of AffectedBy: a route none of whose services has a path is never affected.
AffectedInTargets(t, q, r) == q.files = {} \/ q.files \cap TargetsOf(t, r) # {}

\* A route without target files counts as affected by every change.
AffectedBy(t, q, r) ==
    q.files = {} \/ TargetsOf(t, r) = {} \/ q.files \cap TargetsOf(t, r) # {}

Affected(t, q) == {r \in TopologyRoute : AffectedBy(t, q, r)}

\* A requirement that matches no route selects none; a change that affects none, all.
SelectRoutes(t, q) ==
    IF q.requirement              THEN Matched(q)
    ELSE IF Affected(t, q) # {}   THEN Affected(t, q)
    ELSE TopologyRoute

SelectedRoutes(t, q) ==
    IF q.filter = {} THEN SelectRoutes(t, q) ELSE SelectRoutes(t, q) \cap q.filter

-----------------------------------------------------------------------------
(* Risk.                                                                   *)

\* Without changed files no rule that names paths matches.
MatchesRule(t, q, r, rule) ==
    /\ AffectedBy(t, q, r)
    /\ rule.paths = {} \/ rule.paths \cap q.files # {}
    /\ rule.workflows = {} \/ r \in rule.workflows
    /\ rule.kinds = {} \/ rule.kinds \cap t.entry[r] # {}

NoRule == [level |-> 0, approval |-> FALSE]

Higher(rule, chosen) == rule.level > chosen.level

HighestRiskRule(t, q, r) ==
    LET Choose(chosen, rule) ==
            IF MatchesRule(t, q, r, rule) /\ Higher(rule, chosen) THEN rule ELSE chosen
    IN  FoldLeft(Choose, NoRule, q.rules)

RiskOf(t, q, r) ==
    LET level == HighestRiskRule(t, q, r).level
    IN  IF level = 0 THEN 1 ELSE level

\* The route's own review policy has the last word.
HumanApproval(t, q, r) ==
    CASE t.approval[r] = "asked"  -> TRUE
      [] t.approval[r] = "waived" -> FALSE
      [] OTHER                    -> HighestRiskRule(t, q, r).approval

-----------------------------------------------------------------------------
(* Dependencies.                                                           *)

ServiceDependencies(t, s) == t.dependsOn[s] \cup t.adapterDependsOn[s]

\* Mutant of Needs: a service is among those it depends on.
NeedsItself(t, r) == t.entry[r] \cup UNION {ServiceDependencies(t, s) : s \in t.entry[r]}

\* The services the entry services of a route depend on directly.
Needs(t, r) == UNION {ServiceDependencies(t, s) : s \in t.entry[r]}

\* The planned routes that provide one of them; never the route itself.
RouteDependencies(t, routes, r) ==
    {p \in routes \ {r} : t.entry[p] \cap Needs(t, r) # {}}

-----------------------------------------------------------------------------
(* The run.                                                                *)

Planned == planned # Unplanned

Plan ==
    /\ ~Planned
    /\ planned' = SelectedRoutes(topology, request)
    /\ UNCHANGED <<topology, request, accepted>>

Waiting(r) == RouteDependencies(topology, planned, r) \ accepted

\* A route starts when the evaluations it depends on are completed, and gets accepted.
AcceptRoute(r) ==
    /\ Planned
    /\ r \in planned \ accepted
    /\ Waiting(r) = {}
    /\ accepted' = accepted \cup {r}
    /\ UNCHANGED <<topology, request, planned>>

Next == Plan \/ \E r \in TopologyRoute : AcceptRoute(r)

Spec == Init /\ [][Next]_vars

-----------------------------------------------------------------------------
(* Properties.                                                             *)

\* docs/agent-orchestration-platform-design.md:179 - the plan is a DAG: as long as a
\* planned route is not accepted there is one that can start.
SomeRouteCanStart ==
    Planned /\ planned \ accepted # {} => \E r \in planned \ accepted : Waiting(r) = {}

\* A change is worked on by every route it touches, and by a route it does not touch only
\* when it touches none, or the route's files are not known.
ChangeReachesItsRoutes ==
    LET Touched(r) == \E s \in topology.entry[r] \cap topology.located : s \in request.files
        Unknown(r) == topology.entry[r] \cap topology.located = {}
    IN  Planned /\ request.files # {} /\ ~request.requirement /\ request.filter = {} =>
            /\ planned # {}
            /\ \A r \in TopologyRoute : Touched(r) \/ Unknown(r) => r \in planned
            /\ (\E r \in TopologyRoute : Touched(r)) =>
                   \A r \in planned : Touched(r) \/ Unknown(r)

\* The risk of a route is the level of some rule that matches it and of none that matches
\* less: the order of the rulebook cannot lower it, nor take a rule's approval away.
RiskIsTheHighestMatching ==
    Planned =>
        \A r \in planned :
            LET matching == {i \in DOMAIN request.rules :
                                MatchesRule(topology, request, r, request.rules[i])}
                risk == RiskOf(topology, request, r)
            IN  /\ matching = {} => risk = 1
                /\ \A i \in matching : request.rules[i].level =< risk
                /\ /\ topology.approval[r] = "unsaid"
                   /\ matching # {}
                   /\ \A i \in matching : request.rules[i].level = risk
                                              => request.rules[i].approval
                   => HumanApproval(topology, request, r)
=============================================================================
