-------------------------- MODULE TaskPlanningProofs --------------------------
(***************************************************************************)
(* Theorems about plans, for every topology, adapter and request.          *)
(***************************************************************************)
EXTENDS TaskPlanning, RecursionProofs

LEMMA SelectedAreRoutes ==
    ASSUME NEW t, NEW q
    PROVE  SelectedRoutes(t, q) \subseteq TopologyRoute
BY DEF SelectedRoutes, SelectRoutes, Matched, Affected

LEMMA StepPlanningType ==
    ASSUME PlanningTypeOK, [Next]_vars
    PROVE  PlanningTypeOK'
<1>1. CASE Plan
  BY <1>1, SelectedAreRoutes DEF Plan, PlanningTypeOK
<1>2. CASE \E r \in TopologyRoute : AcceptRoute(r)
  BY <1>2 DEF AcceptRoute, PlanningTypeOK
<1>3. CASE UNCHANGED vars
  BY <1>3 DEF vars, PlanningTypeOK
<1> QED
  BY <1>1, <1>2, <1>3 DEF Next

\* A plan is made of routes of the topology, and of nothing else.
THEOREM PlanTypeCorrect == Spec => []PlanningTypeOK
<1>1. Init => PlanningTypeOK
  BY DEF Init, PlanningTypeOK
<1>2. PlanningTypeOK /\ [Next]_vars => PlanningTypeOK'
  BY StepPlanningType
<1> QED
  BY <1>1, <1>2, PTL DEF Spec

-----------------------------------------------------------------------------
(* Routes that provide services can be ranked below those that need them.  *)

RanksRoutes(t, rank) ==
    \A p, r \in TopologyRoute :
        p # r /\ t.entry[p] \cap Needs(t, r) # {} => rank[p] < rank[r]

TopologyIsRanked ==
    \A t \in Topology : \E rank \in [TopologyRoute -> Nat] : RanksRoutes(t, rank)

LEMMA LeastRoute ==
    ASSUME NEW rank \in [TopologyRoute -> Nat], NEW R \in SUBSET TopologyRoute, R # {}
    PROVE  \E r \in R : \A p \in R : ~(rank[p] < rank[r])
<1> DEFINE ranks == {rank[r] : r \in R}
<1>1. ranks \in SUBSET Nat /\ ranks # {}
  OBVIOUS
<1>2. \A r \in R : rank[r] \in ranks
  OBVIOUS
<1>3. \A n \in ranks : \E r \in R : rank[r] = n
  OBVIOUS
<1> HIDE DEF ranks
<1>4. PICK n \in ranks : \A m \in ranks : n =< m
  BY <1>1, LeastNatural
<1>5. PICK r \in R : rank[r] = n
  BY <1>3, <1>4
<1>6. ASSUME NEW p \in R
      PROVE  ~(rank[p] < rank[r])
  BY <1>1, <1>2, <1>4, <1>5
<1> QED
  BY <1>6

LEMMA RankedPlanStarts ==
    ASSUME TopologyIsRanked, PlanningTypeOK
    PROVE  SomeRouteCanStart
<1> SUFFICES ASSUME Planned, planned \ accepted # {}
             PROVE  \E r \in planned \ accepted : Waiting(r) = {}
  BY DEF SomeRouteCanStart
<1>1. planned \ accepted \in SUBSET TopologyRoute /\ topology \in Topology
  BY DEF PlanningTypeOK, Planned
<1>2. PICK rank \in [TopologyRoute -> Nat] : RanksRoutes(topology, rank)
  BY <1>1 DEF TopologyIsRanked
<1>3. PICK r \in planned \ accepted : \A p \in planned \ accepted : ~(rank[p] < rank[r])
  BY <1>1, LeastRoute
<1>4. ASSUME NEW p \in Waiting(r)
      PROVE  FALSE
  <2>1. p \in planned \ accepted /\ p # r /\ topology.entry[p] \cap Needs(topology, r) # {}
    BY DEF Waiting, RouteDependencies
  <2>2. rank[p] < rank[r]
    BY <1>1, <1>2, <2>1 DEF RanksRoutes
  <2> QED
    BY <1>3, <2>1, <2>2
<1> QED
  BY <1>3, <1>4

\* If the services of every topology can be ranked, no plan drawn from it, however it is
\* selected and filtered, comes to a point where every route waits for another: only a
\* cycle among the routes' own services makes inferTaskPlanDependencies deadlock.
THEOREM RankedPlansNeverDeadlock ==
    ASSUME TopologyIsRanked
    PROVE  Spec => []SomeRouteCanStart
<1>1. PlanningTypeOK => SomeRouteCanStart
  BY RankedPlanStarts
<1> QED
  BY <1>1, PlanTypeCorrect, PTL

-----------------------------------------------------------------------------
(* Changes and routes.                                                     *)

PlannedAsSelected == Planned => planned = SelectedRoutes(topology, request)

LEMMA SelectedAreReached ==
    ASSUME TopologyRoute # {}, PlannedAsSelected
    PROVE  ChangeReachesItsRoutes
<1> DEFINE Touched(r) == \E s \in topology.entry[r] \cap topology.located : s \in request.files
           Unknown(r) == topology.entry[r] \cap topology.located = {}
<1> SUFFICES ASSUME Planned, request.files # {}, ~request.requirement, request.filter = {}
             PROVE  /\ planned # {}
                    /\ \A r \in TopologyRoute : Touched(r) \/ Unknown(r) => r \in planned
                    /\ (\E r \in TopologyRoute : Touched(r)) =>
                           \A r \in planned : Touched(r) \/ Unknown(r)
  BY Zenon DEF ChangeReachesItsRoutes
<1>1. planned = IF Affected(topology, request) # {}
                THEN Affected(topology, request) ELSE TopologyRoute
  BY DEF PlannedAsSelected, SelectedRoutes, SelectRoutes
<1>2. \A r \in TopologyRoute :
        r \in Affected(topology, request) <=> Touched(r) \/ Unknown(r)
  BY DEF Affected, AffectedBy, TargetsOf
<1>3. \A r \in Affected(topology, request) : r \in TopologyRoute
  BY DEF Affected
<1> HIDE DEF Touched, Unknown
<1> QED
  BY <1>1, <1>2, <1>3

\* Whatever the topology, a change is worked on by every route it touches, and by others
\* only when it touches none or their files are unknown (selectRoutes).
THEOREM ChangesReachTheirRoutes ==
    ASSUME TopologyRoute # {}
    PROVE  Spec => []ChangeReachesItsRoutes
<1>1. Init => PlannedAsSelected
  BY DEF Init, Planned, PlannedAsSelected
<1>2. PlannedAsSelected /\ [Next]_vars => PlannedAsSelected'
  BY DEF Next, Plan, AcceptRoute, vars, Planned, PlannedAsSelected
<1>3. PlannedAsSelected => ChangeReachesItsRoutes
  BY SelectedAreReached
<1> QED
  BY <1>1, <1>2, <1>3, PTL DEF Spec


-----------------------------------------------------------------------------
(* Risk.  While the rules are gone through, the one chosen is the highest  *)
(* of those that match among the rules seen so far.                        *)

\* The rule chosen among the first k.
Chosen(t, q, r, k, rule) ==
    LET matching == {i \in 1..k : MatchesRule(t, q, r, q.rules[i])}
    IN  /\ matching = {} => rule = NoRule
        /\ matching # {} => \E i \in matching : rule = q.rules[i]
        /\ \A i \in matching : q.rules[i].level =< rule.level

LEMMA ChosenType ==
    ASSUME NEW rule \in RiskRule \cup {NoRule}
    PROVE  rule.level \in Nat /\ (rule \in RiskRule => rule.level > 0)
BY DEF RiskRule, NoRule, RiskLevel

LEMMA ChosenNext ==
    ASSUME NEW t, NEW q, NEW r, q.rules \in Seq(RiskRule), NEW k \in 1..Len(q.rules),
           NEW rule \in RiskRule \cup {NoRule}, Chosen(t, q, r, k - 1, rule)
    PROVE  Chosen(t, q, r, k,
                  IF MatchesRule(t, q, r, q.rules[k]) /\ Higher(q.rules[k], rule)
                  THEN q.rules[k] ELSE rule)
<1> DEFINE new == q.rules[k]
           before == {i \in 1..(k - 1) : MatchesRule(t, q, r, q.rules[i])}
           matching == {i \in 1..k : MatchesRule(t, q, r, q.rules[i])}
<1>1. \A i \in 1..k : q.rules[i] \in RiskRule
  OBVIOUS
<1>2. rule.level \in Nat /\ new.level \in Nat /\ new.level > 0
      /\ \A i \in matching : q.rules[i].level \in Nat
  BY <1>1, ChosenType
<1>3. matching = IF MatchesRule(t, q, r, new) THEN before \cup {k} ELSE before
  OBVIOUS
<1>4. /\ before = {} => rule = NoRule
      /\ before # {} => \E i \in before : rule = q.rules[i]
      /\ \A i \in before : q.rules[i].level =< rule.level
  BY DEF Chosen
<1>5. before = {} => rule.level = 0
  BY <1>4 DEF NoRule
<1>6. CASE ~MatchesRule(t, q, r, new)
  BY <1>3, <1>4, <1>6 DEF Chosen
<1>7. CASE MatchesRule(t, q, r, new) /\ Higher(new, rule)
  <2>1. k \in matching /\ matching # {}
    BY <1>3, <1>7
  <2>2. ASSUME NEW i \in matching
        PROVE  q.rules[i].level =< new.level
    BY <1>2, <1>3, <1>4, <1>7, <2>2 DEF Higher
  <2> QED
    BY <1>7, <2>1, <2>2 DEF Chosen
<1>8. CASE MatchesRule(t, q, r, new) /\ ~Higher(new, rule)
  <2>1. before # {}
    BY <1>2, <1>5, <1>8 DEF Higher
  <2>2. \A i \in matching : q.rules[i].level =< rule.level
    BY <1>2, <1>3, <1>4, <1>8 DEF Higher
  <2>3. \E i \in matching : rule = q.rules[i]
    BY <1>3, <1>4, <2>1
  <2> QED
    BY <1>8, <2>1, <2>2, <2>3 DEF Chosen
<1> QED
  BY <1>6, <1>7, <1>8

\* The rule chosen in the end is the highest of all that match.
LEMMA HighestIsChosen ==
    ASSUME NEW t, NEW q, NEW r, q.rules \in Seq(RiskRule)
    PROVE  /\ HighestRiskRule(t, q, r) \in RiskRule \cup {NoRule}
           /\ Chosen(t, q, r, Len(q.rules), HighestRiskRule(t, q, r))
<1> DEFINE n == Len(q.rules)
           X == RiskRule \cup {NoRule}
           Choose(chosen, rule) ==
                IF MatchesRule(t, q, r, rule) /\ Higher(rule, chosen) THEN rule ELSE chosen
           step == [p \in X \X (1..n) |-> Choose(p[1], q.rules[p[2]])]
           Folds(iter) ==
                iter = [s \in SUBSET (DOMAIN q.rules) |->
                            IF s = {} THEN NoRule
                            ELSE Choose(iter[s \ {Max(s)}], q.rules[Max(s)])]
           it == CHOOSE iter : Folds(iter)
<1>1. n \in Nat /\ DOMAIN q.rules = 1..n /\ NoRule \in X
  OBVIOUS
<1>2. \A s : Max(s) = Greatest(s)
  BY DEF Max, Greatest
<1>3. step \in [X \X (1..n) -> X]
  OBVIOUS
<1>4. \A x \in X, k \in 1..n : step[<<x, k>>] = Choose(x, q.rules[k])
  OBVIOUS
<1>5. \E iter : iter \in [SUBSET (1..n) -> X] /\ Folds(iter)
  <2> HIDE DEF n, step, X, Choose, Folds, it
  <2>1. PICK iter : IsFold(iter, n, X, NoRule, step)
    BY <1>1, <1>3, FoldExists
  <2>2. ASSUME NEW s \in SUBSET (1..n), s # {}
        PROVE  iter[s] = Choose(iter[s \ {Max(s)}], q.rules[Max(s)])
    <3>1. Greatest(s) \in 1..n /\ s \ {Greatest(s)} \in SUBSET (1..n)
      BY <1>1, <2>2, GreatestIsIn
    <3> QED
      BY <1>2, <1>4, <2>1, <2>2, <3>1 DEF IsFold
  <2>3. Folds(iter)
    BY <1>1, <2>1, <2>2 DEF Folds, IsFold
  <2> QED
    BY <2>1, <2>3 DEF IsFold
<1> HIDE DEF step
<1>6. Folds(it)
  BY <1>5
<1>7. HighestRiskRule(t, q, r) = it[1..n]
  BY <1>1 DEF HighestRiskRule, FoldLeft, MapThenFoldSet
<1> HIDE DEF it
<1>8. /\ it[1..0] = NoRule
      /\ \A k \in 1..n : it[1..k] = Choose(it[1..(k - 1)], q.rules[k])
  <2>1. it[1..0] = NoRule
    BY <1>1, <1>6
  <2>2. ASSUME NEW k \in 1..n
        PROVE  it[1..k] = Choose(it[1..(k - 1)], q.rules[k])
    <3>1. /\ 1..k \in SUBSET (1..n) /\ 1..k # {}
          /\ Max(1..k) = k /\ (1..k) \ {k} = 1..(k - 1)
      BY <1>1, <1>2, InitialPieces
    <3> HIDE DEF Choose
    <3> QED
      BY <1>1, <1>6, <3>1
  <2> QED
    BY <2>1, <2>2
<1> DEFINE S == {k \in 0..n : it[1..k] \in X /\ Chosen(t, q, r, k, it[1..k])}
<1>9. 0 \in S
  BY <1>8 DEF Chosen
<1>10. ASSUME NEW k \in 1..n, k - 1 \in S
       PROVE  k \in S
  <2>1. it[1..(k - 1)] \in X /\ Chosen(t, q, r, k - 1, it[1..(k - 1)])
    BY <1>10
  <2>2. Chosen(t, q, r, k, it[1..k])
    BY <1>8, <2>1, ChosenNext
  <2>3. it[1..k] \in X
    BY <1>8, <2>1
  <2> QED
    BY <2>2, <2>3
<1> HIDE DEF S, n, X, Choose
<1>11. n \in S
  <2>1. n \in Nat
    BY <1>1
  <2>2. \A k \in 0..n : k \in S
    BY ONLY <2>1, <1>9, <1>10, IntervalInduction
  <2> QED
    BY <2>1, <2>2
<1> QED
  BY <1>7, <1>11 DEF S, n, X

LEMMA PlannedRiskIsHighest ==
    ASSUME PlanningTypeOK
    PROVE  RiskIsTheHighestMatching
<1> SUFFICES ASSUME NEW r \in planned
             PROVE  LET matching == {i \in DOMAIN request.rules :
                                        MatchesRule(topology, request, r, request.rules[i])}
                        risk == RiskOf(topology, request, r)
                    IN  /\ matching = {} => risk = 1
                        /\ \A i \in matching : request.rules[i].level =< risk
                        /\ /\ topology.approval[r] = "unsaid"
                           /\ matching # {}
                           /\ \A i \in matching : request.rules[i].level = risk
                                                      => request.rules[i].approval
                           => HumanApproval(topology, request, r)
  BY DEF RiskIsTheHighestMatching
<1> DEFINE n == Len(request.rules)
           matching == {i \in 1..n : MatchesRule(topology, request, r, request.rules[i])}
           rule == HighestRiskRule(topology, request, r)
           risk == RiskOf(topology, request, r)
<1>1. request.rules \in Seq(RiskRule)
  BY RequestAssumption DEF PlanningTypeOK
<1>2. DOMAIN request.rules = 1..n
  BY <1>1
<1>3. /\ rule \in RiskRule \cup {NoRule}
      /\ matching = {} => rule = NoRule
      /\ matching # {} => \E i \in matching : rule = request.rules[i]
      /\ \A i \in matching : request.rules[i].level =< rule.level
  BY <1>1, HighestIsChosen DEF Chosen
<1>4. \A i \in matching : request.rules[i] \in RiskRule
  BY <1>1
<1>5. risk = IF rule.level = 0 THEN 1 ELSE rule.level
  BY DEF RiskOf
<1> HIDE DEF rule, risk
<1>6. matching = {} => risk = 1
  BY <1>3, <1>5 DEF NoRule
<1>7. matching # {} => risk = rule.level
  BY <1>3, <1>4, <1>5, ChosenType
<1>8. \A i \in matching : request.rules[i].level =< risk
  BY <1>3, <1>7
<1>9. ASSUME topology.approval[r] = "unsaid", matching # {},
             \A i \in matching : request.rules[i].level = risk => request.rules[i].approval
      PROVE  HumanApproval(topology, request, r)
  <2>1. rule.approval
    BY <1>3, <1>7, <1>9
  <2> QED
    BY <1>9, <2>1 DEF HumanApproval, rule
<1> QED
  BY <1>2, <1>6, <1>8, <1>9 DEF risk

\* The risk of a route is the highest level of the rules that match it, and the approval is
\* that rule's (getHighestRiskRule), in whatever order the rulebook has them.
THEOREM RiskIsHighestOfRulebook == Spec => []RiskIsTheHighestMatching
<1>1. Init => PlanningTypeOK
  BY DEF Init, PlanningTypeOK
<1>2. PlanningTypeOK /\ [Next]_vars => PlanningTypeOK'
  BY StepPlanningType
<1>3. PlanningTypeOK => RiskIsTheHighestMatching
  BY PlannedRiskIsHighest
<1> QED
  BY <1>1, <1>2, <1>3, PTL DEF Spec
=============================================================================
