------------------------- MODULE TaskExecutionProofs -------------------------
(***************************************************************************)
(* Theorems about the execution of a claimed task, for every set of        *)
(* services, every dependency between them and every claim.                *)
(***************************************************************************)
EXTENDS TaskExecution, RecursionProofs, FiniteSetTheorems, SequenceTheorems

Phase == {"begin", "orchestrate", "commands", "running", "browser", "finally", "teardown",
          "report", "flush", "flush-catalog", "done", "failed"}

\* Up to the end of the try block, and after the finally block.
InTry == {"begin", "orchestrate", "commands", "running", "browser"}
Settling == {"report", "flush", "flush-catalog", "done", "failed"}

ArtifactKind == {"startup", "health", "log", "page", "capture", "teardown-log", "teardown",
                 "lifecycle", "report", "index"}
ArtifactId == (ArtifactKind \cup {"catalog"}) \X (Service \cup Nat)
Up == {"ready", "started"}

ExecutionTypeOK ==
    /\ task \in Claim
    /\ signal \in {"none", "timeout", "stopped"} /\ timedOut \in BOOLEAN
    /\ step \in {"enter", "checking", "waiting", "spawning", "thrown", "stopping"}
    /\ pos \in Nat /\ after \in BOOLEAN
    /\ running \in SUBSET Service
    /\ summary \in [Service -> {"none", "ready", "started", "failed"}]
    /\ managed \in Seq(Service)
    /\ phase \in Phase
    /\ commands \in Seq({"passed", "failed", "blocked"})
    /\ checked \in Seq({"passed", "failed", "skipped"})
    /\ required \in Nat /\ thrown \in BOOLEAN
    /\ result \in {"none", "completed", "failed", "blocked"}
    /\ phase \in {"begin", "orchestrate"} => pos > 0
    /\ phase = "teardown" => pos =< Len(managed)

\* What an abort leaves, and what needs one.
AbortInv ==
    /\ timedOut => Aborted
    /\ step = "thrown" => Aborted
    /\ \A i \in DOMAIN commands : commands[i] = "blocked" => Aborted

\* How far the execution is.
ProgressInv ==
    /\ thrown => phase \in {"finally", "teardown", "report", "failed"}
    /\ result # "none" => phase = "done"
    /\ phase \in {"begin", "orchestrate"} => commands = <<>>
    /\ phase = "orchestrate" => Automated
    /\ phase = "running" => Len(commands) < task.commands
    /\ phase = "browser" => Automated /\ Len(commands) = task.commands
    /\ phase \in InTry \ {"browser"} => checked = <<>> /\ required = 0
    /\ phase \in {"flush", "flush-catalog"} => Automated

\* Each service passed in the startup order is up, or there is a gap.
ServicesFound == gaps # {} \/ \A s \in Selected : summary[s] \in Up

ServicesInv ==
    /\ phase \in {"begin", "orchestrate"} =>
          \/ step = "thrown" \/ gaps # {}
          \/ \A i \in 1..Len(Order) : i < pos => summary[Order[i]] \in Up
    /\ phase \in {"commands", "running", "browser"} /\ Automated => ServicesFound

ChecksInv ==
    /\ Len(checked) =< Len(task.browser)
    /\ required = 0 => \A n \in 1..Len(checked) : task.browser[n].required => checked[n] = "passed"

\* When it leaves the try block it has done everything or has a reason.
Complete ==
    /\ Len(commands) = task.commands
    /\ Automated => ServicesFound /\ required = 0 /\ Len(checked) = Len(task.browser)

VerdictInv ==
    /\ phase \in {"finally", "teardown", "report", "flush", "flush-catalog"} =>
          thrown \/ NotPassed \/ Complete
    /\ CompletedMeansVerified

\* Who answers for a process that is alive.
NotStopped(s) == <<"service-teardown-failed", s>> \in gaps
Answered == \A s \in running : s \in Range(managed) \/ Aborted

ManagedInv ==
    /\ ~Automated => running = {} /\ managed = <<>>
    /\ phase = "begin" => running = {} /\ managed = <<>>
    /\ phase = "orchestrate" =>
          \A s \in running : \/ s \in Range(managed) \/ Aborted
                             \/ /\ after /\ pos =< Len(Order) /\ s = Current
                                /\ step \in {"enter", "checking", "waiting"}
    /\ phase # "orchestrate" => Answered

StoppedInv ==
    /\ phase = "teardown" =>
          \A j \in 1..Len(managed) : j > pos /\ managed[j] \in running => NotStopped(managed[j])
    /\ phase \in Settling =>
          \/ \A s \in Range(managed) : s \in running => NotStopped(s)
          \/ /\ ~ShouldTeardown(NotPassed)
             /\ task.policy = "on-failure" => result \notin {"failed", "blocked"}

StopsInv == ManagedInv /\ StoppedInv

\* The artifacts, from registration to upload.
EvidenceInv ==
    /\ stored \in Seq(ArtifactId) /\ IsInjective(stored)
    /\ DOMAIN upload = Range(stored)
    /\ evidence \in SUBSET Range(stored)
    /\ \A i \in 1..Len(commands) : <<"log", i>> \in Range(stored)
    /\ phase \notin {"flush-catalog", "done", "failed"} =>
          <<"catalog", 0>> \notin Range(stored) /\ catalog = <<>>
    /\ phase \in InTry \cup {"finally", "teardown", "report"} =>
          /\ sent = {} /\ index = {}
          /\ \A a \in DOMAIN upload : upload[a] # "uploaded"

UploadInv ==
    /\ phase = "flush" =>
          /\ flushing \in Seq(ArtifactId) /\ IsInjective(flushing)
          /\ Range(flushing) \subseteq Range(stored) \ sent
          /\ \A a \in DOMAIN upload : upload[a] = "uploaded" <=> a \in sent
    /\ phase = "flush-catalog" => flushing \in {<<>>, <<<<"catalog", 0>>>>}
    /\ storeMode # "remote" => sent = {}
    /\ phase # "failed" => index \subseteq Range(stored)
    /\ <<"catalog", 0>> \notin DOMAIN catalog
    /\ \A a \in DOMAIN catalog : catalog[a] = "uploaded" <=> a \in sent

-----------------------------------------------------------------------------
(* Lists.                                                                   *)

LEMMA AppendedRange ==
    ASSUME NEW S, NEW list \in Seq(S), NEW e \in S
    PROVE  /\ Append(list, e) \in Seq(S)
           /\ Range(Append(list, e)) = Range(list) \cup {e}
           /\ IsInjective(list) /\ e \notin Range(list) => IsInjective(Append(list, e))
<1> DEFINE new == Append(list, e)
<1>1. /\ new \in Seq(S) /\ Len(new) = Len(list) + 1 /\ Len(list) \in Nat
      /\ DOMAIN new = 1..(Len(list) + 1) /\ DOMAIN list = 1..Len(list)
      /\ \A i \in 1..Len(list) : new[i] = list[i]
      /\ new[Len(list) + 1] = e
  BY AppendProperties, LenProperties
<1> HIDE DEF new
<1>2. Range(new) = Range(list) \cup {e}
  BY <1>1 DEF Range
<1>3. ASSUME IsInjective(list), e \notin Range(list)
      PROVE  IsInjective(new)
  <2>1. ASSUME NEW i \in DOMAIN new, NEW j \in DOMAIN new, new[i] = new[j]
        PROVE  i = j
    <3>1. CASE i \in DOMAIN list /\ j \in DOMAIN list
      BY <1>1, <1>3, <2>1, <3>1 DEF IsInjective
    <3>2. CASE i \notin DOMAIN list /\ j \notin DOMAIN list
      BY <1>1, <3>2
    <3>3. CASE i \in DOMAIN list /\ j \notin DOMAIN list
      BY <1>1, <1>3, <2>1, <3>3 DEF Range
    <3>4. CASE i \notin DOMAIN list /\ j \in DOMAIN list
      BY <1>1, <1>3, <2>1, <3>4 DEF Range
    <3> QED
      BY <3>1, <3>2, <3>3, <3>4
  <2> QED
    BY <2>1 DEF IsInjective
<1> QED
  BY <1>1, <1>2, <1>3 DEF new

\* The elements up to an index, and one more.
LEMMA PieceGrows ==
    ASSUME NEW S, NEW list \in Seq(S), NEW k \in 1..Len(list)
    PROVE  /\ {list[i] : i \in 1..k} = {list[i] : i \in 1..(k - 1)} \cup {list[k]}
           /\ list[k] \in S
           /\ {list[i] : i \in 1..Len(list)} = Range(list)
           /\ {list[i] : i \in 1..0} = {}
<1>1. list[k] \in S /\ DOMAIN list = 1..Len(list)
  OBVIOUS
<1>2. \A i \in 1..k : i = k \/ i \in 1..(k - 1)
  OBVIOUS
<1>3. k \in 1..k /\ \A i \in 1..(k - 1) : i \in 1..k
  OBVIOUS
<1>4. {list[i] : i \in 1..k} = {list[i] : i \in 1..(k - 1)} \cup {list[k]}
  BY <1>2, <1>3
<1>5. {list[i] : i \in 1..0} = {}
  OBVIOUS
<1> QED
  BY <1>1, <1>4, <1>5 DEF Range

\* A filter keeps the elements that are in the set, and those only.
LEMMA FilteredRange ==
    ASSUME NEW S, NEW list \in Seq(S), NEW T
    PROVE  /\ Filtered(list, T) \in Seq(S)
           /\ Range(Filtered(list, T)) = Range(list) \cap T
<1> DEFINE n == Len(list)
           X == Seq(S)
           Keep(kept, e) == IF e \in T THEN Append(kept, e) ELSE kept
           grow == [p \in X \X (1..n) |-> Keep(p[1], list[p[2]])]
           Folds(iter) ==
                iter = [s \in SUBSET (DOMAIN list) |->
                            IF s = {} THEN <<>>
                            ELSE Keep(iter[s \ {Max(s)}], list[Max(s)])]
           it == CHOOSE iter : Folds(iter)
<1>1. n \in Nat /\ DOMAIN list = 1..n /\ <<>> \in X
  OBVIOUS
<1>2. \A s : Max(s) = Greatest(s)
  BY DEF Max, Greatest
<1>3. grow \in [X \X (1..n) -> X]
  <2>1. \A x \in X, k \in 1..n : Keep(x, list[k]) \in X
    OBVIOUS
  <2> HIDE DEF X
  <2> QED
    BY <2>1
<1>4. \A x \in X, k \in 1..n : grow[<<x, k>>] = Keep(x, list[k])
  OBVIOUS
<1>5. \E iter : iter \in [SUBSET (1..n) -> X] /\ Folds(iter)
  <2> HIDE DEF n, grow, X, Keep, Folds, it
  <2>1. PICK iter : IsFold(iter, n, X, <<>>, grow)
    BY <1>1, <1>3, FoldExists
  <2>2. ASSUME NEW s \in SUBSET (1..n), s # {}
        PROVE  iter[s] = Keep(iter[s \ {Max(s)}], list[Max(s)])
    <3>1. Greatest(s) \in 1..n /\ s \ {Greatest(s)} \in SUBSET (1..n)
      BY <1>1, <2>2, GreatestIsIn
    <3> QED
      BY <1>2, <1>4, <2>1, <2>2, <3>1 DEF IsFold
  <2>3. Folds(iter)
    BY <1>1, <2>1, <2>2 DEF Folds, IsFold
  <2> QED
    BY <2>1, <2>3 DEF IsFold
<1> HIDE DEF grow
<1>6. Folds(it)
  BY <1>5
<1>7. Filtered(list, T) = it[1..n]
  BY <1>1 DEF Filtered, FoldLeft, MapThenFoldSet
<1> HIDE DEF it
<1>8. /\ it[1..0] = <<>>
      /\ \A k \in 1..n : it[1..k] = Keep(it[1..(k - 1)], list[k])
  <2>1. it[1..0] = <<>>
    BY <1>1, <1>6
  <2>2. ASSUME NEW k \in 1..n
        PROVE  it[1..k] = Keep(it[1..(k - 1)], list[k])
    <3>1. /\ 1..k \in SUBSET (1..n) /\ 1..k # {}
          /\ Max(1..k) = k /\ (1..k) \ {k} = 1..(k - 1)
      BY <1>1, <1>2, InitialPieces
    <3> HIDE DEF Keep
    <3> QED
      BY <1>1, <1>6, <3>1
  <2> QED
    BY <2>1, <2>2
<1> DEFINE Right(k) == it[1..k] \in X /\ Range(it[1..k]) = {list[i] : i \in 1..k} \cap T
           P == {k \in 0..n : Right(k)}
<1>9. 0 \in P
  <2>1. Range(<<>>) = {} /\ {list[i] : i \in 1..0} = {}
    BY DEF Range
  <2>2. it[1..0] \in X /\ Range(it[1..0]) = {}
    BY <1>1, <1>8, <2>1
  <2>3. Right(0)
    BY <2>1, <2>2
  <2> HIDE DEF Right
  <2> QED
    BY <1>1, <2>3
<1>10. ASSUME NEW k \in 1..n, k - 1 \in P
       PROVE  k \in P
  <2>1. Right(k - 1)
    BY <1>10
  <2>2. list[k] \in S /\ {list[i] : i \in 1..k} = {list[i] : i \in 1..(k - 1)} \cup {list[k]}
    BY PieceGrows
  <2>3. CASE list[k] \in T
    <3>1. it[1..k] = Append(it[1..(k - 1)], list[k])
      BY <1>8, <2>3
    <3>2. it[1..k] \in X /\ Range(it[1..k]) = Range(it[1..(k - 1)]) \cup {list[k]}
      BY <2>1, <2>2, <3>1, AppendedRange
    <3> QED
      BY <2>1, <2>2, <2>3, <3>2
  <2>4. CASE list[k] \notin T
    BY <1>8, <2>1, <2>2, <2>4
  <2> QED
    BY <2>3, <2>4
<1> HIDE DEF n, X, Keep, P, Right
<1>11. n \in P
  <2>1. n \in Nat
    BY <1>1
  <2>2. \A k \in 0..n : k \in P
    BY ONLY <2>1, <1>9, <1>10, IntervalInduction
  <2> QED
    BY <2>1, <2>2
<1>12. {list[i] : i \in 1..n} = Range(list)
  BY <1>1 DEF Range
<1> QED
  BY <1>7, <1>11, <1>12 DEF P, Right, X

\* A Map holds each key once.
LEMMA SetAllKeys ==
    ASSUME NEW S, NEW keys \in Seq(S), NEW list \in Seq(S)
    PROVE  /\ SetAll(keys, list) \in Seq(S)
           /\ Range(SetAll(keys, list)) = Range(keys) \cup Range(list)
           /\ IsInjective(keys) => IsInjective(SetAll(keys, list))
<1> DEFINE n == Len(list)
           X == Seq(S)
           Set(map, a) == IF a \in Range(map) THEN map ELSE Append(map, a)
           grow == [p \in X \X (1..n) |-> Set(p[1], list[p[2]])]
           Folds(iter) ==
                iter = [s \in SUBSET (DOMAIN list) |->
                            IF s = {} THEN keys
                            ELSE Set(iter[s \ {Max(s)}], list[Max(s)])]
           it == CHOOSE iter : Folds(iter)
<1>1. n \in Nat /\ DOMAIN list = 1..n /\ keys \in X
  OBVIOUS
<1>2. \A s : Max(s) = Greatest(s)
  BY DEF Max, Greatest
<1>3. grow \in [X \X (1..n) -> X]
  <2>1. \A x \in X, k \in 1..n : Set(x, list[k]) \in X
    OBVIOUS
  <2> HIDE DEF X
  <2> QED
    BY <2>1
<1>4. \A x \in X, k \in 1..n : grow[<<x, k>>] = Set(x, list[k])
  OBVIOUS
<1>5. \E iter : iter \in [SUBSET (1..n) -> X] /\ Folds(iter)
  <2> HIDE DEF n, grow, X, Set, Folds, it
  <2>1. PICK iter : IsFold(iter, n, X, keys, grow)
    BY <1>1, <1>3, FoldExists
  <2>2. ASSUME NEW s \in SUBSET (1..n), s # {}
        PROVE  iter[s] = Set(iter[s \ {Max(s)}], list[Max(s)])
    <3>1. Greatest(s) \in 1..n /\ s \ {Greatest(s)} \in SUBSET (1..n)
      BY <1>1, <2>2, GreatestIsIn
    <3> QED
      BY <1>2, <1>4, <2>1, <2>2, <3>1 DEF IsFold
  <2>3. Folds(iter)
    BY <1>1, <2>1, <2>2 DEF Folds, IsFold
  <2> QED
    BY <2>1, <2>3 DEF IsFold
<1> HIDE DEF grow
<1>6. Folds(it)
  BY <1>5
<1>7. SetAll(keys, list) = it[1..n]
  BY <1>1 DEF SetAll, FoldLeft, MapThenFoldSet
<1> HIDE DEF it
<1>8. /\ it[1..0] = keys
      /\ \A k \in 1..n : it[1..k] = Set(it[1..(k - 1)], list[k])
  <2>1. it[1..0] = keys
    BY <1>1, <1>6
  <2>2. ASSUME NEW k \in 1..n
        PROVE  it[1..k] = Set(it[1..(k - 1)], list[k])
    <3>1. /\ 1..k \in SUBSET (1..n) /\ 1..k # {}
          /\ Max(1..k) = k /\ (1..k) \ {k} = 1..(k - 1)
      BY <1>1, <1>2, InitialPieces
    <3> HIDE DEF Set
    <3> QED
      BY <1>1, <1>6, <3>1
  <2> QED
    BY <2>1, <2>2
<1> DEFINE Right(k) ==
                /\ it[1..k] \in X
                /\ Range(it[1..k]) = Range(keys) \cup {list[i] : i \in 1..k}
                /\ IsInjective(keys) => IsInjective(it[1..k])
           P == {k \in 0..n : Right(k)}
<1>9. 0 \in P
  <2>1. {list[i] : i \in 1..0} = {}
    OBVIOUS
  <2>2. Right(0)
    BY <1>1, <1>8, <2>1
  <2> HIDE DEF Right
  <2> QED
    BY <1>1, <2>2
<1>10. ASSUME NEW k \in 1..n, k - 1 \in P
       PROVE  k \in P
  <2>1. Right(k - 1)
    BY <1>10
  <2>2. list[k] \in S /\ {list[i] : i \in 1..k} = {list[i] : i \in 1..(k - 1)} \cup {list[k]}
    BY PieceGrows
  <2>3. CASE list[k] \notin Range(it[1..(k - 1)])
    <3>1. it[1..k] = Append(it[1..(k - 1)], list[k])
      BY <1>8, <2>3
    <3>2. /\ it[1..k] \in X
          /\ Range(it[1..k]) = Range(it[1..(k - 1)]) \cup {list[k]}
          /\ IsInjective(keys) => IsInjective(it[1..k])
      BY <2>1, <2>2, <2>3, <3>1, AppendedRange
    <3> QED
      BY <2>1, <2>2, <3>2
  <2>4. CASE list[k] \in Range(it[1..(k - 1)])
    <3>1. it[1..k] = it[1..(k - 1)]
      BY <1>8, <2>4
    <3> QED
      BY <2>1, <2>2, <2>4, <3>1
  <2> QED
    BY <2>3, <2>4
<1> HIDE DEF n, X, Set, P, Right
<1>11. n \in P
  <2>1. n \in Nat
    BY <1>1
  <2>2. \A k \in 0..n : k \in P
    BY ONLY <2>1, <1>9, <1>10, IntervalInduction
  <2> QED
    BY <2>1, <2>2
<1>12. {list[i] : i \in 1..n} = Range(list)
  BY <1>1 DEF Range
<1> QED
  BY <1>7, <1>11, <1>12 DEF P, Right, X

-----------------------------------------------------------------------------
(* The services, and their order.                                           *)

LEMMA ServicesAreFinite == Cardinality(Service) \in Nat
<1>1. Alphabetical \in Seq(Service) /\ Range(Alphabetical) = Service
  BY ServiceAssumption
<1>2. Alphabetical \in Surjection(1..Len(Alphabetical), Service)
  BY <1>1 DEF Surjection, Range
<1>3. IsFiniteSet(1..Len(Alphabetical))
  BY <1>1, FS_Interval
<1> QED
  BY <1>2, <1>3, FS_Surjection, FS_CardinalityType

\* What is collected are services, and nothing comes of nothing.
LEMMA CollectedServices ==
    ASSUME NEW E \in SUBSET Service
    PROVE  /\ CollectDependencies(E) \in SUBSET Service
           /\ E = {} => CollectDependencies(E) = {}
<1> DEFINE n == Cardinality(Service)
           X == SUBSET Service
           Joined(R) == R \cup UNION {DependsOn[s] : s \in R}
           grow == [p \in X \X (1..n) |-> Joined(p[1])]
           Recurs(g) == g = [k \in 0..n |-> IF k = 0 THEN E ELSE Joined(g[k - 1])]
           reached == CHOOSE g : Recurs(g)
<1>1. n \in Nat
  BY ServicesAreFinite
<1>2. \A R \in X : Joined(R) \in X
  BY ServiceAssumption
<1>3. grow \in [X \X (1..n) -> X] /\ \A R \in X, k \in 1..n : grow[<<R, k>>] = Joined(R)
  <2> HIDE DEF Joined, X, n
  <2> QED
    BY <1>2
<1>4. \E g : Recurs(g)
  <2> HIDE DEF Joined, X, n, grow
  <2>0. E \in X
    BY DEF X
  <2>1. PICK g : IsRecursion(g, n, X, E, grow)
    BY <1>1, <1>3, <2>0, RecursionExists
  <2>2. ASSUME NEW k \in 0..n
        PROVE  g[k] = IF k = 0 THEN E ELSE Joined(g[k - 1])
    <3>1. CASE k = 0
      BY <2>1, <3>1 DEF IsRecursion
    <3>2. CASE k # 0
      <4>1. k \in 1..n /\ k - 1 \in 0..n
        BY <1>1, <3>2
      <4>2. g[k] = grow[<<g[k - 1], k>>] /\ g[k - 1] \in X
        BY <2>1, <4>1 DEF IsRecursion
      <4> QED
        BY <1>3, <3>2, <4>1, <4>2
    <3> QED
      BY <3>1, <3>2
  <2>3. Recurs(g)
    BY <2>1, <2>2 DEF IsRecursion
  <2> HIDE DEF Recurs
  <2> QED
    BY <2>3
<1>5. CollectDependencies(E) = reached[n]
  BY DEF CollectDependencies
<1>6. Recurs(reached)
  BY <1>4
<1> HIDE DEF reached
<1> DEFINE P == {k \in 0..n : reached[k] \in X /\ (E = {} => reached[k] = {})}
<1>7. 0 \in P
  BY <1>1, <1>6
<1>8. ASSUME NEW k \in 1..n, k - 1 \in P
      PROVE  k \in P
  <2>1. reached[k - 1] \in X /\ (E = {} => reached[k - 1] = {})
    BY <1>8
  <2>2. k \in 0..n /\ reached[k] = Joined(reached[k - 1])
    BY <1>1, <1>6
  <2>3. reached[k] \in X
    BY <1>2, <2>1, <2>2
  <2>4. E = {} => reached[k] = {}
    BY <2>1, <2>2
  <2> QED
    BY <2>2, <2>3, <2>4
<1> HIDE DEF P, n
<1>9. \A k \in 0..n : k \in P
  BY ONLY <1>1, <1>7, <1>8, IntervalInduction
<1> QED
  BY <1>1, <1>5, <1>9 DEF P

\* The startup order names the selected services, and no others.
LEMMA OrderedServices ==
    ASSUME NEW T \in SUBSET Service
    PROVE  /\ GetStartupOrder(T) \in Seq(Service)
           /\ Range(GetStartupOrder(T)) = T
<1> DEFINE ordered == Filtered(StartupOrder, T)
           others == Filtered(Alphabetical, T \ Range(ordered))
<1>1. ordered \in Seq(Service) /\ Range(ordered) = Range(StartupOrder) \cap T
  BY FilteredRange, ServiceAssumption
<1>2. others \in Seq(Service) /\ Range(others) = Service \cap (T \ Range(ordered))
  BY FilteredRange, ServiceAssumption
<1>3. GetStartupOrder(T) = ordered \o others
  BY DEF GetStartupOrder
<1> HIDE DEF ordered, others
<1>4. Range(ordered \o others) = Range(ordered) \cup Range(others)
  BY <1>1, <1>2, RangeConcatenation
<1>5. ordered \o others \in Seq(Service)
  BY <1>1, <1>2, ConcatProperties
<1> QED
  BY <1>1, <1>2, <1>3, <1>4, <1>5

LEMMA OrderOfClaim ==
    ASSUME task \in Claim
    PROVE  /\ Selected \in SUBSET Service
           /\ task.entries = {} => Selected = {}
           /\ Order \in Seq(Service) /\ Range(Order) = Selected
<1>1. task.entries \in SUBSET Service
  BY DEF Claim
<1>2. Selected \in SUBSET Service /\ (task.entries = {} => Selected = {})
  BY <1>1, CollectedServices DEF Selected
<1> QED
  BY <1>2, OrderedServices DEF Order

LEMMA OrderStays ==
    ASSUME UNCHANGED task
    PROVE  Order' = Order /\ Selected' = Selected
<1>1. Selected' = Selected
  BY DEF Selected
<1> QED
  BY <1>1 DEF Order

\* What one step of runServiceOrchestration comes to.
Probing == {"enter", "checking", "waiting"}

Polls ==
    /\ step \in Probing /\ step' \in Probing
    /\ UNCHANGED <<pos, after, running, summary, managed, gaps>>
TurnsToStart ==
    /\ ~after /\ step' = "spawning"
    /\ UNCHANGED <<pos, after, running, summary, managed, gaps>>
Records(status) ==
    /\ summary' = [summary EXCEPT ![Current] = status]
    /\ pos' = pos + 1 /\ step' = "enter" /\ after' = FALSE
    /\ gaps \subseteq gaps'
    /\ status = "failed" => gaps' # {}
    /\ UNCHANGED running
PassesHealthy == ~after /\ Records("ready") /\ UNCHANGED managed
PassesFailed ==
    /\ ~after \/ Aborted \/ step = "spawning"
    /\ Records("failed")
    /\ UNCHANGED managed
PassesStarted ==
    /\ after
    /\ Records("started") \/ Records("failed")
    /\ managed' = Append(managed, Current)
Spawns ==
    /\ step = "spawning" /\ step' = "enter" /\ after' = TRUE
    /\ running' = running \cup {Current}
    /\ UNCHANGED <<pos, summary, managed, gaps>>

LEMMA RecordedMoves ==
    ASSUME NEW status, NEW codes, Recorded(status, codes), UNCHANGED running,
           status = "failed" => \E c : c \in codes
    PROVE  Records(status)
<1>1. gaps' = gaps \cup {<<c, Current>> : c \in codes}
  BY DEF Recorded
<1>2. gaps \subseteq gaps' /\ (status = "failed" => gaps' # {})
  BY <1>1
<1> QED
  BY <1>2 DEF Recorded, NextService, Records

LEMMA StartedMoves ==
    ASSUME NEW healthy \in BOOLEAN, Started(healthy)
    PROVE  /\ Records("started") \/ Records("failed")
           /\ managed' = Append(managed, Current)
<1>1. CASE healthy
  <2>1. Recorded("started", {}) /\ UNCHANGED running
    BY <1>1 DEF Started
  <2> QED
    BY <2>1, RecordedMoves DEF Started
<1>2. CASE ~healthy
  <2>1. Recorded("failed", {"service-health-check-failed"}) /\ UNCHANGED running
    BY <1>2 DEF Started
  <2>2. Records("failed")
    BY <2>1, RecordedMoves
  <2> QED
    BY <2>2 DEF Started
<1> QED
  BY <1>1, <1>2

LEMMA StartFailedMoves ==
    ASSUME StartFailed
    PROVE  Records("failed") /\ UNCHANGED managed
<1>1. Recorded("failed", {"service-start-command-failed"}) /\ UNCHANGED running
  BY DEF StartFailed
<1>2. Records("failed")
  BY <1>1, RecordedMoves
<1> QED
  BY <1>2 DEF StartFailed

LEMMA WaitReturnMoves ==
    ASSUME NEW healthy \in BOOLEAN, after \in BOOLEAN, WaitReturns(healthy)
    PROVE  PassesStarted \/ PassesHealthy \/ PassesFailed \/ TurnsToStart
<1>1. CASE after
  BY <1>1, StartedMoves DEF WaitReturns, PassesStarted
<1>2. CASE ~after /\ healthy
  <2>1. Recorded("ready", {}) /\ UNCHANGED <<running, managed>>
    BY <1>2 DEF WaitReturns, AlreadyHealthy
  <2>2. Records("ready")
    BY <2>1, RecordedMoves
  <2> QED
    BY <1>2, <2>1, <2>2 DEF PassesHealthy
<1>3. CASE ~after /\ NoStartCommand
  <2>1. Recorded("failed", {"service-start-command-missing"}) /\ UNCHANGED <<running, managed>>
    BY <1>3 DEF NoStartCommand
  <2>2. Records("failed")
    BY <2>1, RecordedMoves
  <2> QED
    BY <1>3, <2>1, <2>2 DEF PassesFailed
<1>4. CASE ~after /\ GoesToStart
  BY <1>4 DEF GoesToStart, TurnsToStart
<1> QED
  BY <1>1, <1>2, <1>3, <1>4 DEF WaitReturns

LEMMA WaitThrowMoves ==
    ASSUME Aborted, WaitThrows
    PROVE  PassesFailed \/ OrchestrationLost
BY StartFailedMoves DEF WaitThrows, PassesFailed

LEMMA OrchestrateMoves ==
    ASSUME ExecutionTypeOK, Orchestrate
    PROVE  /\ pos =< Len(Order)
           /\ step \in Probing \cup {"spawning"}
           /\ \/ Polls \/ TurnsToStart \/ PassesHealthy \/ PassesFailed \/ PassesStarted \/ Spawns
              \/ Aborted /\ OrchestrationLost
<1>0. after \in BOOLEAN
  BY DEF ExecutionTypeOK
<1>1. CASE EnterWait
  BY <1>0, <1>1, WaitReturnMoves, WaitThrowMoves DEF EnterWait, AtService, Polls, Probing
<1>2. CASE CheckHealth
  BY <1>0, <1>2, WaitReturnMoves, WaitThrowMoves DEF CheckHealth, AtService, Polls, Probing
<1>3. CASE PollAgain
  BY <1>3 DEF PollAgain, AtService, Polls, Probing
<1>4. CASE DeadlinePasses
  BY <1>0, <1>4, WaitReturnMoves DEF DeadlinePasses, AtService, Probing
<1>5. CASE WaitAborted
  BY <1>5, WaitThrowMoves DEF WaitAborted, AtService, Probing
<1>6. CASE StartServiceProcess
  BY <1>6, StartFailedMoves DEF StartServiceProcess, AtService, Spawns, PassesFailed
<1> QED
  BY <1>1, <1>2, <1>3, <1>4, <1>5, <1>6 DEF Orchestrate

-----------------------------------------------------------------------------
(* Types.                                                                   *)

LEMMA ServiceAtHand ==
    ASSUME task \in Claim, pos \in Nat, pos > 0, pos =< Len(Order)
    PROVE  Current \in Service
<1>1. Order \in Seq(Service) /\ pos \in 1..Len(Order)
  BY OrderOfClaim
<1> QED
  BY <1>1, ElementOfSeq DEF Current

LEMMA OrchestrationKeeps ==
    ASSUME OrchestrateServices
    PROVE  /\ Orchestrate
           /\ phase = "orchestrate" /\ phase' = "orchestrate"
           /\ task' = task /\ signal' = signal /\ timedOut' = timedOut
           /\ commands' = commands /\ checked' = checked /\ required' = required
           /\ thrown' = thrown /\ result' = result
BY DEF OrchestrateServices, taskVars, guardVars

LEMMA RecordsType ==
    ASSUME ExecutionTypeOK, NEW status \in {"ready", "started", "failed"}, Records(status)
    PROVE  /\ summary' \in [Service -> {"none", "ready", "started", "failed"}]
           /\ pos' \in Nat /\ pos' > 0 /\ after' \in BOOLEAN /\ step' \in Probing
           /\ running' \in SUBSET Service
<1>1. summary \in [Service -> {"none", "ready", "started", "failed"}] /\ pos \in Nat
  BY DEF ExecutionTypeOK
<1>2. summary' = [summary EXCEPT ![Current] = status]
  BY DEF Records
<1>3. summary' \in [Service -> {"none", "ready", "started", "failed"}]
  BY <1>1, <1>2
<1>4. pos' = pos + 1 /\ after' = FALSE /\ step' = "enter" /\ running' = running
  BY DEF Records
<1>5. running \in SUBSET Service
  BY DEF ExecutionTypeOK
<1>6. pos' \in Nat /\ pos' > 0
  BY <1>1, <1>4
<1>7. after' \in BOOLEAN
  BY <1>4, Zenon
<1>8. step' \in Probing
  BY <1>4 DEF Probing
<1>9. running' \in SUBSET Service
  BY <1>4, <1>5
<1> QED
  BY <1>3, <1>6, <1>7, <1>8, <1>9

LEMMA StepTypeOrchestrate ==
    ASSUME ExecutionTypeOK, OrchestrateServices
    PROVE  ExecutionTypeOK'
<1>1. pos > 0 /\ task \in Claim /\ pos \in Nat
  BY OrchestrationKeeps DEF ExecutionTypeOK
<1>2. Current \in Service
  BY <1>1, OrchestrationKeeps, OrchestrateMoves, ServiceAtHand
<1>3. /\ step' \in Probing \cup {"spawning", "thrown"}
      /\ pos' \in Nat /\ pos' > 0 /\ after' \in BOOLEAN
      /\ running' \in SUBSET Service
      /\ summary' \in [Service -> {"none", "ready", "started", "failed"}]
      /\ managed' \in Seq(Service)
  <2>1. CASE Polls \/ TurnsToStart
    BY <1>1, <2>1 DEF ExecutionTypeOK, Polls, TurnsToStart, Probing
  <2>2. CASE PassesHealthy
    BY <2>2, RecordsType DEF ExecutionTypeOK, PassesHealthy
  <2>3. CASE PassesFailed
    BY <2>3, RecordsType DEF ExecutionTypeOK, PassesFailed
  <2>4. CASE PassesStarted
    <3>1. managed' \in Seq(Service)
      BY <1>2, <2>4 DEF ExecutionTypeOK, PassesStarted
    <3> QED
      BY <2>4, <3>1, RecordsType DEF PassesStarted
  <2>5. CASE Spawns
    BY <1>1, <1>2, <2>5 DEF ExecutionTypeOK, Spawns, Probing
  <2>6. CASE OrchestrationLost
    BY <1>1, <2>6 DEF ExecutionTypeOK, OrchestrationLost
  <2> QED
    BY <2>1, <2>2, <2>3, <2>4, <2>5, <2>6, OrchestrateMoves, OrchestrationKeeps
<1> QED
  BY <1>3, OrchestrationKeeps DEF ExecutionTypeOK, Probing

LEMMA CatchTypes ==
    ASSUME ExecutionTypeOK, CatchAbort \/ CatchOther
    PROVE  /\ commands' \in Seq({"passed", "failed", "blocked"})
           /\ thrown' \in BOOLEAN /\ phase' = "finally"
<1>1. commands \in Seq({"passed", "failed", "blocked"}) /\ thrown \in BOOLEAN
  BY DEF ExecutionTypeOK
<1>2. Append(commands, "blocked") \in Seq({"passed", "failed", "blocked"})
  BY <1>1
<1> QED
  BY <1>1, <1>2 DEF CatchAbort, CatchOther

LEMMA OutcomeStatus ==
    ASSUME NEW b, NEW n, NEW o \in CheckOutcomes(b, n)
    PROVE  o.status \in {"passed", "failed", "skipped"}
<1>1. CASE ~b.target
  BY <1>1 DEF CheckOutcomes
<1>2. CASE b.target
  BY <1>2 DEF CheckOutcomes
<1> QED
  BY <1>1, <1>2

LEMMA StepType ==
    ASSUME ExecutionTypeOK, [ExecutionNext]_vars
    PROVE  ExecutionTypeOK'
<1> USE DEF Phase
<1>0. CASE UNCHANGED vars
  BY <1>0 DEF ExecutionTypeOK, vars, taskVars, guardVars, serviceVars, executionVars
<1>1. CASE Begin
  BY <1>1 DEF ExecutionTypeOK, Begin, taskVars, guardVars, serviceVars
<1>2. CASE OrchestrateServices
  BY <1>2, StepTypeOrchestrate
<1>3. CASE ServicesUp
  BY <1>3 DEF ExecutionTypeOK, ServicesUp, taskVars, guardVars, serviceVars
<1>4. CASE OrchestrationThrows \/ CommandAborted \/ CommandErrs \/ CheckUrlThrows
  BY <1>4, CatchTypes
  DEF ExecutionTypeOK, OrchestrationThrows, CommandAborted, CommandErrs, CheckUrlThrows,
      taskVars, guardVars, serviceVars
<1>5. CASE NextCommand
  <2>1. CASE Aborted
    BY <1>5, <2>1, CatchTypes DEF ExecutionTypeOK, NextCommand, taskVars, guardVars, serviceVars
  <2>2. CASE ~Aborted
    BY <1>5, <2>2 DEF ExecutionTypeOK, NextCommand, taskVars, guardVars, serviceVars
  <2> QED
    BY <2>1, <2>2
<1>6. CASE CommandsRun
  BY <1>6 DEF ExecutionTypeOK, CommandsRun, taskVars, guardVars, serviceVars
<1>7. CASE RunBrowserCheck
  <2> DEFINE n == Len(checked) + 1
             b == task.browser[n]
  <2>1. PICK o \in CheckOutcomes(b, n) :
            /\ checked' = Append(checked, o.status)
            /\ required' = required + (IF RequiredFailure(b, o.status) THEN 1 ELSE 0)
    BY <1>7 DEF RunBrowserCheck
  <2>2. o.status \in {"passed", "failed", "skipped"}
    BY OutcomeStatus
  <2>3. checked' \in Seq({"passed", "failed", "skipped"})
    BY <2>1, <2>2 DEF ExecutionTypeOK
  <2>4. required' \in Nat
    BY <2>1 DEF ExecutionTypeOK
  <2> QED
    BY <1>7, <2>3, <2>4 DEF ExecutionTypeOK, RunBrowserCheck, taskVars, guardVars
<1>8. CASE BrowserChecked
  <2>1. commands' \in Seq({"passed", "failed", "blocked"})
    <3>1. commands' = commands \/ commands' = Append(commands, "failed")
      BY <1>8 DEF BrowserChecked
    <3> QED
      BY <3>1 DEF ExecutionTypeOK
  <2> QED
    BY <1>8, <2>1 DEF ExecutionTypeOK, BrowserChecked, taskVars, guardVars, serviceVars
<1>9. CASE Finally
  BY <1>9 DEF ExecutionTypeOK, Finally, taskVars, guardVars
<1>10. CASE TearDown
  BY <1>10 DEF ExecutionTypeOK, TearDown, TearDownService, taskVars, guardVars
<1>11. CASE TornDown
  BY <1>11 DEF ExecutionTypeOK, TornDown, taskVars, guardVars, serviceVars
<1>12. CASE Report
  BY <1>12 DEF ExecutionTypeOK, Report, PreparationStatus, taskVars, guardVars, serviceVars
<1>13. CASE Flush
  BY <1>13 DEF ExecutionTypeOK, Flush, FlushStep, taskVars, guardVars, serviceVars, executionVars
<1>14. CASE WriteCatalog
  BY <1>14 DEF ExecutionTypeOK, WriteCatalog, taskVars, guardVars, serviceVars
<1>15. CASE Return
  BY <1>15 DEF ExecutionTypeOK, Return, ResultStatus, taskVars, guardVars, serviceVars
<1>16. ASSUME NEW status \in {"passed", "failed"}, CommandCloses(status)
       PROVE  ExecutionTypeOK'
  BY <1>16 DEF ExecutionTypeOK, CommandCloses, taskVars, guardVars, serviceVars
<1>17. CASE GuardFires
  <2>1. signal' \in {"none", "timeout", "stopped"} /\ timedOut' \in BOOLEAN
    BY <1>17 DEF ExecutionTypeOK, GuardFires, GuardTimeout, OnParentAbort
  <2>2. UNCHANGED <<taskVars, serviceVars, executionVars>>
    BY <1>17 DEF GuardFires
  <2> QED
    BY <2>1, <2>2 DEF ExecutionTypeOK, taskVars, serviceVars, executionVars
<1>18. CASE ProcessDies
  BY <1>18 DEF ExecutionTypeOK, ProcessDies, ServiceDies, taskVars, guardVars, executionVars
<1>19. CASE FlushThrows
  BY <1>19 DEF ExecutionTypeOK, FlushThrows, taskVars, guardVars, serviceVars
<1> QED
  BY <1>0, <1>1, <1>2, <1>3, <1>4, <1>5, <1>6, <1>7, <1>8, <1>9, <1>10, <1>11, <1>12, <1>13,
     <1>14, <1>15, <1>16, <1>17, <1>18, <1>19 DEF ExecutionNext, Executor

-----------------------------------------------------------------------------
(* Aborts, and how far the execution is.                                    *)

LEMMA OneMoreCommand ==
    ASSUME ExecutionTypeOK, NEW status \in {"passed", "failed", "blocked"}
    PROVE  /\ Append(commands, status) \in Seq({"passed", "failed", "blocked"})
           /\ Len(Append(commands, status)) = Len(commands) + 1
           /\ DOMAIN Append(commands, status) = DOMAIN commands \cup {Len(commands) + 1}
           /\ \A i \in DOMAIN commands : Append(commands, status)[i] = commands[i]
           /\ Append(commands, status)[Len(commands) + 1] = status
<1>1. commands \in Seq({"passed", "failed", "blocked"})
  BY DEF ExecutionTypeOK
<1> QED
  BY <1>1

LEMMA AbortFrame ==
    ASSUME ExecutionTypeOK, AbortInv, UNCHANGED guardVars,
           step' = "thrown" => step = "thrown" \/ Aborted,
           \/ UNCHANGED commands
           \/ \E status \in {"passed", "failed", "blocked"} :
                 /\ commands' = Append(commands, status)
                 /\ status = "blocked" => Aborted
    PROVE  AbortInv'
<1>1. Aborted' = Aborted /\ timedOut' = timedOut
  BY DEF guardVars, Aborted
<1>2. ASSUME NEW i \in DOMAIN commands', commands'[i] = "blocked"
      PROVE  Aborted
  BY <1>2, OneMoreCommand DEF AbortInv
<1> QED
  BY <1>1, <1>2 DEF AbortInv

LEMMA StepAbort ==
    ASSUME ExecutionTypeOK, AbortInv, [ExecutionNext]_vars
    PROVE  AbortInv'
<1>1. CASE OrchestrateServices
  <2>1. step' = "thrown" => Aborted
    BY <1>1, OrchestrateMoves, OrchestrationKeeps
    DEF Polls, TurnsToStart, PassesHealthy, PassesFailed, PassesStarted, Records, Spawns, Probing
  <2> QED
    BY <1>1, <2>1, OrchestrationKeeps, AbortFrame DEF guardVars
<1>2. CASE OrchestrationThrows
  <2>1. UNCHANGED <<guardVars, step>>
    BY <1>2 DEF OrchestrationThrows, serviceVars
  <2>2. UNCHANGED commands \/ (commands' = Append(commands, "blocked") /\ Aborted)
    BY <1>2 DEF OrchestrationThrows, CatchAbort, CatchOther, Aborted
  <2> QED
    BY <2>1, <2>2, AbortFrame
<1>3. CASE NextCommand \/ CommandAborted \/ CommandErrs \/ CheckUrlThrows
  <2>1. UNCHANGED <<guardVars, step>>
    BY <1>3 DEF NextCommand, CommandAborted, CommandErrs, CheckUrlThrows, serviceVars
  <2>2. UNCHANGED commands \/ (commands' = Append(commands, "blocked") /\ Aborted)
    BY <1>3 DEF NextCommand, CommandAborted, CommandErrs, CheckUrlThrows, CatchAbort, CatchOther
  <2> QED
    BY <2>1, <2>2, AbortFrame
<1>4. ASSUME NEW status \in {"passed", "failed"}, CommandCloses(status)
      PROVE  AbortInv'
  <2>1. UNCHANGED <<guardVars, step>> /\ commands' = Append(commands, status)
    BY <1>4 DEF CommandCloses, serviceVars
  <2> QED
    BY <2>1, AbortFrame
<1>5. CASE BrowserChecked
  <2>1. UNCHANGED <<guardVars, step>>
    BY <1>5 DEF BrowserChecked, serviceVars
  <2>2. UNCHANGED commands \/ commands' = Append(commands, "failed")
    BY <1>5 DEF BrowserChecked
  <2> QED
    BY <2>1, <2>2, AbortFrame
<1>6. CASE \/ UNCHANGED vars \/ Begin \/ ServicesUp \/ CommandsRun \/ RunBrowserCheck \/ TornDown
           \/ Report \/ Flush \/ WriteCatalog \/ Return \/ FlushThrows \/ ProcessDies
  <2>1. UNCHANGED <<guardVars, step, commands>>
    BY <1>6
    DEF vars, Begin, ServicesUp, CommandsRun, RunBrowserCheck, TornDown, Report, Flush, WriteCatalog,
        Return, FlushThrows, ProcessDies, ServiceDies, serviceVars, executionVars
  <2> QED
    BY <2>1, AbortFrame
<1>7. CASE Finally \/ TearDown
  <2>1. UNCHANGED <<guardVars, commands>> /\ (step' = "stopping" \/ step' = step)
    BY <1>7 DEF Finally, TearDown, TearDownService
  <2> QED
    BY <2>1, AbortFrame
<1>8. CASE GuardFires
  <2>1. Aborted' /\ UNCHANGED <<serviceVars, executionVars>>
    BY <1>8 DEF GuardFires, GuardTimeout, OnParentAbort, Aborted
  <2> QED
    BY <2>1 DEF AbortInv
<1> QED
  BY <1>1, <1>2, <1>3, <1>4, <1>5, <1>6, <1>7, <1>8 DEF ExecutionNext, Executor

LEMMA StepProgress ==
    ASSUME ExecutionTypeOK, ProgressInv, [ExecutionNext]_vars
    PROVE  ProgressInv'
<1> USE DEF ProgressInv, InTry, Automated
<1>1. CASE UNCHANGED vars \/ GuardFires \/ ProcessDies \/ Flush
  <2>1. UNCHANGED <<task, executionVars>>
    BY <1>1 DEF vars, GuardFires, ProcessDies, Flush, FlushStep, FlushWithoutUpload, UploadAccepted,
                UploadRefused, Settle, taskVars
  <2> QED
    BY <2>1 DEF executionVars
<1>2. CASE Begin
  BY <1>2 DEF Begin, taskVars
<1>3. CASE OrchestrateServices
  BY <1>3, OrchestrationKeeps
<1>4. CASE ServicesUp
  BY <1>4 DEF ServicesUp, taskVars
<1>5. CASE OrchestrationThrows \/ CommandAborted \/ CommandErrs \/ CheckUrlThrows
  BY <1>5
  DEF OrchestrationThrows, CommandAborted, CommandErrs, CheckUrlThrows, CatchAbort, CatchOther, taskVars
<1>6. CASE NextCommand
  BY <1>6 DEF NextCommand, CatchAbort, taskVars
<1>7. ASSUME NEW status \in {"passed", "failed"}, CommandCloses(status)
      PROVE  ProgressInv'
  BY <1>7 DEF CommandCloses, taskVars
<1>8. CASE CommandsRun
  BY <1>8 DEF CommandsRun, taskVars
<1>9. CASE RunBrowserCheck
  BY <1>9 DEF RunBrowserCheck, taskVars
<1>10. CASE BrowserChecked
  BY <1>10 DEF BrowserChecked, taskVars
<1>11. CASE Finally \/ TearDown \/ TornDown
  BY <1>11 DEF Finally, TearDown, TornDown, taskVars
<1>12. CASE Report
  BY <1>12 DEF Report, taskVars
<1>13. CASE FlushThrows \/ WriteCatalog
  BY <1>13 DEF FlushThrows, WriteCatalog, taskVars
<1>14. CASE Return
  BY <1>14 DEF Return, taskVars
<1> QED
  BY <1>1, <1>2, <1>3, <1>4, <1>5, <1>6, <1>7, <1>8, <1>9, <1>10, <1>11, <1>12, <1>13, <1>14
  DEF ExecutionNext, Executor

LEMMA StepChecks ==
    ASSUME ExecutionTypeOK, ChecksInv, [ExecutionNext]_vars
    PROVE  ChecksInv'
<1>1. CASE RunBrowserCheck
  <2> DEFINE n == Len(checked) + 1
             b == task.browser[n]
  <2>1. PICK o \in CheckOutcomes(b, n) :
            /\ checked' = Append(checked, o.status)
            /\ required' = required + (IF RequiredFailure(b, o.status) THEN 1 ELSE 0)
    BY <1>1 DEF RunBrowserCheck
  <2>2. /\ o.status \in {"passed", "failed", "skipped"}
        /\ checked \in Seq({"passed", "failed", "skipped"}) /\ required \in Nat
        /\ task.browser \in Seq(BrowserCheck) /\ task' = task /\ Len(checked) < Len(task.browser)
    BY <1>1, OutcomeStatus DEF ExecutionTypeOK, Claim, RunBrowserCheck, taskVars
  <2>3. /\ Len(checked') = n /\ Len(checked) \in Nat /\ Len(task.browser) \in Nat
        /\ \A i \in 1..Len(checked) : checked'[i] = checked[i]
        /\ checked'[n] = o.status
    BY <2>1, <2>2
  <2>4. required' = 0 => required = 0 /\ ~RequiredFailure(b, o.status)
    BY <2>1, <2>2
  <2>5. ASSUME required' = 0, NEW i \in 1..n, task.browser[i].required
        PROVE  checked'[i] = "passed"
    <3>1. CASE i = n
      BY <2>3, <2>4, <2>5, <3>1 DEF RequiredFailure
    <3>2. CASE i # n
      <4>1. i \in 1..Len(checked)
        BY <2>3, <3>2
      <4> QED
        BY <2>3, <2>4, <2>5, <4>1 DEF ChecksInv
    <3> QED
      BY <3>1, <3>2
  <2> QED
    BY <2>2, <2>3, <2>5 DEF ChecksInv
<1>2. CASE ~RunBrowserCheck
  <2>1. UNCHANGED <<task, checked, required>>
    BY <1>2
    DEF ExecutionNext, Executor, vars, Begin, OrchestrateServices, ServicesUp, OrchestrationThrows,
        NextCommand, CommandAborted, CommandsRun, BrowserChecked, Finally, TearDown, TornDown,
        Report, Flush, FlushStep, FlushWithoutUpload, UploadAccepted, UploadRefused, Settle,
        WriteCatalog, Return, CommandCloses, CommandErrs, CheckUrlThrows, GuardFires, ProcessDies,
        FlushThrows, taskVars, executionVars
  <2> QED
    BY <2>1 DEF ChecksInv
<1> QED
  BY <1>1, <1>2

-----------------------------------------------------------------------------
(* The services found.                                                      *)

LEMMA ServicesFrame ==
    ASSUME ServicesInv, UNCHANGED <<task, step, pos, summary>>, gaps \subseteq gaps',
           phase' \in {"begin", "orchestrate"} => phase \in {"begin", "orchestrate"},
           phase' \in {"commands", "running", "browser"} => phase \in {"commands", "running", "browser"}
    PROVE  ServicesInv'
<1>1. Order' = Order /\ Selected' = Selected /\ Automated' = Automated
  BY OrderStays DEF Automated
<1>2. gaps # {} => gaps' # {}
  OBVIOUS
<1>3. ServicesFound => ServicesFound'
  BY <1>1, <1>2 DEF ServicesFound
<1> QED
  BY <1>1, <1>2, <1>3 DEF ServicesInv

LEMMA StepServicesOrchestrate ==
    ASSUME ExecutionTypeOK, ServicesInv, OrchestrateServices
    PROVE  ServicesInv'
<1>1. /\ pos =< Len(Order) /\ step # "thrown"
      /\ phase = "orchestrate" /\ phase' = "orchestrate" /\ pos \in Nat /\ pos > 0
      /\ task \in Claim
  BY OrchestrationKeeps, OrchestrateMoves DEF Probing, ExecutionTypeOK
<1>2. Order' = Order
  BY OrchestrationKeeps, OrderStays
<1>3. gaps # {} \/ \A i \in 1..Len(Order) : i < pos => summary[Order[i]] \in Up
  BY <1>1 DEF ServicesInv
<1>4. CASE Polls \/ TurnsToStart \/ Spawns
  <2>1. UNCHANGED <<pos, summary, gaps>>
    BY <1>4 DEF Polls, TurnsToStart, Spawns
  <2> QED
    BY <1>1, <1>2, <1>3, <2>1 DEF ServicesInv
<1>5. CASE Records("failed")
  BY <1>1, <1>5 DEF Records, ServicesInv
<1>6. ASSUME NEW status \in Up, Records(status)
      PROVE  ServicesInv'
  <2>1. CASE gaps # {}
    <3>1. gaps' # {}
      BY <1>6, <2>1 DEF Records
    <3> QED
      BY <1>1, <3>1 DEF ServicesInv
  <2>2. CASE gaps = {}
    <3>1. summary' = [summary EXCEPT ![Order[pos]] = status] /\ pos' = pos + 1
      BY <1>6 DEF Records, Current
    <3>2. ASSUME NEW i \in 1..Len(Order), i < pos'
          PROVE  summary'[Order[i]] \in Up
      <4>1. Order[i] \in Service /\ summary \in [Service -> {"none", "ready", "started", "failed"}]
        BY <1>1, OrderOfClaim, ElementOfSeq DEF ExecutionTypeOK
      <4>2. CASE Order[i] = Order[pos]
        BY <1>6, <3>1, <4>1, <4>2
      <4>3. CASE Order[i] # Order[pos]
        <5>1. i < pos
          BY <1>1, <3>1, <3>2, <4>3
        <5>2. summary[Order[i]] \in Up
          BY <1>3, <2>2, <5>1
        <5> QED
          BY <3>1, <4>1, <4>3, <5>2
      <4> QED
        BY <4>2, <4>3
    <3> QED
      BY <1>1, <1>2, <3>2 DEF ServicesInv
  <2> QED
    BY <2>1, <2>2
<1>7. CASE OrchestrationLost
  BY <1>1, <1>7 DEF OrchestrationLost, ServicesInv
<1>8. "ready" \in Up /\ "started" \in Up
  BY DEF Up
<1> QED
  BY <1>4, <1>5, <1>6, <1>7, <1>8, OrchestrateMoves, OrchestrationKeeps
  DEF PassesHealthy, PassesFailed, PassesStarted

LEMMA StepServices ==
    ASSUME ExecutionTypeOK, ServicesInv, [ExecutionNext]_vars
    PROVE  ServicesInv'
<1>0. task \in Claim
  BY DEF ExecutionTypeOK
<1>1. CASE OrchestrateServices
  BY <1>1, StepServicesOrchestrate
<1>2. CASE Begin
  <2>1. UNCHANGED <<task, step, pos, summary, gaps>> /\ phase = "begin"
    BY <1>2 DEF Begin, taskVars, serviceVars
  <2>2. CASE phase' # "commands"
    <3>1. phase' \in {"done", "orchestrate"}
      BY <1>2, <2>2 DEF Begin
    <3> QED
      BY <2>1, <3>1, ServicesFrame
  <2>3. CASE phase' = "commands"
    <3>1. Automated => task.entries = {}
      BY <1>2, <2>3 DEF Begin
    <3>2. Automated => Selected' = {}
      BY <1>0, <2>1, <3>1, OrderOfClaim, OrderStays
    <3>3. Automated' = Automated
      BY <2>1 DEF Automated
    <3> QED
      BY <2>3, <3>2, <3>3 DEF ServicesInv, ServicesFound
  <2> QED
    BY <2>2, <2>3
<1>3. CASE ServicesUp
  <2>1. /\ UNCHANGED <<task, step, pos, summary, gaps>>
        /\ phase = "orchestrate" /\ phase' = "commands" /\ step = "enter" /\ pos > Len(Order)
    BY <1>3 DEF ServicesUp, Orchestrated, taskVars, serviceVars
  <2>2. Order \in Seq(Service) /\ Range(Order) = Selected /\ pos \in Nat
    BY <1>0, OrderOfClaim DEF ExecutionTypeOK
  <2>3. gaps # {} \/ \A i \in 1..Len(Order) : summary[Order[i]] \in Up
    BY <2>1, <2>2 DEF ServicesInv
  <2>4. ServicesFound
    BY <2>2, <2>3 DEF ServicesFound, Range
  <2>5. ServicesFound'
    BY <2>1, <2>4, OrderStays DEF ServicesFound
  <2> QED
    BY <2>1, <2>5 DEF ServicesInv
<1>4. CASE RunBrowserCheck
  <2>1. UNCHANGED <<task, step, pos, summary, phase>> /\ gaps \subseteq gaps'
    BY <1>4 DEF RunBrowserCheck, taskVars
  <2> QED
    BY <2>1, ServicesFrame
<1>5. CASE Finally \/ TearDown \/ TornDown
  <2>1. phase' \in {"teardown", "report"}
    BY <1>5 DEF Finally, TearDown, TornDown
  <2> QED
    BY <2>1 DEF ServicesInv
<1>6. CASE \/ UNCHANGED vars \/ GuardFires \/ ProcessDies \/ OrchestrationThrows \/ NextCommand
           \/ CommandAborted \/ CommandErrs \/ CheckUrlThrows \/ CommandsRun \/ BrowserChecked
           \/ \E status \in {"passed", "failed"} : CommandCloses(status)
  <2>1. UNCHANGED <<task, step, pos, summary, gaps>>
    BY <1>6
    DEF vars, GuardFires, ProcessDies, ServiceDies, OrchestrationThrows, NextCommand, CommandAborted,
        CommandErrs, CheckUrlThrows, CommandsRun, BrowserChecked, CommandCloses, taskVars, serviceVars
  <2>2. \/ phase' = phase \/ phase' = "finally"
        \/ phase' \in {"commands", "running", "browser"} /\ phase \in {"commands", "running", "browser"}
    BY <1>6
    DEF vars, executionVars, GuardFires, ProcessDies, OrchestrationThrows, CatchAbort, CatchOther,
        NextCommand, CommandAborted, CommandErrs, CheckUrlThrows, CommandsRun, BrowserChecked, CommandCloses
  <2> QED
    BY <2>1, <2>2, ServicesFrame
<1>7. CASE Report \/ Flush \/ FlushThrows \/ WriteCatalog \/ Return
  <2>1. phase' \notin {"begin", "orchestrate", "commands", "running", "browser"}
    BY <1>7
    DEF Report, Flush, FlushThrows, WriteCatalog, Return, executionVars
  <2> QED
    BY <2>1 DEF ServicesInv
<1> QED
  BY <1>1, <1>2, <1>3, <1>4, <1>5, <1>6, <1>7 DEF ExecutionNext, Executor

-----------------------------------------------------------------------------
(* The verdict.                                                             *)

LEMMA CompleteFrame ==
    ASSUME UNCHANGED <<task, commands, thrown, summary, required, checked>>, gaps \subseteq gaps',
           thrown \/ NotPassed \/ Complete
    PROVE  (thrown \/ NotPassed \/ Complete)'
<1>1. gaps # {} => gaps' # {}
  OBVIOUS
<1>2. Selected' = Selected
  BY OrderStays
<1>3. ServicesFound => ServicesFound'
  BY <1>1, <1>2 DEF ServicesFound
<1> QED
  BY <1>3 DEF NotPassed, Complete, Automated

LEMMA NewFailure ==
    ASSUME ExecutionTypeOK, NEW status \in {"failed", "blocked"},
           commands' = Append(commands, status)
    PROVE  NotPassed'
BY OneMoreCommand DEF NotPassed

\* Where the try block ends.
Leaving == phase' \in {"finally", "teardown", "report", "flush", "flush-catalog"}

LEMMA LeavesWithReason ==
    ASSUME ExecutionTypeOK, ProgressInv, ServicesInv, VerdictInv, [ExecutionNext]_vars, Leaving
    PROVE  (thrown \/ NotPassed \/ Complete)'
<1>0. /\ task \in Claim /\ required \in Nat
      /\ checked \in Seq({"passed", "failed", "skipped"})
  BY DEF ExecutionTypeOK
<1> USE DEF Leaving
<1>1. CASE OrchestrationThrows \/ CommandAborted \/ CommandErrs \/ CheckUrlThrows \/ NextCommand
  <2>1. CatchAbort \/ CatchOther
    BY <1>1 DEF OrchestrationThrows, CommandAborted, CommandErrs, CheckUrlThrows, NextCommand
  <2> QED
    BY <2>1, NewFailure DEF CatchAbort, CatchOther
<1>2. CASE CommandsRun
  <2>1. /\ Len(commands) = task.commands /\ ~(Automated /\ task.browser # <<>>)
        /\ phase = "commands" /\ phase' = "finally"
        /\ UNCHANGED <<task, commands, checked, required, thrown, summary, gaps>>
    BY <1>2 DEF CommandsRun, taskVars, serviceVars
  <2>2. Automated => ServicesFound /\ required = 0 /\ checked = <<>> /\ task.browser = <<>>
    BY <2>1 DEF ServicesInv, ProgressInv, InTry
  <2>3. Complete
    BY <2>1, <2>2 DEF Complete
  <2> QED
    BY <2>1, <2>3, CompleteFrame
<1>3. CASE BrowserChecked
  <2>1. /\ phase = "browser" /\ Len(checked) = Len(task.browser)
        /\ UNCHANGED <<task, checked, required, thrown, summary, gaps>>
    BY <1>3 DEF BrowserChecked, taskVars, serviceVars
  <2>2. CASE required > 0
    <3>1. commands' = Append(commands, "failed")
      BY <1>3, <2>2 DEF BrowserChecked
    <3> QED
      BY <3>1, NewFailure
  <2>3. CASE ~(required > 0)
    <3>1. required = 0 /\ UNCHANGED commands
      BY <1>0, <1>3, <2>3 DEF BrowserChecked
    <3>2. Complete
      BY <2>1, <3>1 DEF Complete, ServicesInv, ProgressInv
    <3> QED
      BY <2>1, <3>1, <3>2, CompleteFrame
  <2> QED
    BY <2>2, <2>3
<1>4. CASE \/ UNCHANGED vars \/ Finally \/ TearDown \/ TornDown \/ Report \/ Flush \/ FlushThrows
           \/ WriteCatalog
  <2>1. UNCHANGED <<task, commands, thrown, summary, required, checked>> /\ gaps \subseteq gaps'
    BY <1>4
    DEF vars, Finally, TearDown, TearDownService, TornDown, Report, Flush, FlushThrows, WriteCatalog,
        taskVars, serviceVars, executionVars
  <2>2. phase \in {"finally", "teardown", "report", "flush", "flush-catalog"}
    BY <1>4
    DEF vars, executionVars, Finally, TearDown, TornDown, Report, Flush, FlushThrows, WriteCatalog
  <2> QED
    BY <2>1, <2>2, CompleteFrame DEF VerdictInv
<1>5. CASE \/ Begin \/ OrchestrateServices \/ ServicesUp \/ RunBrowserCheck \/ Return
           \/ GuardFires \/ ProcessDies \/ \E status \in {"passed", "failed"} : CommandCloses(status)
  <2>1. phase' \notin {"finally", "teardown", "report", "flush", "flush-catalog"}
    BY <1>5, OrchestrationKeeps
    DEF Begin, ServicesUp, RunBrowserCheck, Return, GuardFires, ProcessDies,
        CommandCloses, GuardArmed, executionVars
  <2> QED
    BY <2>1
<1> QED
  BY <1>1, <1>2, <1>3, <1>4, <1>5 DEF ExecutionNext, Executor

LEMMA DoneIsDone ==
    ASSUME phase = "done", [ExecutionNext]_vars
    PROVE  UNCHANGED vars
BY DEF ExecutionNext, Executor, Begin, OrchestrateServices, ServicesUp, OrchestrationThrows, NextCommand,
       CommandAborted, CommandsRun, RunBrowserCheck, BrowserChecked, Finally, TearDown, TornDown,
       Report, Flush, WriteCatalog, Return, CommandCloses, CommandErrs, CheckUrlThrows, GuardFires, ProcessDies,
       FlushThrows, GuardArmed

\* What is completed when the result says so.
LEMMA CompletedIsVerified ==
    ASSUME ExecutionTypeOK, AbortInv, ChecksInv, ProgressInv, VerdictInv, ResultStatus = "completed",
           phase = "flush-catalog"
    PROVE  /\ Len(commands) = task.commands /\ ~NotPassed
           /\ \A s \in Selected : summary[s] \in Up
           /\ \A n \in DOMAIN task.browser :
                 RequiredFailure(task.browser[n], "failed") => checked[n] = "passed"
           /\ ~Interrupted
           /\ gaps = {}
<1>1. /\ \A i \in DOMAIN commands : commands[i] # "failed"
      /\ ~Interrupted /\ gaps = {}
  BY DEF ResultStatus
<1>2. \A i \in DOMAIN commands : commands[i] \in {"passed", "failed", "blocked"}
  BY DEF ExecutionTypeOK
<1>3. ~NotPassed
  BY <1>1, <1>2 DEF NotPassed, AbortInv, Interrupted
<1>4. ~thrown /\ Automated
  BY DEF ProgressInv
<1>5. Complete
  BY <1>3, <1>4 DEF VerdictInv
<1>6. /\ Len(commands) = task.commands /\ ServicesFound /\ required = 0
      /\ Len(checked) = Len(task.browser)
  BY <1>4, <1>5 DEF Complete
<1>7. DOMAIN task.browser = 1..Len(checked)
  BY <1>6 DEF ExecutionTypeOK, Claim
<1>8. \A n \in DOMAIN task.browser :
         RequiredFailure(task.browser[n], "failed") => checked[n] = "passed"
  BY <1>6, <1>7 DEF ChecksInv, RequiredFailure
<1> QED
  BY <1>1, <1>3, <1>6, <1>8 DEF ServicesFound

LEMMA StepVerdict ==
    ASSUME ExecutionTypeOK, AbortInv, ProgressInv, ServicesInv, ChecksInv, VerdictInv,
           [ExecutionNext]_vars
    PROVE  VerdictInv'
<1>1. Leaving => (thrown \/ NotPassed \/ Complete)'
  BY LeavesWithReason
<1>2. CompletedMeansVerified'
  <2>1. CASE Return
    <3>1. /\ phase = "flush-catalog" /\ result' = ResultStatus
          /\ UNCHANGED <<task, signal, timedOut, summary, gaps, commands, checked>>
      BY <2>1 DEF Return, taskVars, guardVars, serviceVars
    <3>2. Selected' = Selected
      BY <3>1, OrderStays
    <3> SUFFICES ASSUME result' = "completed"
                 PROVE  CompletedMeansVerified'
      BY DEF CompletedMeansVerified
    <3> QED
      BY <3>1, <3>2, CompletedIsVerified
      DEF CompletedMeansVerified, NotPassed, Interrupted, Aborted, Automated, Up
  <2>2. CASE Report
    <3> SUFFICES ASSUME result' = "completed"
                 PROVE  CompletedMeansVerified'
      BY DEF CompletedMeansVerified
    <3>1. phase = "report" /\ UNCHANGED <<task, commands>>
      BY <2>2 DEF Report, taskVars
    <3>2. ~Automated /\ ~thrown /\ ~NotPassed
      BY <2>2, <3>1 DEF Report, PreparationStatus, ProgressInv
    <3>3. Len(commands) = task.commands
      BY <3>1, <3>2 DEF VerdictInv, Complete
    <3> QED
      BY <3>1, <3>2, <3>3 DEF CompletedMeansVerified, NotPassed, Automated
  <2>3. CASE phase = "done"
    <3>1. UNCHANGED vars
      BY <2>3, DoneIsDone
    <3>2. UNCHANGED <<result, commands, task, summary, checked, gaps, signal, timedOut>>
      BY <3>1 DEF vars, taskVars, guardVars, serviceVars, executionVars
    <3>3. Selected' = Selected
      BY <3>2, OrderStays
    <3> QED
      BY <3>2, <3>3
      DEF VerdictInv, CompletedMeansVerified, NotPassed, Interrupted, Aborted, Automated
  <2>4. CASE phase # "done" /\ ~Return /\ ~Report
    <3>1. result = "none"
      BY <2>4 DEF ProgressInv
    <3>2. result' # "completed"
      BY <2>4, <3>1
      DEF ExecutionNext, Executor, vars, Begin, OrchestrateServices, ServicesUp, OrchestrationThrows,
          NextCommand, CommandAborted, CommandsRun, RunBrowserCheck, BrowserChecked, Finally, TearDown,
          TornDown, Flush, WriteCatalog, CommandCloses, CommandErrs, CheckUrlThrows, GuardFires,
          ProcessDies, FlushThrows, executionVars
    <3> QED
      BY <3>2 DEF CompletedMeansVerified
  <2> QED
    BY <2>1, <2>2, <2>3, <2>4
<1> QED
  BY <1>1, <1>2 DEF VerdictInv, Leaving

-----------------------------------------------------------------------------
(* Who answers for the processes.                                           *)

LEMMA ManagedFrame ==
    ASSUME ManagedInv, UNCHANGED <<task, signal, managed>>, running' \subseteq running,
           phase # "orchestrate" \/ Answered, phase' \notin {"begin", "orchestrate"}
    PROVE  ManagedInv'
<1>1. Aborted' = Aborted /\ Automated' = Automated
  BY DEF Aborted, Automated
<1>2. Answered'
  BY <1>1 DEF ManagedInv, Answered
<1> QED
  BY <1>1, <1>2 DEF ManagedInv

LEMMA StepManagedOrchestrate ==
    ASSUME ExecutionTypeOK, ProgressInv, ManagedInv, OrchestrateServices
    PROVE  ManagedInv'
<1>0. /\ phase = "orchestrate" /\ phase' = "orchestrate" /\ Automated /\ Automated'
      /\ Aborted' = Aborted /\ Order' = Order /\ pos =< Len(Order)
      /\ step \in Probing \cup {"spawning"}
  BY OrchestrationKeeps, OrchestrateMoves, OrderStays DEF ProgressInv, Automated, Aborted
<1>1. SUFFICES ASSUME NEW s \in running', ~Aborted
               PROVE  \/ s \in Range(managed')
                      \/ /\ after' /\ pos' =< Len(Order) /\ s = Order[pos'] /\ step' \in Probing
  BY <1>0 DEF ManagedInv, Current, Probing
<1>2. \A t \in running : \/ t \in Range(managed)
                         \/ after /\ t = Order[pos] /\ step \in Probing
  BY <1>0, <1>1 DEF ManagedInv, Current, Probing
<1>3. CASE Polls
  BY <1>0, <1>1, <1>2, <1>3 DEF Polls
<1>4. CASE TurnsToStart
  BY <1>1, <1>2, <1>4 DEF TurnsToStart
<1>5. CASE PassesHealthy
  BY <1>1, <1>2, <1>5 DEF PassesHealthy, Records
<1>6. CASE PassesFailed
  BY <1>1, <1>2, <1>6 DEF PassesFailed, Records, Probing
<1>7. CASE PassesStarted
  <2>1. Current \in Service /\ managed \in Seq(Service)
    BY <1>0, ServiceAtHand DEF ExecutionTypeOK
  <2>2. Range(managed') = Range(managed) \cup {Order[pos]} /\ running' = running
    BY <1>7, <2>1, AppendedRange DEF PassesStarted, Records, Current
  <2> QED
    BY <1>1, <1>2, <2>2
<1>8. CASE Spawns
  BY <1>0, <1>1, <1>2, <1>8 DEF Spawns, Current, Probing
<1> QED
  BY <1>1, <1>3, <1>4, <1>5, <1>6, <1>7, <1>8, OrchestrationKeeps, OrchestrateMoves

LEMMA StepManaged ==
    ASSUME ExecutionTypeOK, ProgressInv, ManagedInv, [ExecutionNext]_vars
    PROVE  ManagedInv'
<1>1. CASE OrchestrateServices
  BY <1>1, StepManagedOrchestrate
<1>2. CASE Begin
  <2>1. UNCHANGED <<running, managed>> /\ running = {} /\ managed = <<>>
    BY <1>2 DEF Begin, serviceVars, ManagedInv
  <2> QED
    BY <2>1 DEF ManagedInv, Answered
<1>3. CASE ServicesUp
  <2>1. /\ phase = "orchestrate" /\ phase' = "commands" /\ pos > Len(Order)
        /\ UNCHANGED <<task, signal, managed, running>>
    BY <1>3 DEF ServicesUp, Orchestrated, taskVars, guardVars, serviceVars
  <2>2. Len(Order) \in Nat /\ pos \in Nat
    BY OrderOfClaim DEF ExecutionTypeOK
  <2>3. Answered
    BY <2>1, <2>2 DEF ManagedInv, Answered
  <2> QED
    BY <2>1, <2>3, ManagedFrame
<1>4. CASE OrchestrationThrows
  <2>1. /\ phase = "orchestrate" /\ phase' = "finally" /\ step = "thrown"
        /\ UNCHANGED <<task, signal, managed, running>>
    BY <1>4 DEF OrchestrationThrows, CatchAbort, CatchOther, taskVars, guardVars, serviceVars
  <2>2. Answered
    BY <2>1 DEF ManagedInv, Answered
  <2> QED
    BY <2>1, <2>2, ManagedFrame
<1>5. CASE GuardFires
  <2>1. Aborted' /\ UNCHANGED <<task, phase, running, managed>>
    BY <1>5 DEF GuardFires, GuardTimeout, OnParentAbort, Aborted, taskVars, serviceVars, executionVars
  <2> QED
    BY <2>1 DEF ManagedInv, Answered, Automated
<1>6. CASE ProcessDies
  <2>1. /\ UNCHANGED <<task, signal, phase, step, pos, after, managed>>
        /\ running' \subseteq running
    BY <1>6 DEF ProcessDies, ServiceDies, taskVars, guardVars, executionVars
  <2>2. Order' = Order /\ Aborted' = Aborted /\ Automated' = Automated
    BY <2>1, OrderStays DEF Aborted, Automated
  <2>3. Current' = Current
    BY <2>1, <2>2 DEF Current
  <2> QED
    BY <2>1, <2>2, <2>3 DEF ManagedInv, Answered
<1>7. CASE UNCHANGED vars
  <2>1. UNCHANGED <<task, signal, phase, step, pos, after, managed, running>>
    BY <1>7 DEF vars, taskVars, guardVars, serviceVars, executionVars
  <2>2. Order' = Order /\ Aborted' = Aborted /\ Automated' = Automated
    BY <2>1, OrderStays DEF Aborted, Automated
  <2>3. Current' = Current
    BY <2>1, <2>2 DEF Current
  <2> QED
    BY <2>1, <2>2, <2>3 DEF ManagedInv, Answered
<1>8. CASE Finally \/ TearDown
  <2>1. /\ UNCHANGED <<task, signal, managed>> /\ running' \subseteq running
        /\ phase # "orchestrate" /\ phase' \notin {"begin", "orchestrate"}
    BY <1>8 DEF Finally, TearDown, TearDownService, taskVars, guardVars
  <2> QED
    BY <2>1, ManagedFrame
<1>9. CASE \/ NextCommand \/ CommandAborted \/ CommandErrs \/ CheckUrlThrows \/ CommandsRun \/ RunBrowserCheck
           \/ BrowserChecked \/ TornDown \/ Report \/ Flush \/ FlushThrows \/ WriteCatalog \/ Return
           \/ \E status \in {"passed", "failed"} : CommandCloses(status)
  <2>1. UNCHANGED <<task, signal, managed, running>>
    BY <1>9
    DEF NextCommand, CommandAborted, CommandErrs, CheckUrlThrows, CommandsRun, RunBrowserCheck, BrowserChecked,
        TornDown, Report, Flush, FlushThrows, WriteCatalog, Return, CommandCloses, taskVars,
        guardVars, serviceVars
  <2>2. phase # "orchestrate" /\ phase' \notin {"begin", "orchestrate"}
    BY <1>9
    DEF NextCommand, CommandAborted, CommandErrs, CheckUrlThrows, CatchAbort, CatchOther, CommandsRun,
        RunBrowserCheck, BrowserChecked, TornDown, Report, Flush, FlushThrows, WriteCatalog, Return,
        CommandCloses, executionVars
  <2> QED
    BY <2>1, <2>2, ManagedFrame
<1> QED
  BY <1>1, <1>2, <1>3, <1>4, <1>5, <1>6, <1>7, <1>8, <1>9 DEF ExecutionNext, Executor

-----------------------------------------------------------------------------
(* What is stopped in the end.                                              *)

\* The loop over the reversed list ends with the service started first.
LEMMA StopsLastFirst ==
    ASSUME managed \in Seq(Service), pos \in 1..Len(managed)
    PROVE  ToStop = managed[pos]
<1>1. Len(managed) \in Nat /\ Len(managed) + 1 - pos \in 1..Len(managed)
  OBVIOUS
<1>2. Len(managed) - (Len(managed) + 1 - pos) + 1 = pos
  BY <1>1
<1>3. TeardownOrder(managed)[Len(managed) + 1 - pos]
        = managed[Len(managed) - (Len(managed) + 1 - pos) + 1]
  BY <1>1 DEF TeardownOrder, Reverse
<1> QED
  BY <1>2, <1>3 DEF ToStop

LEMMA TeardownStep ==
    ASSUME ExecutionTypeOK, StoppedInv, TearDown
    PROVE  StoppedInv'
<1>1. /\ phase = "teardown" /\ phase' = "teardown" /\ pos' = pos - 1 /\ managed' = managed
      /\ gaps \subseteq gaps' /\ running' \subseteq running
      /\ pos \in Nat /\ pos > 0 /\ pos =< Len(managed) /\ managed \in Seq(Service)
  BY DEF TearDown, TearDownService, ExecutionTypeOK
<1>2. ToStop = managed[pos]
  BY <1>1, StopsLastFirst
<1>3. managed[pos] \in running' => <<"service-teardown-failed", managed[pos]>> \in gaps'
  BY <1>2 DEF TearDown, TearDownService
<1>4. ASSUME NEW j \in 1..Len(managed), j > pos - 1, managed[j] \in running'
      PROVE  <<"service-teardown-failed", managed[j]>> \in gaps'
  <2>1. CASE j = pos
    BY <1>3, <1>4, <2>1
  <2>2. CASE j > pos
    BY <1>1, <1>4, <2>2 DEF StoppedInv, NotStopped
  <2> QED
    BY <1>1, <1>4, <2>1, <2>2
<1> QED
  BY <1>1, <1>4 DEF StoppedInv, Settling, NotStopped

LEMMA SettledFrame ==
    ASSUME StoppedInv, UNCHANGED <<task, signal, commands, managed, running, gaps>>,
           phase \in Settling, phase' \in Settling,
           \/ result' = result
           \/ ~ShouldTeardown(NotPassed) /\ task.policy = "on-failure" => result' = "completed"
    PROVE  StoppedInv'
<1>1. ShouldTeardown(NotPassed)' <=> ShouldTeardown(NotPassed)
  BY DEF ShouldTeardown, NotPassed, Aborted
<1>2. phase' # "teardown"
  BY DEF Settling
<1>3. CASE \A s \in Range(managed) : s \in running => NotStopped(s)
  BY <1>2, <1>3 DEF StoppedInv, NotStopped
<1>4. CASE /\ ~ShouldTeardown(NotPassed)
           /\ task.policy = "on-failure" => result \notin {"failed", "blocked"}
  BY <1>1, <1>2, <1>4 DEF StoppedInv
<1> QED
  BY <1>3, <1>4 DEF StoppedInv

LEMMA NothingToStop ==
    ASSUME managed' = <<>>, phase' \in Settling
    PROVE  StoppedInv'
<1>1. Range(managed') = {} /\ phase' # "teardown"
  BY DEF Range, Settling
<1> QED
  BY <1>1 DEF StoppedInv

LEMMA StepStopped ==
    ASSUME ExecutionTypeOK, AbortInv, ProgressInv, ManagedInv, StoppedInv, [ExecutionNext]_vars
    PROVE  StoppedInv'
<1>1. CASE Begin
  <2>1. managed' = <<>>
    BY <1>1 DEF Begin, serviceVars, ManagedInv
  <2>2. phase' = "done" \/ phase' \in {"orchestrate", "commands"}
    BY <1>1 DEF Begin
  <2> QED
    BY <2>1, <2>2, NothingToStop DEF StoppedInv, Settling
<1>2. CASE Finally
  <2>1. UNCHANGED <<task, signal, commands, managed, running, gaps, result>> /\ phase = "finally"
    BY <1>2 DEF Finally, taskVars, guardVars
  <2>2. CASE Automated /\ managed # <<>> /\ ShouldTeardown(NotPassed)
    <3>1. phase' = "teardown" /\ pos' = Len(managed) /\ Len(managed) \in Nat
      BY <1>2, <2>2 DEF Finally, ExecutionTypeOK
    <3> QED
      BY <2>1, <3>1 DEF StoppedInv, Settling
  <2>3. CASE ~Automated \/ managed = <<>>
    <3>1. managed' = <<>> /\ phase' = "report"
      BY <1>2, <2>1, <2>3 DEF Finally, ManagedInv
    <3> QED
      BY <3>1, NothingToStop DEF Settling
  <2>4. CASE Automated /\ managed # <<>> /\ ~ShouldTeardown(NotPassed)
    <3>1. phase' = "report" /\ result' = "none"
      BY <1>2, <2>1, <2>4 DEF Finally, ProgressInv
    <3>2. ~ShouldTeardown(NotPassed)'
      BY <2>1, <2>4 DEF ShouldTeardown, NotPassed, Aborted
    <3> QED
      BY <3>1, <3>2 DEF StoppedInv
  <2> QED
    BY <2>2, <2>3, <2>4
<1>3. CASE TearDown
  BY <1>3, TeardownStep
<1>4. CASE TornDown
  <2>1. /\ phase = "teardown" /\ phase' = "report" /\ pos = 0
        /\ UNCHANGED <<managed, running, gaps>>
    BY <1>4 DEF TornDown, serviceVars
  <2>2. managed \in Seq(Service)
    BY DEF ExecutionTypeOK
  <2>3. \A j \in 1..Len(managed) : managed[j] \in running => NotStopped(managed[j])
    BY <2>1 DEF StoppedInv
  <2>4. \A s \in Range(managed) : s \in running => NotStopped(s)
    BY <2>2, <2>3 DEF Range
  <2> QED
    BY <2>1, <2>4 DEF StoppedInv, NotStopped
<1>5. CASE Report
  <2>1. /\ UNCHANGED <<task, signal, commands, managed, running, gaps>>
        /\ phase = "report" /\ phase' \in Settling
    BY <1>5 DEF Report, Settling, taskVars, guardVars, serviceVars
  <2>2. CASE Automated
    <3>1. result' = result
      BY <1>5, <2>2 DEF Report
    <3> QED
      BY <2>1, <3>1, SettledFrame DEF Settling
  <2>3. CASE ~Automated
    <3>1. managed' = <<>>
      BY <2>1, <2>3 DEF ManagedInv
    <3> QED
      BY <2>1, <3>1, NothingToStop
  <2> QED
    BY <2>2, <2>3
<1>6. CASE Return
  <2>1. /\ UNCHANGED <<task, signal, commands, managed, running, gaps>>
        /\ phase \in Settling /\ phase' \in Settling /\ result' = ResultStatus
    BY <1>6 DEF Return, Settling, taskVars, guardVars, serviceVars
  <2>2. ASSUME ~ShouldTeardown(NotPassed), task.policy = "on-failure"
        PROVE  ResultStatus = "completed"
    BY <2>2 DEF ShouldTeardown, ResultStatus, NotPassed, Interrupted, AbortInv
  <2> QED
    BY <2>1, <2>2, SettledFrame
<1>7. CASE Flush \/ FlushThrows \/ WriteCatalog
  <2>1. /\ UNCHANGED <<task, signal, commands, managed, running, gaps, result>>
        /\ phase \in Settling /\ phase' \in Settling
    BY <1>7 DEF Flush, FlushThrows, WriteCatalog, Settling, taskVars, guardVars, serviceVars, executionVars
  <2> QED
    BY <2>1, SettledFrame
<1>8. CASE UNCHANGED vars
  <2>1. UNCHANGED <<task, signal, commands, managed, running, gaps, result, phase, pos>>
    BY <1>8 DEF vars, taskVars, guardVars, serviceVars, executionVars
  <2>2. CASE phase \in Settling
    BY <2>1, <2>2, SettledFrame
  <2>3. CASE phase \notin Settling
    BY <2>1, <2>3 DEF StoppedInv, NotStopped
  <2> QED
    BY <2>2, <2>3
<1>9. CASE \/ OrchestrateServices \/ ServicesUp \/ OrchestrationThrows \/ NextCommand \/ CommandAborted
           \/ CommandErrs \/ CheckUrlThrows \/ CommandsRun \/ RunBrowserCheck \/ BrowserChecked \/ GuardFires
           \/ ProcessDies \/ \E status \in {"passed", "failed"} : CommandCloses(status)
  <2>1. phase' \notin Settling \cup {"teardown"}
    BY <1>9, OrchestrationKeeps
    DEF ServicesUp, OrchestrationThrows, NextCommand, CommandAborted, CommandErrs, CheckUrlThrows, CatchAbort,
        CatchOther, CommandsRun, RunBrowserCheck, BrowserChecked, GuardFires, ProcessDies, GuardArmed,
        CommandCloses, executionVars, Settling
  <2> QED
    BY <2>1 DEF StoppedInv
<1> QED
  BY <1>1, <1>2, <1>3, <1>4, <1>5, <1>6, <1>7, <1>8, <1>9 DEF ExecutionNext, Executor

LEMMA StoppedInTheEnd ==
    ASSUME ManagedInv, StoppedInv
    PROVE  StartedServicesAreStopped
<1> SUFFICES ASSUME Ended,
                    \/ task.policy = "always"
                    \/ task.policy = "on-failure" /\ result \in {"failed", "blocked"},
                    NEW s \in running, s \in Range(managed) \/ ~Aborted
             PROVE  NotStopped(s)
  BY DEF StartedServicesAreStopped, NotStopped
<1>1. phase \in Settling /\ phase # "orchestrate"
  BY DEF Ended, Settling
<1>2. s \in Range(managed)
  BY <1>1 DEF ManagedInv, Answered
<1>3. \A t \in Range(managed) : t \in running => NotStopped(t)
  BY <1>1 DEF StoppedInv, ShouldTeardown
<1> QED
  BY <1>2, <1>3

-----------------------------------------------------------------------------
(* The artifacts.                                                           *)

LEMMA TakenOff ==
    ASSUME NEW S, NEW list \in Seq(S), list # <<>>, IsInjective(list)
    PROVE  /\ Head(list) \in Range(list)
           /\ Tail(list) \in Seq(S) /\ IsInjective(Tail(list))
           /\ Range(Tail(list)) \subseteq Range(list) \ {Head(list)}
<1>1. /\ Len(list) \in Nat /\ Len(list) > 0 /\ DOMAIN list = 1..Len(list)
      /\ Head(list) = list[1]
      /\ Tail(list) \in Seq(S) /\ DOMAIN Tail(list) = 1..(Len(list) - 1)
      /\ \A i \in 1..(Len(list) - 1) : Tail(list)[i] = list[i + 1]
  BY HeadTailProperties, LenProperties
<1>2. \A i \in 1..(Len(list) - 1) : i + 1 \in 1..Len(list) /\ i + 1 # 1
  BY <1>1
<1>3. 1 \in 1..Len(list)
  BY <1>1
<1>4. \A i \in DOMAIN Tail(list) : Tail(list)[i] \in Range(list) /\ Tail(list)[i] # Head(list)
  BY <1>1, <1>2, <1>3 DEF IsInjective, Range
<1>5. ASSUME NEW i \in DOMAIN Tail(list), NEW j \in DOMAIN Tail(list), Tail(list)[i] = Tail(list)[j]
      PROVE  i = j
  <2>1. list[i + 1] = list[j + 1] /\ i + 1 \in DOMAIN list /\ j + 1 \in DOMAIN list
    BY <1>1, <1>2, <1>5
  <2>2. i + 1 = j + 1
    BY <2>1 DEF IsInjective
  <2> QED
    BY <1>1, <2>2
<1>6. Head(list) \in Range(list)
  BY <1>1, <1>3 DEF Range
<1> QED
  BY <1>1, <1>4, <1>5, <1>6 DEF Range, IsInjective

\* Everything registered so far is a record with an upload status of its own.
Stocked ==
    /\ stored \in Seq(ArtifactId) /\ IsInjective(stored)
    /\ DOMAIN upload = Range(stored)

LEMMA Registered ==
    ASSUME Stocked, NEW ids \in Seq(ArtifactId), RegisterArtifacts(ids)
    PROVE  /\ Stocked'
           /\ Range(stored') = Range(stored) \cup Range(ids)
           /\ \A a \in DOMAIN upload' : \/ upload'[a] # "uploaded"
                                        \/ a \in DOMAIN upload /\ upload'[a] = upload[a]
<1>1. /\ stored' \in Seq(ArtifactId) /\ IsInjective(stored')
      /\ Range(stored') = Range(stored) \cup Range(ids)
  BY SetAllKeys DEF Stocked, RegisterArtifacts
<1> DEFINE initial == IF storeMode = "local" THEN "undefined" ELSE "pending"
<1>2. upload' = [a \in Range(stored) \cup Range(ids) |-> IF a \in Range(ids) THEN initial ELSE upload[a]]
  BY DEF RegisterArtifacts
<1>3. initial # "uploaded"
  OBVIOUS
<1> HIDE DEF initial
<1>4. \A a \in DOMAIN upload' : \/ upload'[a] # "uploaded"
                                \/ a \in DOMAIN upload /\ upload'[a] = upload[a]
  BY <1>2, <1>3 DEF Stocked
<1> QED
  BY <1>1, <1>2, <1>4 DEF Stocked

\* Before the first flush.
Gathering == InTry \cup {"finally", "teardown", "report"}

\* Artifacts are registered, among them the log of a command that ended.
LEMMA EvidenceGrows ==
    ASSUME ExecutionTypeOK, EvidenceInv, phase \in Gathering, phase' \in Gathering,
           NEW ids \in Seq(ArtifactId), RegisterArtifacts(ids), <<"catalog", 0>> \notin Range(ids),
           evidence' \subseteq evidence \cup Range(ids), UNCHANGED <<sent, index, catalog>>,
           \/ UNCHANGED commands
           \/ /\ \E status \in {"passed", "failed", "blocked"} : commands' = Append(commands, status)
              /\ <<"log", Len(commands) + 1>> \in Range(ids)
    PROVE  EvidenceInv' /\ UploadInv'
<1>0. phase \notin {"flush-catalog", "done", "failed"}
  BY DEF Gathering, InTry
<1>1. Stocked
  BY DEF EvidenceInv, Stocked
<1>2. /\ Stocked'
      /\ Range(stored') = Range(stored) \cup Range(ids)
      /\ \A a \in DOMAIN upload' : \/ upload'[a] # "uploaded"
                                   \/ a \in DOMAIN upload /\ upload'[a] = upload[a]
  BY <1>1, Registered
<1>3. /\ sent = {} /\ index = {} /\ catalog = <<>>
      /\ \A a \in DOMAIN upload : upload[a] # "uploaded"
      /\ <<"catalog", 0>> \notin Range(stored)
      /\ evidence \subseteq Range(stored)
      /\ \A i \in 1..Len(commands) : <<"log", i>> \in Range(stored)
  BY <1>0 DEF EvidenceInv, Gathering
<1>4. \A i \in 1..Len(commands') : <<"log", i>> \in Range(stored')
  <2>1. Len(commands) \in Nat
    BY DEF ExecutionTypeOK
  <2>2. Len(commands') = Len(commands) \/ (Len(commands') = Len(commands) + 1
                                           /\ <<"log", Len(commands) + 1>> \in Range(ids))
    BY OneMoreCommand
  <2>3. \A i \in 1..(Len(commands) + 1) : i = Len(commands) + 1 \/ i \in 1..Len(commands)
    BY <2>1
  <2> QED
    BY <1>2, <1>3, <2>1, <2>2, <2>3
<1>5. \A a \in DOMAIN upload' : upload'[a] # "uploaded"
  BY <1>2, <1>3
<1>6. evidence' \subseteq Range(stored') /\ <<"catalog", 0>> \notin Range(stored')
  BY <1>2, <1>3
<1>7. EvidenceInv'
  BY <1>2, <1>3, <1>4, <1>5, <1>6 DEF EvidenceInv, Stocked
<1>8. UploadInv'
  <2>1. phase' \notin {"flush", "flush-catalog", "failed"}
    BY DEF Gathering, InTry
  <2>2. sent' = {} /\ index' = {} /\ catalog' = <<>>
    BY <1>3
  <2> QED
    BY <2>1, <2>2 DEF UploadInv
<1> QED
  BY <1>7, <1>8

LEMMA EvidenceSame ==
    ASSUME EvidenceInv, phase \in Gathering, phase' \in Gathering \cup {"done", "failed"},
           UNCHANGED <<stored, upload, sent, index, catalog, commands>>, evidence' \subseteq evidence
    PROVE  EvidenceInv' /\ UploadInv'
<1>1. phase \notin {"flush", "flush-catalog", "done", "failed"} /\ phase' \notin {"flush", "flush-catalog"}
  BY DEF Gathering, InTry
<1>2. sent = {} /\ index = {} /\ catalog = <<>>
  BY <1>1 DEF EvidenceInv, Gathering
<1>3. EvidenceInv'
  BY <1>1 DEF EvidenceInv, Gathering
<1>4. UploadInv'
  BY <1>1, <1>2 DEF UploadInv
<1> QED
  BY <1>3, <1>4

LEMMA IsArtifact ==
    ASSUME NEW y \in Service \cup Nat
    PROVE  \A x \in ArtifactKind : <<x, y>> \in ArtifactId /\ <<x, y>> # <<"catalog", 0>>
<1>1. ASSUME NEW x \in ArtifactKind, <<x, y>> = <<"catalog", 0>>
      PROVE  FALSE
  <2>1. x = "catalog"
    BY <1>1
  <2> QED
    BY <2>1 DEF ArtifactKind
<1>2. ASSUME NEW x \in ArtifactKind
      PROVE  <<x, y>> \in ArtifactId
  BY DEF ArtifactId
<1> QED
  BY <1>1, <1>2

LEMMA ServiceArtifactsAreIds ==
    ASSUME Current \in Service
    PROVE  /\ ServiceArtifacts \in Seq(ArtifactId)
           /\ <<"catalog", 0>> \notin Range(ServiceArtifacts)
<1> DEFINE startup == IF after' /\ ~after THEN <<<<"startup", Current>>>> ELSE <<>>
           health == IF pos' # pos THEN <<<<"health", Current>>>> ELSE <<>>
           Ids == ArtifactId \ {<<"catalog", 0>>}
<1>1. <<"startup", Current>> \in Ids /\ <<"health", Current>> \in Ids
  BY IsArtifact DEF ArtifactKind
<1>2. startup \in Seq(Ids) /\ health \in Seq(Ids)
  BY <1>1
<1>3. ServiceArtifacts = startup \o health
  BY DEF ServiceArtifacts
<1> HIDE DEF startup, health, Ids
<1>4. ServiceArtifacts \in Seq(Ids)
  BY <1>2, <1>3, ConcatProperties
<1>5. Range(ServiceArtifacts) \in SUBSET Ids
  BY <1>4, RangeOfSeq
<1>6. Ids \subseteq ArtifactId /\ <<"catalog", 0>> \notin Ids
  BY DEF Ids
<1> QED
  BY <1>4, <1>5, <1>6, SeqMonotonic

LEMMA OneArtifact ==
    ASSUME NEW a \in ArtifactId, a # <<"catalog", 0>>
    PROVE  /\ <<a>> \in Seq(ArtifactId) /\ Range(<<a>>) = {a}
           /\ <<"catalog", 0>> \notin Range(<<a>>)
BY DEF Range

LEMMA LogIsArtifact ==
    ASSUME ExecutionTypeOK
    PROVE  <<"log", Len(commands) + 1>> \in ArtifactId /\ <<"log", Len(commands) + 1>> # <<"catalog", 0>>
<1>1. Len(commands) + 1 \in Nat
  BY DEF ExecutionTypeOK
<1> QED
  BY <1>1, IsArtifact DEF ArtifactKind

LEMMA StepEvidenceCatch ==
    ASSUME ExecutionTypeOK, EvidenceInv, UploadInv, phase \in Gathering, CatchAbort \/ CatchOther,
           evidence' \subseteq evidence, UNCHANGED <<sent, index, catalog>>
    PROVE  EvidenceInv' /\ UploadInv'
<1>1. phase' = "finally" /\ phase' \in Gathering
  BY DEF CatchAbort, CatchOther, Gathering
<1>2. CASE CatchAbort
  <2> DEFINE log == <<"log", Len(commands) + 1>>
  <2>1. /\ <<log>> \in Seq(ArtifactId) /\ Range(<<log>>) = {log}
        /\ <<"catalog", 0>> \notin Range(<<log>>)
    BY LogIsArtifact, OneArtifact
  <2>2. RegisterArtifacts(<<log>>) /\ commands' = Append(commands, "blocked")
    BY <1>2 DEF CatchAbort
  <2> HIDE DEF log
  <2>3. \E status \in {"passed", "failed", "blocked"} : commands' = Append(commands, status)
    BY <2>2
  <2>4. <<"log", Len(commands) + 1>> \in Range(<<log>>)
    BY <2>1 DEF log
  <2> QED
    BY <1>1, <2>1, <2>2, <2>3, <2>4, EvidenceGrows
<1>3. CASE CatchOther
  BY <1>1, <1>3, EvidenceSame DEF CatchOther
<1> QED
  BY <1>2, <1>3

LEMMA StepEvidenceCommand ==
    ASSUME ExecutionTypeOK, EvidenceInv, phase \in Gathering, phase' \in Gathering,
           NEW status \in {"passed", "failed"}, commands' = Append(commands, status),
           RegisterArtifacts(<<<<"log", Len(commands) + 1>>>>), UNCHANGED <<evidence, sent, index, catalog>>
    PROVE  EvidenceInv' /\ UploadInv'
<1> DEFINE log == <<"log", Len(commands) + 1>>
<1>1. /\ <<log>> \in Seq(ArtifactId) /\ Range(<<log>>) = {log}
      /\ <<"catalog", 0>> \notin Range(<<log>>)
  BY LogIsArtifact, OneArtifact
<1>2. RegisterArtifacts(<<log>>) /\ <<"log", Len(commands) + 1>> \in Range(<<log>>)
  BY <1>1
<1> HIDE DEF log
<1>3. \E st \in {"passed", "failed", "blocked"} : commands' = Append(commands, st)
  OBVIOUS
<1> QED
  BY <1>1, <1>2, <1>3, EvidenceGrows

\* What a browser check leaves.
LEMMA OutcomeArtifacts ==
    ASSUME NEW b, NEW n \in Nat, NEW o \in CheckOutcomes(b, n)
    PROVE  /\ o.kept \in Seq(ArtifactId) /\ <<"catalog", 0>> \notin Range(o.kept)
           /\ o.known \subseteq Range(o.kept)
<1> DEFINE page == <<"page", n>>
           shot == <<"capture", n>>
<1>1. page \in ArtifactId /\ shot \in ArtifactId /\ page # <<"catalog", 0>> /\ shot # <<"catalog", 0>>
  BY IsArtifact DEF ArtifactKind
<1>2. \/ o.kept = <<>> /\ o.known = {}
      \/ o.kept = <<page>> /\ o.known \in {{}, {page}}
      \/ o.kept = <<page, shot>> /\ o.known = {page, shot}
  <2>1. CASE ~b.target
    BY <2>1 DEF CheckOutcomes
  <2>2. CASE b.target
    BY <2>2 DEF CheckOutcomes
  <2> QED
    BY <2>1, <2>2
<1> HIDE DEF page, shot
<1>3. CASE o.kept = <<>> /\ o.known = {}
  BY <1>3 DEF Range
<1>4. CASE o.kept = <<page>> /\ o.known \in {{}, {page}}
  <2>1. <<page>> \in Seq(ArtifactId) /\ Range(<<page>>) = {page}
    BY <1>1, OneArtifact
  <2> QED
    BY <1>1, <1>4, <2>1
<1>5. CASE o.kept = <<page, shot>> /\ o.known = {page, shot}
  <2>1. <<page, shot>> \in Seq(ArtifactId)
    BY <1>1
  <2>2. Range(<<page, shot>>) = {page, shot}
    <3> DEFINE both == <<page, shot>>
    <3>1. DOMAIN both = {1, 2} /\ both[1] = page /\ both[2] = shot
      OBVIOUS
    <3> HIDE DEF both
    <3>2. Range(both) = {page, shot}
      BY <3>1 DEF Range
    <3> QED
      BY <3>2 DEF both
  <2> QED
    BY <1>1, <1>5, <2>1, <2>2
<1> QED
  BY <1>2, <1>3, <1>4, <1>5

LEMMA StepEvidenceTearDown ==
    ASSUME ExecutionTypeOK, EvidenceInv, TearDown
    PROVE  EvidenceInv' /\ UploadInv'
<1> DEFINE ids == (IF task.services[ToStop].stop THEN <<<<"teardown-log", ToStop>>>> ELSE <<>>)
                      \o <<<<"teardown", ToStop>>>>
           logs == IF task.services[ToStop].stop THEN <<<<"teardown-log", ToStop>>>> ELSE <<>>
           Ids == ArtifactId \ {<<"catalog", 0>>}
<1>1. /\ phase = "teardown" /\ phase' = "teardown" /\ RegisterArtifacts(ids)
      /\ evidence' = evidence \cup {<<"teardown", ToStop>>}
      /\ UNCHANGED <<commands, sent, index, catalog>>
  BY DEF TearDown
<1>2. ToStop \in Service
  <2>1. managed \in Seq(Service) /\ pos \in 1..Len(managed)
    BY <1>1 DEF ExecutionTypeOK, TearDown, TearDownService
  <2> QED
    BY <2>1, StopsLastFirst, ElementOfSeq
<1>3. <<"teardown-log", ToStop>> \in Ids /\ <<"teardown", ToStop>> \in Ids
  BY <1>2, IsArtifact DEF ArtifactKind
<1>4. logs \in Seq(Ids) /\ <<<<"teardown", ToStop>>>> \in Seq(Ids)
  BY <1>3
<1>5. Range(<<<<"teardown", ToStop>>>>) = {<<"teardown", ToStop>>}
  BY DEF Range
<1> HIDE DEF Ids
<1>6. ids \in Seq(Ids) /\ <<"teardown", ToStop>> \in Range(ids)
  <2> DEFINE last == <<<<"teardown", ToStop>>>>
  <2>1. ids = logs \o last
    OBVIOUS
  <2>2. logs \in Seq(Ids) /\ last \in Seq(Ids) /\ <<"teardown", ToStop>> \in Range(last)
    BY <1>4, <1>5
  <2> HIDE DEF ids, logs, last
  <2>3. ids \in Seq(Ids) /\ Range(ids) = Range(logs) \cup Range(last)
    BY <2>1, <2>2, ConcatProperties, RangeConcatenation
  <2> QED
    BY <2>2, <2>3
<1> HIDE DEF ids
<1>7. Range(ids) \in SUBSET Ids /\ Ids \subseteq ArtifactId /\ <<"catalog", 0>> \notin Ids
  BY <1>6, RangeOfSeq DEF Ids
<1>8. ids \in Seq(ArtifactId) /\ <<"catalog", 0>> \notin Range(ids)
  BY <1>6, <1>7, SeqMonotonic
<1> QED
  BY <1>1, <1>6, <1>8, EvidenceGrows DEF Gathering

-----------------------------------------------------------------------------
(* The uploads.                                                             *)

LEMMA StepEvidenceReport ==
    ASSUME ExecutionTypeOK, EvidenceInv, UploadInv, Report
    PROVE  EvidenceInv' /\ UploadInv'
<1> DEFINE kinds == {<<x, 0>> : x \in {"lifecycle", "report", "index"}}
<1>0. phase = "report" /\ UNCHANGED <<commands, evidence, catalog>>
  BY DEF Report
<1>1. /\ Stocked
      /\ sent = {} /\ index = {} /\ catalog = <<>>
      /\ \A a \in DOMAIN upload : upload[a] # "uploaded"
      /\ <<"catalog", 0>> \notin Range(stored)
      /\ evidence \subseteq Range(stored)
      /\ \A i \in 1..Len(commands) : <<"log", i>> \in Range(stored)
  BY <1>0 DEF EvidenceInv, Stocked
<1>2. \A x \in ArtifactKind : <<x, 0>> \in ArtifactId /\ <<x, 0>> # <<"catalog", 0>>
  BY IsArtifact
<1>3. CASE ~Automated
  <2>1. phase' \in {"done", "failed"} /\ UNCHANGED <<stored, upload, sent, index>>
    BY <1>3 DEF Report, storeVars
  <2> QED
    BY <1>0, <2>1, EvidenceSame DEF Gathering
<1>4. CASE Automated /\ thrown
  <2> DEFINE life == <<"lifecycle", 0>>
  <2>1. /\ phase' = "failed" /\ RegisterArtifacts(<<life>>) /\ UNCHANGED <<storeMode, sent, index>>
    BY <1>4 DEF Report, taskVars
  <2>2. life \in ArtifactId /\ life # <<"catalog", 0>>
    BY <1>2 DEF ArtifactKind
  <2> HIDE DEF life
  <2>3. <<life>> \in Seq(ArtifactId)
    BY <2>2
  <2>4. Stocked' /\ Range(stored') = Range(stored) \cup Range(<<life>>)
    BY <1>1, <2>1, <2>3, Registered
  <2>5. EvidenceInv'
    BY <1>0, <1>1, <2>1, <2>4 DEF EvidenceInv, Stocked, InTry
  <2>6. UploadInv'
    BY <1>0, <1>1, <2>1 DEF UploadInv
  <2> QED
    BY <2>5, <2>6
<1>5. CASE Automated /\ ~thrown
  <2> DEFINE a == <<"lifecycle", 0>>
             b == <<"report", 0>>
             c == <<"index", 0>>
             ids == <<a, b, c>>
  <2>1. /\ phase' = "flush" /\ RegisterArtifacts(ids) /\ flushing' = stored'
        /\ index' = Indexed /\ UNCHANGED <<storeMode, sent>>
    BY <1>5 DEF Report, BeginFlush, taskVars
  <2>2. /\ a \in ArtifactId /\ b \in ArtifactId /\ c \in ArtifactId
        /\ <<"catalog", 0>> \notin {a, b, c}
    BY <1>2 DEF ArtifactKind
  <2>3. Indexed = evidence \cup {<<"log", i>> : i \in 1..Len(commands)} \cup {a, b, c}
    <3>1. DOMAIN commands = 1..Len(commands)
      BY DEF ExecutionTypeOK
    <3> QED
      BY <3>1 DEF Indexed
  <2> HIDE DEF a, b, c
  <2>4. ids \in Seq(ArtifactId) /\ Range(ids) = {a, b, c}
    <3>1. ids \in Seq(ArtifactId) /\ DOMAIN ids = {1, 2, 3} /\ ids[1] = a /\ ids[2] = b /\ ids[3] = c
      BY <2>2
    <3> HIDE DEF ids
    <3> QED
      BY <3>1 DEF Range
  <2> HIDE DEF ids
  <2>5. /\ Stocked'
        /\ Range(stored') = Range(stored) \cup {a, b, c}
        /\ \A x \in DOMAIN upload' : \/ upload'[x] # "uploaded"
                                     \/ x \in DOMAIN upload /\ upload'[x] = upload[x]
    BY <1>1, <2>1, <2>4, Registered
  <2>6. <<"catalog", 0>> \notin Range(stored') /\ index' \subseteq Range(stored')
    BY <1>1, <2>1, <2>2, <2>3, <2>5
  <2>7. \A x \in DOMAIN upload' : upload'[x] # "uploaded"
    BY <1>1, <2>5
  <2>8. EvidenceInv'
    BY <1>0, <1>1, <2>1, <2>5, <2>6 DEF EvidenceInv, Stocked, InTry
  <2>9. UploadInv'
    BY <1>0, <1>1, <2>1, <2>5, <2>6, <2>7 DEF UploadInv, Stocked
  <2> QED
    BY <2>8, <2>9
<1> QED
  BY <1>3, <1>4, <1>5

\* A step of the upload loop leaves what was registered.
LEMMA LateEvidence ==
    ASSUME EvidenceInv, phase \in {"flush", "flush-catalog"}, phase' \in {phase, "done", "failed"},
           UNCHANGED <<stored, evidence, commands, catalog>>, DOMAIN upload' = DOMAIN upload
    PROVE  EvidenceInv'
<1>1. phase' \notin InTry \cup {"finally", "teardown", "report"}
  BY DEF InTry
<1> QED
  BY <1>1 DEF EvidenceInv

LEMMA StepUpload ==
    ASSUME EvidenceInv, UploadInv, phase = "flush", phase' = "flush", FlushStep,
           UNCHANGED <<stored, index, catalog, storeMode>>
    PROVE  UploadInv' /\ DOMAIN upload' = DOMAIN upload
<1>1. /\ flushing \in Seq(ArtifactId) /\ IsInjective(flushing) /\ flushing # <<>>
      /\ Range(flushing) \subseteq Range(stored) \ sent
      /\ DOMAIN upload = Range(stored) /\ catalog = <<>> /\ DOMAIN catalog = {}
      /\ \A a \in DOMAIN upload : upload[a] = "uploaded" <=> a \in sent
      /\ storeMode # "remote" => sent = {}
      /\ index \subseteq Range(stored)
  BY DEF EvidenceInv, UploadInv, FlushStep, FlushWithoutUpload, UploadAccepted, UploadRefused
<1> DEFINE first == Head(flushing)
           rest == Tail(flushing)
<1>2. /\ first \in Range(flushing)
      /\ rest \in Seq(ArtifactId) /\ IsInjective(rest)
      /\ Range(rest) \subseteq Range(flushing) \ {first}
  BY <1>1, TakenOff
<1> HIDE DEF first, rest
<1>3. CASE FlushWithoutUpload
  <2>1. /\ storeMode # "remote" /\ sent' = sent /\ flushing' = <<>> /\ sent = {}
        /\ DOMAIN upload' = DOMAIN upload
        /\ \A a \in DOMAIN upload : upload'[a] \in {"failed", "skipped", upload[a]}
    BY <1>1, <1>3 DEF FlushWithoutUpload
  <2>2. \A a \in DOMAIN upload : upload'[a] # "uploaded"
    BY <1>1, <2>1
  <2>3. Range(<<>>) = {} /\ <<>> \in Seq(ArtifactId) /\ IsInjective(<<>>)
    BY DEF Range, IsInjective
  <2> QED
    BY <1>1, <2>1, <2>2, <2>3 DEF UploadInv
<1>4. CASE UploadAccepted
  <2>1. /\ storeMode = "remote" /\ sent' = sent \cup {first} /\ flushing' = rest
        /\ upload' = [upload EXCEPT ![first] = "uploaded"]
    BY <1>4 DEF UploadAccepted, Settle, first, rest
  <2> QED
    BY <1>1, <1>2, <2>1 DEF UploadInv
<1>5. CASE UploadRefused
  <2>1. /\ storeMode = "remote" /\ sent' = sent /\ flushing' = rest
        /\ upload' = [upload EXCEPT ![first] = "failed"]
    BY <1>5 DEF UploadRefused, Settle, first, rest
  <2> QED
    BY <1>1, <1>2, <2>1 DEF UploadInv
<1> QED
  BY <1>3, <1>4, <1>5 DEF FlushStep

LEMMA StepUploadCatalog ==
    ASSUME EvidenceInv, UploadInv, phase = "flush-catalog", phase' = "flush-catalog", FlushStep,
           UNCHANGED <<stored, index, catalog, storeMode>>
    PROVE  UploadInv' /\ DOMAIN upload' = DOMAIN upload
<1> DEFINE a == <<"catalog", 0>>
<1>1. /\ flushing = <<a>>
      /\ index \subseteq Range(stored) /\ a \notin DOMAIN catalog
      /\ \A x \in DOMAIN catalog : catalog[x] = "uploaded" <=> x \in sent
      /\ storeMode # "remote" => sent = {}
  BY DEF UploadInv, FlushStep, FlushWithoutUpload, UploadAccepted, UploadRefused
<1> HIDE DEF a
<1>2. Head(flushing) = a /\ Tail(flushing) = <<>>
  BY <1>1
<1>3. /\ DOMAIN upload' = DOMAIN upload
      /\ flushing' = <<>>
      /\ \/ sent' = sent
         \/ storeMode = "remote" /\ sent' = sent \cup {a}
  <2>1. CASE FlushWithoutUpload
    BY <2>1 DEF FlushWithoutUpload
  <2>2. CASE UploadAccepted
    BY <1>2, <2>2 DEF UploadAccepted, Settle
  <2>3. CASE UploadRefused
    BY <1>2, <2>3 DEF UploadRefused, Settle
  <2> QED
    BY <2>1, <2>2, <2>3 DEF FlushStep
<1> QED
  BY <1>1, <1>3 DEF UploadInv, a

LEMMA StepEvidenceThrows ==
    ASSUME EvidenceInv, UploadInv, FlushThrows
    PROVE  EvidenceInv' /\ UploadInv'
<1>1. /\ phase \in {"flush", "flush-catalog"} /\ phase' = "failed" /\ storeMode = "remote"
      /\ flushing # <<>> /\ sent' \in {sent, sent \cup {Head(flushing)}}
      /\ UNCHANGED <<storeMode, stored, upload, index, catalog, evidence, commands>>
  BY DEF FlushThrows, UploadBreaks, taskVars
<1>2. EvidenceInv'
  BY <1>1, LateEvidence
<1>3. ASSUME NEW x \in DOMAIN catalog
      PROVE  x # Head(flushing)
  <2>1. CASE phase = "flush"
    <3>1. DOMAIN catalog = {}
      BY <2>1 DEF EvidenceInv
    <3> QED
      BY <1>3, <3>1
  <2>2. CASE phase = "flush-catalog"
    <3>1. flushing = <<<<"catalog", 0>>>>
      BY <1>1, <2>2 DEF UploadInv
    <3>2. Head(flushing) = <<"catalog", 0>>
      BY <3>1
    <3> QED
      BY <1>3, <3>2 DEF UploadInv
  <2> QED
    BY <1>1, <2>1, <2>2
<1>4. UploadInv'
  BY <1>1, <1>3 DEF UploadInv
<1> QED
  BY <1>2, <1>4

LEMMA StepEvidenceCatalog ==
    ASSUME EvidenceInv, UploadInv, WriteCatalog
    PROVE  EvidenceInv' /\ UploadInv'
<1> DEFINE a == <<"catalog", 0>>
<1>1. /\ phase = "flush" /\ phase' = "flush-catalog"
      /\ catalog' = upload /\ RegisterArtifacts(<<a>>) /\ flushing' = <<a>>
      /\ UNCHANGED <<storeMode, sent, index, evidence, commands>>
  BY DEF WriteCatalog, BeginFlush, taskVars
<1>2. /\ Stocked /\ a \notin Range(stored)
      /\ evidence \subseteq Range(stored)
      /\ \A i \in 1..Len(commands) : <<"log", i>> \in Range(stored)
      /\ index \subseteq Range(stored)
      /\ \A x \in DOMAIN upload : upload[x] = "uploaded" <=> x \in sent
      /\ storeMode # "remote" => sent = {}
  BY <1>1 DEF EvidenceInv, UploadInv, Stocked
<1>3. a \in ArtifactId
  BY DEF ArtifactId
<1> HIDE DEF a
<1>4. <<a>> \in Seq(ArtifactId)
  BY <1>3
<1>5. Stocked' /\ Range(stored') = Range(stored) \cup Range(<<a>>)
  BY <1>1, <1>2, <1>4, Registered
<1>6. EvidenceInv'
  BY <1>1, <1>2, <1>5 DEF EvidenceInv, Stocked, InTry
<1>7. UploadInv'
  BY <1>1, <1>2, <1>5 DEF UploadInv, Stocked, a
<1> QED
  BY <1>6, <1>7

LEMMA StepEvidence ==
    ASSUME ExecutionTypeOK, EvidenceInv, UploadInv, [ExecutionNext]_vars
    PROVE  EvidenceInv' /\ UploadInv'
<1>1. CASE OrchestrateServices
  <2>1. /\ phase \in Gathering /\ phase' \in Gathering /\ RegisterArtifacts(ServiceArtifacts)
        /\ evidence' = evidence \cup Range(ServiceArtifacts)
        /\ UNCHANGED <<commands, sent, index, catalog>>
    BY <1>1 DEF OrchestrateServices, Gathering, InTry
  <2>2. Current \in Service
    BY <1>1, OrchestrationKeeps, OrchestrateMoves, ServiceAtHand DEF ExecutionTypeOK
  <2>3. ServiceArtifacts \in Seq(ArtifactId) /\ <<"catalog", 0>> \notin Range(ServiceArtifacts)
    BY <2>2, ServiceArtifactsAreIds
  <2> QED
    BY <2>1, <2>3, EvidenceGrows
<1>2. CASE OrchestrationThrows \/ CommandAborted \/ CommandErrs \/ CheckUrlThrows
  <2>1. /\ phase \in Gathering /\ (CatchAbort \/ CatchOther) /\ evidence' \subseteq evidence
        /\ UNCHANGED <<sent, index, catalog>>
    BY <1>2 DEF OrchestrationThrows, CommandAborted, CommandErrs, CheckUrlThrows, Gathering, InTry
  <2> QED
    BY <2>1, StepEvidenceCatch
<1>3. CASE NextCommand
  <2>1. phase \in Gathering /\ UNCHANGED <<evidence, sent, index, catalog>>
    BY <1>3 DEF NextCommand, Gathering, InTry
  <2>2. CASE Aborted
    BY <1>3, <2>1, <2>2, StepEvidenceCatch DEF NextCommand
  <2>3. CASE ~Aborted
    <3>1. phase' \in Gathering /\ UNCHANGED <<commands, stored, upload>>
      BY <1>3, <2>3 DEF NextCommand, Gathering, InTry
    <3> QED
      BY <2>1, <3>1, EvidenceSame
  <2> QED
    BY <2>2, <2>3
<1>4. ASSUME NEW status \in {"passed", "failed"}, CommandCloses(status)
      PROVE  EvidenceInv' /\ UploadInv'
  BY <1>4, StepEvidenceCommand DEF CommandCloses, Gathering, InTry
<1>5. CASE RunBrowserCheck
  <2> DEFINE n == Len(checked) + 1
             b == task.browser[n]
  <2>1. PICK o \in CheckOutcomes(b, n) :
            RegisterArtifacts(o.kept) /\ evidence' = evidence \cup o.known
    BY <1>5 DEF RunBrowserCheck
  <2>2. n \in Nat
    BY DEF ExecutionTypeOK
  <2> HIDE DEF n, b
  <2>3. /\ o.kept \in Seq(ArtifactId) /\ <<"catalog", 0>> \notin Range(o.kept)
        /\ o.known \subseteq Range(o.kept)
    BY <2>2, OutcomeArtifacts
  <2>4. /\ phase \in Gathering /\ phase' \in Gathering
        /\ UNCHANGED <<commands, sent, index, catalog>>
    BY <1>5 DEF RunBrowserCheck, Gathering, InTry
  <2>5. evidence' \subseteq evidence \cup Range(o.kept)
    BY <2>1, <2>3
  <2> QED
    BY <2>1, <2>3, <2>4, <2>5, EvidenceGrows
<1>6. CASE BrowserChecked
  <2>1. /\ phase \in Gathering /\ phase' \in Gathering
        /\ UNCHANGED <<evidence, sent, index, catalog>>
    BY <1>6 DEF BrowserChecked, Gathering, InTry
  <2>2. CASE required > 0
    BY <1>6, <2>1, <2>2, StepEvidenceCommand DEF BrowserChecked
  <2>3. CASE ~(required > 0)
    BY <1>6, <2>1, <2>3, EvidenceSame DEF BrowserChecked
  <2> QED
    BY <2>2, <2>3
<1>7. CASE TearDown
  BY <1>7, StepEvidenceTearDown
<1>8. CASE Report
  BY <1>8, StepEvidenceReport
<1>9. CASE Flush
  <2>1. /\ phase \in {"flush", "flush-catalog"} /\ phase' = phase /\ FlushStep
        /\ UNCHANGED <<stored, index, catalog, evidence, commands, storeMode>>
    BY <1>9 DEF Flush, FlushStep, FlushWithoutUpload, UploadAccepted, UploadRefused, Settle, taskVars,
                executionVars
  <2>2. UploadInv' /\ DOMAIN upload' = DOMAIN upload
    BY <2>1, StepUpload, StepUploadCatalog
  <2> QED
    BY <2>1, <2>2, LateEvidence
<1>10. CASE FlushThrows
  BY <1>10, StepEvidenceThrows
<1>11. CASE WriteCatalog
  BY <1>11, StepEvidenceCatalog
<1>12. CASE Return
  <2>1. /\ phase = "flush-catalog" /\ phase' = "done"
        /\ UNCHANGED <<storeMode, stored, upload, sent, index, catalog, evidence, commands>>
    BY <1>12 DEF Return, taskVars, storeVars
  <2>2. EvidenceInv'
    BY <2>1, LateEvidence
  <2> QED
    BY <2>1, <2>2 DEF UploadInv
<1>13. CASE Begin \/ ServicesUp \/ CommandsRun \/ Finally \/ TornDown \/ GuardFires \/ ProcessDies
  <2>1. /\ phase \in Gathering /\ phase' \in Gathering \cup {"done", "failed"}
        /\ UNCHANGED <<stored, upload, sent, index, catalog, commands, evidence>>
    BY <1>13
    DEF Begin, ServicesUp, CommandsRun, Finally, TornDown, GuardFires, ProcessDies, GuardArmed,
        Gathering, InTry, storeVars, executionVars
  <2> QED
    BY <2>1, EvidenceSame
<1>14. CASE UNCHANGED vars
  BY <1>14 DEF vars, storeVars, executionVars, taskVars, EvidenceInv, UploadInv
<1> QED
  BY <1>1, <1>2, <1>3, <1>4, <1>5, <1>6, <1>7, <1>8, <1>9, <1>10, <1>11, <1>12, <1>13, <1>14
  DEF ExecutionNext, Executor

-----------------------------------------------------------------------------
(* The theorems.                                                            *)

ExecutionInv ==
    /\ ExecutionTypeOK /\ AbortInv /\ ProgressInv
    /\ ServicesInv /\ ChecksInv /\ VerdictInv
    /\ ManagedInv /\ StoppedInv
    /\ EvidenceInv /\ UploadInv

LEMMA InitExecution == ExecutionInit => ExecutionInv
<1> SUFFICES ASSUME ExecutionInit
             PROVE  ExecutionInv
  OBVIOUS
<1> USE DEF ExecutionInit, ServiceInit, StoreInit
<1>1. Range(<<>>) = {} /\ IsInjective(<<>>)
  BY DEF Range, IsInjective
<1>2. ExecutionTypeOK
  <2>1. summary \in [Service -> {"none", "ready", "started", "failed"}]
    OBVIOUS
  <2>2. managed \in Seq(Service)
    OBVIOUS
  <2>3. /\ commands \in Seq({"passed", "failed", "blocked"})
        /\ checked \in Seq({"passed", "failed", "skipped"})
    OBVIOUS
  <2>4. timedOut \in BOOLEAN /\ after \in BOOLEAN /\ thrown \in BOOLEAN
    BY Zenon
  <2> QED
    BY <2>1, <2>2, <2>3, <2>4 DEF ExecutionTypeOK, Phase
<1>3. AbortInv /\ ProgressInv /\ VerdictInv
  BY DEF AbortInv, ProgressInv, VerdictInv, CompletedMeansVerified, InTry
<1>4. ServicesInv
  <2>1. \A i \in 1..Len(Order) : ~(i < pos)
    OBVIOUS
  <2> QED
    BY <2>1 DEF ServicesInv
<1>5. ChecksInv
  BY DEF ChecksInv, Claim
<1>6. ManagedInv /\ StoppedInv
  BY DEF ManagedInv, StoppedInv, Answered, Settling
<1>7. EvidenceInv
  BY <1>1 DEF EvidenceInv
<1>8. UploadInv
  BY DEF UploadInv
<1> QED
  BY <1>2, <1>3, <1>4, <1>5, <1>6, <1>7, <1>8 DEF ExecutionInv

LEMMA StepExecution == ExecutionInv /\ [ExecutionNext]_vars => ExecutionInv'
BY StepType, StepAbort, StepProgress, StepServices, StepChecks, StepVerdict, StepManaged, StepStopped,
   StepEvidence DEF ExecutionInv

LEMMA ExecutionSafe == ExecutionSpec => []ExecutionInv
BY InitExecution, StepExecution, PTL DEF ExecutionSpec

\* An execution that says completed has verified what it was asked to: whatever
\* the services, the commands and the checks do, and whenever the guard fires.
THEOREM CompletedIsVerifiedAlways == ExecutionSpec => []CompletedMeansVerified
<1>1. ExecutionInv => CompletedMeansVerified
  BY DEF ExecutionInv, VerdictInv
<1> QED
  BY <1>1, ExecutionSafe, PTL

\* What was started is stopped, or the result tells that it could not be.
THEOREM NoServiceIsLeftRunning == ExecutionSpec => []StartedServicesAreStopped
<1>1. ExecutionInv => StartedServicesAreStopped
  BY StoppedInTheEnd DEF ExecutionInv
<1> QED
  BY <1>1, ExecutionSafe, PTL

\* The index lists nothing that is not stored, and the catalog is right about
\* every upload.
THEOREM EvidenceIsToldAlways == ExecutionSpec => []EvidenceIsTold
<1>1. ExecutionInv => EvidenceIsTold
  BY DEF ExecutionInv, UploadInv, EvidenceIsTold
<1> QED
  BY <1>1, ExecutionSafe, PTL
=============================================================================
