--------------------------- MODULE RecursionProofs ---------------------------
(***************************************************************************)
(* Induction and recursion over an initial piece of the naturals, with     *)
(* sets and functions in the place of predicates and operators: what is    *)
(* needed to reason about recursive functions and about folds of           *)
(* sequences.                                                              *)
(***************************************************************************)
EXTENDS Integers, WellFoundedInduction, TLAPS

\* A set of naturals that is not empty has a least element.
LEMMA LeastNatural ==
    ASSUME NEW N \in SUBSET Nat, N # {}
    PROVE  \E n \in N : \A m \in N : n =< m
<1> DEFINE less == OpToRel(<, Nat)
<1>0. IsWellFoundedOn(less, Nat)
  BY NatLessThanWellFounded
<1>1. ASSUME NEW m \in Nat, NEW n \in Nat, m < n
      PROVE  <<m, n>> \in less
  BY <1>1 DEF OpToRel
<1> HIDE DEF less
<1>2. PICK n \in N : \A m \in N : ~(<<m, n>> \in less)
  BY <1>0, WFMin
<1>3. ASSUME NEW m \in N
      PROVE  n =< m
  <2>1. m \in Nat /\ n \in Nat
    OBVIOUS
  <2>2. ~(m < n)
    BY <1>1, <1>2, <2>1, Zenon
  <2> QED
    BY <2>1, <2>2
<1> QED
  BY <1>3

\* What holds of 0, and of k when it holds of k - 1, holds up to n.
LEMMA IntervalInduction ==
    ASSUME NEW n \in Nat, NEW S, 0 \in S, \A k \in 1..n : k - 1 \in S => k \in S
    PROVE  \A k \in 0..n : k \in S
<1> DEFINE N == {k \in 0..n : k \notin S}
<1>1. CASE N # {}
  <2>1. N \in SUBSET Nat
    OBVIOUS
  <2>2. PICK k \in N : \A m \in N : k =< m
    BY <1>1, <2>1, LeastNatural
  <2>3. k \in 1..n /\ k - 1 \in 0..n
    BY <2>2
  <2>4. k - 1 \in S
    BY <2>2, <2>3
  <2> QED
    BY <2>2, <2>3, <2>4
<1>2. CASE N = {}
  BY <1>2
<1> QED
  BY <1>1, <1>2

\* A function may be defined by a base and a step.
IsRecursion(g, n, X, base, step) ==
    /\ g \in [0..n -> X]
    /\ g[0] = base
    /\ \A k \in 1..n : g[k] = step[<<g[k - 1], k>>]

LEMMA RecursionExists ==
    ASSUME NEW n \in Nat, NEW X, NEW base \in X, NEW step \in [X \X (1..n) -> X]
    PROVE  \E g : IsRecursion(g, n, X, base, step)
<1> DEFINE Works(g, m) == g[0] = base /\ \A k \in 1..m : g[k] = step[<<g[k - 1], k>>]
           S == {m \in 0..n : \E g \in [0..m -> X] : Works(g, m)}
<1>1. 0 \in S
  <2> DEFINE g == [k \in 0..0 |-> base]
  <2>1. g \in [0..0 -> X] /\ Works(g, 0)
    OBVIOUS
  <2> HIDE DEF g, Works
  <2>2. \E f \in [0..0 -> X] : Works(f, 0)
    BY <2>1
  <2> QED
    BY <2>2
<1>2. ASSUME NEW m \in 1..n, m - 1 \in S
      PROVE  m \in S
  <2>1. PICK g \in [0..(m - 1) -> X] : Works(g, m - 1)
    BY <1>2
  <2> DEFINE h == [k \in 0..m |-> IF k = m THEN step[<<g[m - 1], m>>] ELSE g[k]]
  <2>0. m \in Nat /\ m - 1 \in 0..(m - 1) /\ m \in 1..n
    OBVIOUS
  <2>2. h \in [0..m -> X]
    BY <2>0
  <2>h. \A k \in 0..m : h[k] = IF k = m THEN step[<<g[m - 1], m>>] ELSE g[k]
    OBVIOUS
  <2> HIDE DEF h
  <2>3. ASSUME NEW k \in 1..m
        PROVE  h[k] = step[<<h[k - 1], k>>]
    <3>1. h[k - 1] = g[k - 1]
      BY <2>0, <2>h
    <3>2. CASE k = m
      BY <2>h, <3>1, <3>2
    <3>3. CASE k # m
      <4>1. k \in 1..(m - 1)
        BY <3>3
      <4> QED
        BY <2>1, <2>h, <3>1, <3>3, <4>1
    <3> QED
      BY <3>2, <3>3
  <2>4. h[0] = base
    BY <2>0, <2>1, <2>h
  <2>5. Works(h, m)
    BY <2>3, <2>4
  <2> HIDE DEF Works
  <2> QED
    BY <2>2, <2>5
<1> HIDE DEF S
<1>3. n \in S
  BY <1>1, <1>2, IntervalInduction
<1> QED
  BY <1>3 DEF S, IsRecursion

-----------------------------------------------------------------------------
(* A fold of a sequence takes the greatest of its indices off, one after   *)
(* the other.                                                              *)

Greatest(s) == CHOOSE x \in s : \A y \in s : x >= y

LEMMA GreatestIsIn ==
    ASSUME NEW n \in Nat, NEW s \in SUBSET (1..n), s # {}
    PROVE  Greatest(s) \in s
<1> DEFINE up == {n - x : x \in s}
<1>0. \A x \in s : n - x \in Nat
  OBVIOUS
<1>1. up \in SUBSET Nat /\ up # {}
  BY <1>0
<1>2. \A x \in s : n - x \in up
  OBVIOUS
<1>3. \A m \in up : \E x \in s : m = n - x
  OBVIOUS
<1> HIDE DEF up
<1>4. PICK m \in up : \A k \in up : m =< k
  BY <1>1, LeastNatural
<1>5. PICK x \in s : m = n - x
  BY <1>3
<1>6. \A y \in s : x >= y
  BY <1>2, <1>4, <1>5
<1> QED
  BY <1>6 DEF Greatest

LEMMA GreatestOfInterval ==
    ASSUME NEW n \in Nat, NEW k \in 1..n, NEW s \in SUBSET (1..k), k \in s
    PROVE  Greatest(s) = k
<1>1. \A y \in s : k >= y
  OBVIOUS
<1>2. \A x \in s : (\A y \in s : x >= y) => x = k
  OBVIOUS
<1> QED
  BY <1>1, <1>2 DEF Greatest

\* What a fold makes of every set of indices.
IsFold(iter, n, X, base, step) ==
    /\ iter \in [SUBSET (1..n) -> X]
    /\ \A s \in SUBSET (1..n) :
            iter[s] = IF s = {} THEN base
                      ELSE step[<<iter[s \ {Greatest(s)}], Greatest(s)>>]

LEMMA FoldExists ==
    ASSUME NEW n \in Nat, NEW X, NEW base \in X, NEW step \in [X \X (1..n) -> X]
    PROVE  \E iter : IsFold(iter, n, X, base, step)
<1> DEFINE Works(iter, m) ==
                \A s \in SUBSET (1..m) :
                    iter[s] = IF s = {} THEN base
                              ELSE step[<<iter[s \ {Greatest(s)}], Greatest(s)>>]
           Has(m) == \E iter \in [SUBSET (1..m) -> X] : Works(iter, m)
           S == {m \in 0..n : Has(m)}
<1>1. 0 \in S
  <2> DEFINE none == [s \in SUBSET (1..0) |-> base]
  <2>1. none \in [SUBSET (1..0) -> X] /\ Works(none, 0)
    <3>1. \A s \in SUBSET (1..0) : s = {}
      OBVIOUS
    <3> QED
      BY <3>1
  <2> HIDE DEF none, Works
  <2>2. Has(0)
    BY <2>1
  <2> HIDE DEF Has
  <2> QED
    BY <2>2
<1>2. ASSUME NEW m \in 1..n, m - 1 \in S
      PROVE  m \in S
  <2>1. PICK iter \in [SUBSET (1..(m - 1)) -> X] : Works(iter, m - 1)
    BY <1>2
  <2> DEFINE h == [s \in SUBSET (1..m) |-> IF m \in s THEN step[<<iter[s \ {m}], m>>] ELSE iter[s]]
  <2>2. \A s \in SUBSET (1..m) : s \ {m} \in SUBSET (1..(m - 1))
    OBVIOUS
  <2>3. \A s \in SUBSET (1..m) : m \notin s => s \in SUBSET (1..(m - 1))
    OBVIOUS
  <2>4. h \in [SUBSET (1..m) -> X]
    BY <2>2, <2>3
  <2>5. ASSUME NEW s \in SUBSET (1..m)
        PROVE  h[s] = IF s = {} THEN base
                      ELSE step[<<h[s \ {Greatest(s)}], Greatest(s)>>]
    <3>1. CASE m \in s
      <4>1. Greatest(s) = m
        BY <3>1, GreatestOfInterval
      <4>2. h[s \ {m}] = iter[s \ {m}]
        OBVIOUS
      <4> QED
        BY <3>1, <4>1, <4>2
    <3>2. CASE m \notin s
      <4>1. s \in SUBSET (1..(m - 1)) /\ s \ {Greatest(s)} \in SUBSET (1..m)
        BY <2>3, <3>2
      <4>2. h[s] = iter[s] /\ h[s \ {Greatest(s)}] = iter[s \ {Greatest(s)}]
        BY <3>2, <4>1
      <4> QED
        BY <2>1, <4>1, <4>2
    <3> QED
      BY <3>1, <3>2
  <2> HIDE DEF h
  <2>6. Works(h, m)
    BY <2>5
  <2> HIDE DEF Works
  <2>7. Has(m)
    BY <2>4, <2>6
  <2> HIDE DEF Has
  <2> QED
    BY <2>7
<1> HIDE DEF S
<1>3. n \in S
  BY <1>1, <1>2, IntervalInduction
<1> QED
  BY <1>3 DEF S, IsFold

\* Along the initial pieces of the sequence it goes step by step.
LEMMA InitialPieces ==
    ASSUME NEW n \in Nat, NEW k \in 1..n
    PROVE  /\ 1..k \in SUBSET (1..n) /\ 1..k # {}
           /\ Greatest(1..k) = k
           /\ (1..k) \ {k} = 1..(k - 1)
<1>1. k \in 1..k /\ 1..k \in SUBSET (1..k)
  OBVIOUS
<1>2. Greatest(1..k) = k
  BY <1>1, GreatestOfInterval
<1> QED
  BY <1>1, <1>2
=============================================================================
