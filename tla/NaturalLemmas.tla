---------------------------- MODULE NaturalLemmas ----------------------------
(* What the proofs need of numbers: the least and the greatest of a set, and *)
(* induction over a set rather than a predicate, which no prover at hand     *)
(* could instantiate.                                                        *)
EXTENDS Integers, WellFoundedInduction, TLAPS

(* Every set of numbers that is not empty has a least one.                   *)
LEMMA LeastIn ==
  ASSUME NEW T \in SUBSET Nat, T # {}
  PROVE  \E n \in T : \A m \in T : n <= m
<1> DEFINE R == OpToRel(<, Nat)
<1>1. IsWellFoundedOn(R, Nat)
  BY NatLessThanWellFounded
<1> HIDE DEF R
<1>2. \E x \in T : \A y \in T : ~ (<<y, x>> \in R)
  BY <1>1, WFMin
<1>3. \A x, y \in Nat : y < x => <<y, x>> \in R
  BY DEF R, OpToRel
<1>4. PICK x \in T : \A y \in T : ~(<<y, x>> \in R)
  BY <1>2
<1>5. \A y \in T : ~(y < x)
  BY <1>3, <1>4
<1> QED BY <1>4, <1>5

(* Induction, over a set of numbers rather than a predicate.                 *)
LEMMA Induction ==
  ASSUME NEW S, 0 \in S, \A n \in Nat : n \in S => n + 1 \in S
  PROVE  Nat \subseteq S
<1> SUFFICES ASSUME Nat \ S # {} PROVE FALSE
  OBVIOUS
<1>1. PICK n \in Nat \ S : \A m \in Nat \ S : n <= m
  BY LeastIn
<1>2. n # 0 /\ n - 1 \in Nat /\ n - 1 \in S
  <2>1. n # 0
    OBVIOUS
  <2>2. n - 1 \in Nat /\ ~(n <= n - 1)
    BY <2>1
  <2> QED BY <1>1, <2>1, <2>2
<1> QED BY <1>2

(* A set of numbers that has a bound has a greatest one.                     *)
LEMMA GreatestIn ==
  ASSUME NEW n \in Nat, NEW T \in SUBSET (0 .. n), T # {}
  PROVE  \E k \in T : \A m \in T : k >= m
<1> DEFINE U == {n - m : m \in T}
<1>1. U \in SUBSET Nat /\ U # {}
  <2>1. \A m \in T : n - m \in Nat
    OBVIOUS
  <2> QED BY <2>1
<1>2. PICK u \in U : \A v \in U : u <= v
  BY <1>1, LeastIn
<1>3. PICK k \in T : u = n - k
  BY <1>2
<1>4. ASSUME NEW m \in T PROVE k >= m
  <2>1. n - k <= n - m
    BY <1>2, <1>3
  <2> QED BY <2>1
<1> QED BY <1>3, <1>4

(* A running sum over 1 .. N, as a function defined by its own last value,   *)
(* exists.                                                                   *)
LEMMA RunningSum ==
  ASSUME NEW c, NEW N \in Nat
  PROVE  \E g : g = [i \in 0 .. N |-> IF i = 0 THEN 0 ELSE g[i - 1] + c[i]]
<1> DEFINE S == {n \in Nat : \E g :
                   g = [i \in 0 .. n |-> IF i = 0 THEN 0 ELSE g[i - 1] + c[i]]}
<1>1. 0 \in S
  <2>1. [i \in {0} |-> 0]
          = [i \in 0 .. 0 |-> IF i = 0 THEN 0
                              ELSE [j \in {0} |-> 0][i - 1] + c[i]]
    OBVIOUS
  <2> QED BY <2>1
<1>2. ASSUME NEW n \in Nat, n \in S PROVE n + 1 \in S
  <2>1. PICK g : g = [i \in 0 .. n |-> IF i = 0 THEN 0 ELSE g[i - 1] + c[i]]
    BY <1>2
  <2> DEFINE h == [i \in 0 .. n + 1 |-> IF i = n + 1 THEN g[n] + c[n + 1]
                                        ELSE g[i]]
  <2>2. h = [i \in 0 .. n + 1 |-> IF i = 0 THEN 0 ELSE h[i - 1] + c[i]]
    <3>1. \A i \in 0 .. n + 1 : h[i] = IF i = 0 THEN 0 ELSE h[i - 1] + c[i]
      BY <2>1
    <3>2. DOMAIN h = 0 .. n + 1
      OBVIOUS
    <3> HIDE DEF h
    <3> QED BY <3>1, <3>2 DEF h
  <2> HIDE DEF h
  <2> QED BY <2>2
<1> HIDE DEF S
<1>3. N \in S
  BY <1>1, <1>2, Induction
<1> QED BY <1>3 DEF S

(* f starts as base, and G makes each of its values of the one before it.    *)
Stepwise(f, N, base, G) ==
  f = [n \in 0 .. N |-> IF n = 0 THEN base ELSE G[<<n, f[n - 1]>>]]

(* Such a function exists, and its values are where G's are.                 *)
LEMMA StepwiseExists ==
  ASSUME NEW V, NEW base \in V, NEW N \in Nat,
         NEW G \in [(1 .. N) \X V -> V]
  PROVE  \E f : Stepwise(f, N, base, G) /\ \A n \in 0 .. N : f[n] \in V
<1> DEFINE Is(m, f) == Stepwise(f, m, base, G)
           S == {m \in Nat : \E f : Is(m, f)}
<1>1. 0 \in S
  <2>1. Is(0, [n \in {0} |-> base])
    BY DEF Stepwise
  <2> QED BY <2>1
<1>2. ASSUME NEW m \in Nat, m \in S PROVE m + 1 \in S
  <2>1. PICK f : Is(m, f)
    BY <1>2
  <2> DEFINE h == [n \in 0 .. m + 1 |-> IF n = m + 1 THEN G[<<n, f[m]>>]
                                        ELSE f[n]]
  <2>2. \A n \in 0 .. m :
          f[n] = IF n = 0 THEN base ELSE G[<<n, f[n - 1]>>]
    BY <2>1 DEF Stepwise
  <2>3. ASSUME NEW n \in 0 .. m + 1
        PROVE  h[n] = IF n = 0 THEN base ELSE G[<<n, h[n - 1]>>]
    <3>1. n # 0 => n - 1 \in 0 .. m /\ n - 1 # m + 1
      OBVIOUS
    <3>2. n # 0 => h[n - 1] = f[n - 1]
      BY <3>1
    <3>3. CASE n = m + 1
      BY <3>2, <3>3
    <3>4. CASE n # m + 1
      <4>1. n \in 0 .. m /\ h[n] = f[n]
        BY <3>4
      <4> HIDE DEF h
      <4> QED BY <2>2, <3>2, <4>1
    <3> QED BY <3>3, <3>4
  <2>4. h = [n \in 0 .. m + 1 |-> h[n]]
    OBVIOUS
  <2> HIDE DEF h
  <2>5. Is(m + 1, h)
    BY <2>3, <2>4 DEF Stepwise
  <2> QED BY <2>5
<1> HIDE DEF S
<1>3. N \in S
  BY <1>1, <1>2, Induction
<1>4. PICK f : Stepwise(f, N, base, G)
  BY <1>3 DEF S
<1> DEFINE T == {m \in Nat : m <= N => f[m] \in V}
<1>5. 0 \in T
  BY <1>4 DEF Stepwise
<1>6. ASSUME NEW m \in Nat, m \in T PROVE m + 1 \in T
  <2> SUFFICES ASSUME m + 1 <= N PROVE f[m + 1] \in V
    OBVIOUS
  <2>1. f[m] \in V /\ m + 1 \in 1 .. N /\ m + 1 \in 0 .. N
        /\ (m + 1) - 1 = m /\ m + 1 # 0
    BY <1>6
  <2>2. f[m + 1] = G[<<m + 1, f[m]>>]
    BY <1>4, <2>1 DEF Stepwise
  <2> QED BY <2>1, <2>2
<1> HIDE DEF T
<1>7. \A m \in 0 .. N : f[m] \in V
  <2>1. \A m \in Nat : m \in T
    BY <1>5, <1>6, Induction
  <2> QED BY <2>1 DEF T
<1> QED BY <1>4, <1>7
=============================================================================
