---------------------------- MODULE LeastNumber ----------------------------
(***************************************************************************)
(* The least element of a set of numbers, from which the proofs know that  *)
(* the searches of the code, written with CHOOSE, find what they look for. *)
(***************************************************************************)
EXTENDS Integers, FiniteSets, FiniteSetTheorems, WellFoundedInduction, TLAPS

(***************************************************************************)
(* A non-empty set of numbers up to N has a least element: the initial     *)
(* segments 0..n of its elements are finite sets, ordered by inclusion.    *)
(***************************************************************************)
LEMMA LeastElement ==
  ASSUME NEW N \in Nat, NEW S, S \subseteq 0 .. N, S # {}
  PROVE  \E n \in S : \A m \in S : n <= m
<1> DEFINE T == {0 .. n : n \in S}
           R == StrictSubsetOrdering(0 .. N)
           F == FiniteSubsetsOf(0 .. N)
<1>1. IsWellFoundedOn(R, F)
  BY FS_StrictSubsetOrderingWellFounded
<1>2. T \subseteq SUBSET (0 .. N)
  OBVIOUS
<1>3. T # {}
  OBVIOUS
<1>4. F = SUBSET (0 .. N)
  <2>1. IsFiniteSet(0 .. N)
    BY 0 \in Int, N \in Int, FS_Interval
  <2> QED
    BY <2>1, FS_FiniteSubsetsOfFinite
<1>5. PICK x \in T : \A y \in T : ~ (<<y, x>> \in R)
  <2> HIDE DEF T, R, F
  <2> QED
    BY <1>1, <1>2, <1>3, <1>4, WFMin, Zenon
<1>6. PICK n \in S : x = 0 .. n
  OBVIOUS
<1>7. \A m \in S : n <= m
  <2> SUFFICES ASSUME NEW m \in S, m < n PROVE FALSE
    OBVIOUS
  <2>1. 0 .. m \in T
    OBVIOUS
  <2>2. (0 .. m) \subseteq (0 .. n) /\ (0 .. m) # 0 .. n
    <3>1. n \in 0 .. n /\ ~ (n \in 0 .. m)
      OBVIOUS
    <3>2. (0 .. m) \subseteq (0 .. n)
      OBVIOUS
    <3> QED
      BY <3>1, <3>2
  <2>3. <<0 .. m, x>> \in R
    BY <2>2, <1>6, <1>2 DEF StrictSubsetOrdering
  <2> QED
    BY <2>1, <2>3, <1>5
<1> QED
  BY <1>7

(***************************************************************************)
(* Induction over the numbers up to N, for a set of numbers.               *)
(***************************************************************************)
LEMMA UpTo ==
  ASSUME NEW N \in Nat, NEW S, 0 \in S, \A n \in 0 .. N - 1 : n \in S => n + 1 \in S
  PROVE  \A n \in 0 .. N : n \in S
<1> DEFINE T == (0 .. N) \ S
<1> SUFFICES ASSUME T # {} PROVE FALSE
  OBVIOUS
<1>1. PICK n \in T : \A m \in T : n <= m
  <2>1. T \subseteq 0 .. N
    OBVIOUS
  <2> HIDE DEF T
  <2> QED
    BY <2>1, LeastElement
<1>2. n \in 1 .. N
  OBVIOUS
<1>3. n - 1 \in 0 .. N - 1 /\ n - 1 \in S
  BY <1>1, <1>2
<1> QED
  BY <1>2, <1>3

(***************************************************************************)
(* What is gone through step by step, from a, within the set S, exists,    *)
(* and so the recursive function that the models write for it is one.      *)
(***************************************************************************)
Goes(f, N, a, step) == f[0] = a /\ \A n \in 1 .. N : f[n] = step[n][f[n - 1]]

LEMMA Recursion ==
  ASSUME NEW N \in Nat, NEW S, NEW a \in S, NEW step \in [1 .. N -> [S -> S]]
  PROVE  \E f \in [0 .. N -> S] : Goes(f, N, a, step)
<1> DEFINE T == {k \in 0 .. N : \E f \in [0 .. k -> S] : Goes(f, k, a, step)}
<1>1. 0 \in T
  <2> DEFINE g == [n \in 0 .. 0 |-> a]
  <2>1. g \in [0 .. 0 -> S] /\ g[0] = a
    OBVIOUS
  <2>2. Goes(g, 0, a, step)
    BY <2>1 DEF Goes
  <2> HIDE DEF g
  <2> QED
    BY <2>1, <2>2
<1>2. \A k \in 0 .. N - 1 : k \in T => k + 1 \in T
  <2> SUFFICES ASSUME NEW k \in 0 .. N - 1, NEW f \in [0 .. k -> S], Goes(f, k, a, step)
               PROVE  k + 1 \in T
    OBVIOUS
  <2> DEFINE g == [n \in 0 .. k + 1 |-> IF n = k + 1 THEN step[k + 1][f[k]] ELSE f[n]]
  <2>1. step[k + 1][f[k]] \in S
    <3>1. k + 1 \in 1 .. N /\ k \in 0 .. k
      OBVIOUS
    <3> QED
      BY <3>1
  <2>2. g \in [0 .. k + 1 -> S]
    BY <2>1
  <2>3. /\ g[k + 1] = step[k + 1][f[k]] /\ \A n \in 0 .. k : g[n] = f[n]
    OBVIOUS
  <2> HIDE DEF g
  <2>4. \A n \in 1 .. k + 1 : g[n] = step[n][g[n - 1]]
    <3> TAKE n \in 1 .. k + 1
    <3>1. CASE n = k + 1
      BY <2>3, <3>1
    <3>2. CASE n \in 1 .. k
      <4>1. n \in 0 .. k /\ n - 1 \in 0 .. k
        BY <3>2
      <4>2. f[n] = step[n][f[n - 1]]
        BY <3>2 DEF Goes
      <4> QED
        BY <2>3, <4>1, <4>2
    <3> QED
      BY <3>1, <3>2
  <2>5. Goes(g, k + 1, a, step)
    <3>1. g[0] = a
      BY <2>3 DEF Goes
    <3> QED
      BY <2>4, <3>1 DEF Goes
  <2>6. k + 1 \in 0 .. N
    OBVIOUS
  <2> QED
    BY <2>2, <2>5, <2>6
<1>3. N \in T
  <2> HIDE DEF T
  <2>1. \A n \in 0 .. N : n \in T
    BY <1>1, <1>2, UpTo
  <2> QED
    BY <2>1
<1> QED
  BY <1>3

=============================================================================
