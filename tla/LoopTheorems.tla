------------------------------ MODULE LoopTheorems ------------------------------
(***************************************************************************)
(* Induction over the turns of a loop, stated with sets and functions      *)
(* where the library's theorems take operators, so that the provers can    *)
(* apply it: the positions at which a property holds are a set, and the    *)
(* body of a loop is a function.                                           *)
(***************************************************************************)
EXTENDS Naturals, FiniteSets, FiniteSetTheorems, WellFoundedInduction, TLAPS

(* Least-number principle for sets: among the sets 0 .. n, n in S, which    *)
(* are finite, one has none of the others strictly inside.                  *)
LEMMA LeastOfSet ==
  ASSUME NEW S \in SUBSET Nat, S # {}
  PROVE  \E n \in S : \A m \in S : n <= m
  <1>. DEFINE T == { 0 .. n : n \in S }
  <1>1. T \subseteq FiniteSubsetsOf(Nat)
    <2>. SUFFICES ASSUME NEW n \in S PROVE 0 .. n \in FiniteSubsetsOf(Nat)
      OBVIOUS
    <2>1. IsFiniteSet(0 .. n)
      BY FS_Interval
    <2>. QED  BY <2>1 DEF FiniteSubsetsOf
  <1>2. T # {}
    OBVIOUS
  <1>3. IsWellFoundedOn(StrictSubsetOrdering(Nat), FiniteSubsetsOf(Nat))
    BY FS_StrictSubsetOrderingWellFounded
  <1>4. PICK x \in T : \A y \in T : <<y, x>> \notin StrictSubsetOrdering(Nat)
    BY <1>1, <1>2, <1>3, WFMin
  <1>5. PICK n \in S : x = 0 .. n
    BY <1>4
  <1>6. ASSUME NEW m \in S, m < n PROVE FALSE
    <2>1. 0 .. m \subseteq 0 .. n /\ 0 .. m # 0 .. n /\ 0 .. n \subseteq Nat
      BY <1>6
    <2>2. <<0 .. m, 0 .. n>> \in StrictSubsetOrdering(Nat)
      BY <2>1 DEF StrictSubsetOrdering
    <2>. QED  BY <1>4, <1>5, <2>2
  <1>. QED  BY <1>6

(* What holds before the loop, and after each turn if before it, holds after*)
(* all of its N turns.                                                      *)
LEMMA TurnInduction ==
  ASSUME NEW N \in Nat, NEW S, 0 \in S,
         \A n \in 0 .. N - 1 : n \in S => n + 1 \in S
  PROVE  \A n \in 0 .. N : n \in S
  <1>. DEFINE Bad == { n \in 0 .. N : n \notin S }
  <1>1. SUFFICES ASSUME Bad # {} PROVE FALSE
    OBVIOUS
  <1>2. PICK n \in Bad : \A m \in Bad : n <= m
    <2>1. Bad \in SUBSET Nat
      OBVIOUS
    <2>. HIDE DEF Bad
    <2>. QED  BY <1>1, <2>1, LeastOfSet
  <1>3. n \in 1 .. N
    BY <1>2
  <1>4. n - 1 \in 0 .. N - 1 /\ n - 1 \notin Bad
    BY <1>2, <1>3
  <1>. QED  BY <1>2, <1>3, <1>4

(* f[i] is the value after turn i of a loop of N turns.                     *)
Bodies(N, V) == [(1 .. N) \X V -> V]

IsRun(f, N, V, start, body) ==
    /\ f \in [0 .. N -> V]
    /\ f[0] = start
    /\ \A i \in 1 .. N : f[i] = body[<<i, f[i - 1]>>]

(* A loop of N turns has a value after each.                                *)
LEMMA LoopFunction ==
  ASSUME NEW N \in Nat, NEW V, NEW start \in V, NEW body \in Bodies(N, V)
  PROVE  \E f : IsRun(f, N, V, start, body)
  <1>. USE DEF Bodies
  <1>. DEFINE Upto(n, f) ==
                /\ f \in [0 .. n -> V]
                /\ f[0] = start
                /\ \A i \in 1 .. n : f[i] = body[<<i, f[i - 1]>>]
              S == { n \in 0 .. N : \E f : Upto(n, f) }
  <1>1. 0 \in S
    <2>1. Upto(0, [i \in 0 .. 0 |-> start])
      OBVIOUS
    <2>. HIDE DEF Upto
    <2>. QED  BY <2>1
  <1>2. ASSUME NEW n \in 0 .. N - 1, n \in S PROVE n + 1 \in S
    <2>1. PICK g : Upto(n, g)
      BY <1>2
    <2>. DEFINE f == [i \in 0 .. n + 1 |-> IF i = n + 1 THEN body[<<n + 1, g[n]>>] ELSE g[i]]
    <2>2. n \in Nat /\ n \in 0 .. n /\ n + 1 \in 1 .. N /\ n + 1 \in 0 .. N
      OBVIOUS
    <2>3. g \in [0 .. n -> V] /\ g[n] \in V /\ body[<<n + 1, g[n]>>] \in V
      <3>1. g \in [0 .. n -> V]
        BY <2>1
      <3>2. g[n] \in V
        BY <2>2, <3>1
      <3>3. <<n + 1, g[n]>> \in (1 .. N) \X V
        BY <2>2, <3>2
      <3>. QED  BY <3>1, <3>2, <3>3
    <2>4. f \in [0 .. n + 1 -> V]
      <3>1. ASSUME NEW i \in 0 .. n + 1, i # n + 1 PROVE g[i] \in V
        <4>1. i \in 0 .. n
          BY <2>2, <3>1
        <4>. QED  BY <2>3, <4>1
      <3>. QED  BY <2>3, <3>1
    <2>5. ASSUME NEW i \in 1 .. n + 1 PROVE f[i] = body[<<i, f[i - 1]>>]
      <3>1. CASE i = n + 1
        <4>1. i - 1 = n /\ i \in 0 .. n + 1 /\ n \in 0 .. n + 1 /\ n # n + 1
          BY <2>2, <3>1
        <4>2. f[i] = body[<<n + 1, g[n]>>] /\ f[i - 1] = g[n]
          BY <3>1, <4>1
        <4>. QED  BY <3>1, <4>2
      <3>2. CASE i # n + 1
        <4>1. i \in 1 .. n /\ i \in 0 .. n + 1 /\ i - 1 \in 0 .. n + 1 /\ i - 1 # n + 1
          BY <2>2, <3>2
        <4>2. f[i] = g[i] /\ f[i - 1] = g[i - 1]
          BY <3>2, <4>1
        <4>. QED  BY <2>1, <4>1, <4>2
      <3>. QED  BY <3>1, <3>2
    <2>6. f[0] = start
      <3>1. 0 \in 0 .. n + 1 /\ 0 # n + 1
        BY <2>2
      <3>. QED  BY <2>1, <3>1
    <2>7. Upto(n + 1, f)
      BY <2>4, <2>5, <2>6
    <2>. HIDE DEF Upto, f
    <2>. QED  BY <2>2, <2>7
  <1>3. N \in S
    <2>. HIDE DEF S
    <2>1. \A n \in 0 .. N : n \in S
      BY <1>1, <1>2, TurnInduction
    <2>. QED  BY <2>1
  <1>. QED  BY <1>3 DEF IsRun
===============================================================================
