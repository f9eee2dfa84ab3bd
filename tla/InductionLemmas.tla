--------------------------- MODULE InductionLemmas ---------------------------
(* Induction over the naturals without an operator as a parameter: a set of *)
(* naturals has a least element, so a function defined by recursion exists. *)
EXTENDS Integers, Sequences, WellFoundedInduction, TLAPS

(* Every non-empty set of naturals has a least element. *)
LEMMA LeastNatural ==
    ASSUME NEW S \in SUBSET Nat, S # {}
    PROVE  \E u \in S : \A v \in S : u <= v
<1> DEFINE Less == {ss \in Nat \X Nat : ss[1] < ss[2]}
<1>1. OpToRel(<, Nat) = Less
  BY Zenon DEF OpToRel
<1>2. IsWellFoundedOn(Less, Nat)
  BY <1>1, NatLessThanWellFounded, Zenon
<1>3. PICK u \in S : \A v \in S : ~(<<v, u>> \in Less)
  <2> HIDE DEF Less
  <2> QED
    BY <1>2, WFMin, Zenon
<1>4. \A v \in S : u <= v
  <2>1. ASSUME NEW v \in S, v < u PROVE FALSE
    <3>1. <<v, u>> \in Nat \X Nat
      BY SMT
    <3>2. <<v, u>>[1] < <<v, u>>[2]
      BY <2>1
    <3> QED
      BY <3>1, <3>2, <1>3, Zenon
  <2> QED
    BY <2>1
<1> QED
  BY <1>4

(* What holds at 0 and goes from each natural to the next holds everywhere:  *)
(* the property is given by the set of the naturals that have it.            *)
LEMMA SetInduction ==
    ASSUME NEW n \in Nat, NEW S,
           0 \in S, \A i \in 0..(n - 1) : i \in S => i + 1 \in S
    PROVE  0..n \subseteq S
<1> SUFFICES ASSUME ~(0..n \subseteq S) PROVE FALSE
  OBVIOUS
<1> DEFINE Missing == 0..n \ S
<1>1. Missing \in SUBSET Nat /\ Missing # {}
  OBVIOUS
<1>2. PICK u \in Missing : \A v \in Missing : u <= v
  <2> HIDE DEF Missing
  <2> QED
    BY <1>1, LeastNatural
<1>3. u \in 1..n /\ u - 1 \in 0..(n - 1) /\ u - 1 \notin Missing
  BY <1>2
<1> QED
  BY <1>2, <1>3

(* A function given by its first value and a step from each value to the     *)
(* next exists.                                                              *)
Recursive(F, k, X, c, G) ==
    /\ F \in [0..k -> X] /\ F[0] = c
    /\ \A i \in 1..k : F[i] = G[i][F[i - 1]]

LEMMA RecursionExists ==
    ASSUME NEW X, NEW c \in X, NEW n \in Nat, NEW G \in [1..n -> [X -> X]]
    PROVE  \E F : Recursive(F, n, X, c, G)
<1> DEFINE S == {k \in 0..n : \E F : Recursive(F, k, X, c, G)}
<1>1. 0 \in S
  <2>1. Recursive([i \in 0..0 |-> c], 0, X, c, G)
    BY DEF Recursive
  <2> QED
    BY <2>1
<1>2. ASSUME NEW k \in 0..(n - 1), k \in S PROVE k + 1 \in S
  <2>1. PICK F : Recursive(F, k, X, c, G)
    BY <1>2
  <2> DEFINE H == [i \in 0..(k + 1) |-> IF i = k + 1 THEN G[k + 1][F[k]] ELSE F[i]]
  <2>2. H \in [0..(k + 1) -> X]
    <3>1. G[k + 1] \in [X -> X] /\ F[k] \in X
      BY <2>1 DEF Recursive
    <3> QED
      BY <3>1, <2>1 DEF Recursive
  <2>3. H[0] = c
    BY <2>1 DEF Recursive
  <2>4. ASSUME NEW i \in 1..(k + 1) PROVE H[i] = G[i][H[i - 1]]
    <3>1. i - 1 \in 0..k /\ H[i - 1] = F[i - 1]
      BY <2>1
    <3>2. CASE i = k + 1
      BY <3>1, <3>2
    <3>3. CASE i # k + 1
      BY <3>1, <3>3, <2>1 DEF Recursive
    <3> QED
      BY <3>2, <3>3
  <2>5. Recursive(H, k + 1, X, c, G)
    <3> HIDE DEF H
    <3> QED
      BY <2>2, <2>3, <2>4 DEF Recursive
  <2> QED
    BY <2>5
<1> HIDE DEF S
<1>3. 0..n \subseteq S
  BY <1>1, <1>2, SetInduction
<1>4. n \in S
  BY <1>3
<1> QED
  BY <1>4 DEF S

(* Two functions that obey one recursion up to k agree up to k. *)
LEMMA RecursionIsUnique ==
    ASSUME NEW k \in Nat, NEW X, NEW c, NEW G, NEW E, NEW F, NEW n \in Nat,
           Recursive(E, n, X, c, G), Recursive(F, k, X, c, G), k <= n
    PROVE  E[k] = F[k]
<1> DEFINE S == {i \in 0..k : E[i] = F[i]}
<1>1. 0 \in S
  BY DEF Recursive
<1>2. ASSUME NEW i \in 0..(k - 1), i \in S PROVE i + 1 \in S
  <2>1. i + 1 \in 1..k /\ (i + 1) - 1 = i
    OBVIOUS
  <2>2. E[i + 1] = G[i + 1][E[i]] /\ F[i + 1] = G[i + 1][F[i]] /\ E[i] = F[i]
    BY <1>2, <2>1 DEF Recursive
  <2> QED
    BY <2>1, <2>2
<1> HIDE DEF S
<1>3. 0..k \subseteq S
  BY <1>1, <1>2, SetInduction
<1>4. k \in S
  BY <1>3
<1> QED
  BY <1>4 DEF S

(* The same over all naturals. *)
NatRecursive(f, X, c, G) ==
    /\ f \in [Nat -> X] /\ f[0] = c
    /\ \A i \in Nat \ {0} : f[i] = G[i][f[i - 1]]

LEMMA NatRecursionExists ==
    ASSUME NEW X, NEW c \in X, NEW G \in [Nat \ {0} -> [X -> X]]
    PROVE  \E f : NatRecursive(f, X, c, G)
<1> DEFINE Up(n) == CHOOSE F : Recursive(F, n, X, c, G)
           f == [n \in Nat |-> Up(n)[n]]
<1>1. ASSUME NEW n \in Nat PROVE Recursive(Up(n), n, X, c, G)
  <2> DEFINE g == [i \in 1..n |-> G[i]]
  <2>1. g \in [1..n -> [X -> X]]
    OBVIOUS
  <2>2. PICK F : Recursive(F, n, X, c, g)
    <3> HIDE DEF g
    <3> QED
      BY <2>1, RecursionExists
  <2>3. Recursive(F, n, X, c, G)
    BY <2>2 DEF Recursive
  <2> QED
    BY <2>3
<1> HIDE DEF Up
<1>2. \A n \in Nat : Up(n)[n] \in X
  BY <1>1 DEF Recursive
<1>3. f[0] = c
  BY <1>1 DEF Recursive
<1>4. ASSUME NEW n \in Nat \ {0} PROVE f[n] = G[n][f[n - 1]]
  <2> DEFINE E == Up(n)
             F == Up(n - 1)
  <2>1. Recursive(E, n, X, c, G) /\ Recursive(F, n - 1, X, c, G) /\ n - 1 \in Nat
    BY <1>1, <1>4
  <2> HIDE DEF E, F
  <2>2. E[n] = G[n][E[n - 1]]
    BY <2>1 DEF Recursive
  <2>3. E[n - 1] = F[n - 1]
    <3> PICK k \in Nat : k = n - 1
      BY <2>1
    <3>1. Recursive(F, k, X, c, G) /\ k <= n
      BY <2>1
    <3>2. E[k] = F[k]
      BY <2>1, <3>1, RecursionIsUnique
    <3> QED
      BY <3>2
  <2>4. f[n] = E[n] /\ f[n - 1] = F[n - 1]
    BY <2>1 DEF E, F
  <2> QED
    BY <2>2, <2>3, <2>4
<1> HIDE DEF f
<1>5. NatRecursive(f, X, c, G)
  <2>1. f \in [Nat -> X]
    BY <1>2 DEF f
  <2> QED
    BY <1>3, <1>4, <2>1 DEF NatRecursive
<1> QED
  BY <1>5
===============================================================================
