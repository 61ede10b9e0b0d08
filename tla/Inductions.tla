----------------------------- MODULE Inductions -----------------------------
(***************************************************************************)
(* Induction and recursion over the natural numbers, stated for sets and   *)
(* functions: the theorems of the library take an operator, which the      *)
(* provers cannot instantiate.                                             *)
(***************************************************************************)
EXTENDS Naturals, WellFoundedInduction, TLAPS

LEMMA LeastNumber ==
  ASSUME NEW T, T \subseteq Nat, T # {}
  PROVE  \E x \in T : \A y \in T : x <= y
<1>1. PICK x \in T : \A y \in T : ~(<<y, x>> \in OpToRel(<, Nat))
  BY NatLessThanWellFounded, WFMin, Zenon
<1>2. ASSUME NEW y \in T PROVE ~(y < x)
  <2>1. <<y, x>> \in Nat \X Nat
    OBVIOUS
  <2>2. y < x => <<y, x>> \in OpToRel(<, Nat)
    BY <2>1 DEF OpToRel
  <2> QED
    BY <1>1, <2>2
<1> QED
  BY <1>2

(* Induction: a set with 0 and with the next of each of its numbers has    *)
(* them all.                                                               *)
LEMMA Induct ==
  ASSUME NEW S, 0 \in S, \A n \in Nat : n \in S => n + 1 \in S
  PROVE  \A n \in Nat : n \in S
<1> SUFFICES ASSUME Nat \ S # {} PROVE FALSE
  OBVIOUS
<1>1. PICK x \in Nat \ S : \A y \in Nat \ S : x <= y
  BY LeastNumber
<1>2. x # 0 /\ x - 1 \in Nat /\ ~(x <= x - 1)
  BY <1>1
<1>3. x - 1 \in S
  BY <1>1, <1>2
<1> QED
  BY <1>1, <1>2, <1>3

(* A recursive function is there, and stays in the set of its values.      *)
Runs(g, n, x0, step) == g[0] = x0 /\ \A i \in 1 .. n : g[i] = step[g[i - 1], i]
LEMMA Recursion ==
  ASSUME NEW X, NEW x0 \in X, NEW step \in [X \X Nat -> X], NEW m \in Nat
  PROVE  \E g \in [0 .. m -> X] : Runs(g, m, x0, step)
<1> DEFINE S == {n \in Nat : \E g \in [0 .. n -> X] : Runs(g, n, x0, step)}
<1>1. 0 \in S
  <2> DEFINE g == [i \in 0 .. 0 |-> x0]
  <2>1. g \in [0 .. 0 -> X] /\ Runs(g, 0, x0, step)
    BY DEF Runs
  <2> QED
    BY <2>1
<1>2. ASSUME NEW n \in Nat, n \in S PROVE n + 1 \in S
  <2>1. PICK h \in [0 .. n -> X] : Runs(h, n, x0, step)
    BY <1>2
  <2> DEFINE g == [i \in 0 .. n + 1 |-> IF i <= n THEN h[i] ELSE step[h[n], n + 1]]
  <2>2. step[h[n], n + 1] \in X
    <3>1. h[n] \in X /\ n + 1 \in Nat
      OBVIOUS
    <3> QED
      BY <3>1
  <2>3. g \in [0 .. n + 1 -> X]
    <3>1. ASSUME NEW i \in 0 .. n + 1 PROVE (IF i <= n THEN h[i] ELSE step[h[n], n + 1]) \in X
      <4>1. CASE i <= n
        <5>1. i \in 0 .. n
          BY <4>1
        <5> QED
          BY <4>1, <5>1
      <4>2. CASE ~(i <= n)
        BY <2>2, <4>2
      <4> QED
        BY <4>1, <4>2
    <3> QED
      BY <3>1
  <2>4. Runs(g, n + 1, x0, step)
    <3>1. g[0] = x0
      <4>1. 0 \in 0 .. n + 1 /\ 0 <= n
        OBVIOUS
      <4>2. g[0] = h[0]
        BY <4>1
      <4> QED
        BY <2>1, <4>2 DEF Runs
    <3>2. ASSUME NEW i \in 1 .. n + 1 PROVE g[i] = step[g[i - 1], i]
      <4>1. CASE i <= n
        <5>1. i \in 1 .. n /\ i - 1 \in 0 .. n + 1 /\ i \in 0 .. n + 1 /\ i - 1 <= n
          BY <4>1
        <5>2. g[i] = h[i] /\ g[i - 1] = h[i - 1]
          BY <4>1, <5>1
        <5> QED
          BY <2>1, <5>1, <5>2 DEF Runs
      <4>2. CASE ~(i <= n)
        <5>1. i = n + 1 /\ i - 1 = n /\ i \in 0 .. n + 1 /\ n \in 0 .. n + 1 /\ n <= n
          BY <4>2
        <5>2. g[i] = step[h[n], n + 1] /\ g[i - 1] = h[n]
          BY <4>2, <5>1
        <5> QED
          BY <5>1, <5>2
      <4> QED
        BY <4>1, <4>2
    <3> HIDE DEF g
    <3> QED
      BY <3>1, <3>2 DEF Runs
  <2> HIDE DEF g
  <2>5. n + 1 \in Nat
    OBVIOUS
  <2> QED
    BY <2>3, <2>4, <2>5
<1> HIDE DEF S
<1>3. m \in S
  BY <1>1, <1>2, Induct
<1> QED
  BY <1>3 DEF S

(* Two functions that make the same steps are the same.                    *)
StepAlike(f, g, n) ==
  n \in Nat /\ f[0] = g[0] /\ \A i \in 1 .. n : f[i - 1] = g[i - 1] => f[i] = g[i]
LEMMA SameSteps ==
  ASSUME NEW n, NEW f, NEW g, StepAlike(f, g, n)
  PROVE  \A i \in 0 .. n : f[i] = g[i]
<1> USE DEF StepAlike
<1> DEFINE T == {j \in Nat : j <= n => f[j] = g[j]}
<1>1. 0 \in T
  OBVIOUS
<1>2. ASSUME NEW i \in Nat, i \in T PROVE i + 1 \in T
  <2>1. CASE i + 1 <= n
    <3>1. PICK j : j = i + 1
      OBVIOUS
    <3>2. j \in 1 .. n /\ j - 1 = i /\ i <= n /\ j \in Nat
      BY <2>1, <3>1
    <3>3. f[j] = g[j]
      BY <1>2, <3>2
    <3> QED
      BY <3>1, <3>2, <3>3
  <2>2. CASE ~(i + 1 <= n)
    BY <2>2
  <2> QED
    BY <2>1, <2>2
<1> HIDE DEF T
<1>3. \A i \in Nat : i \in T
  BY <1>1, <1>2, Induct
<1> QED
  BY <1>3 DEF T
=============================================================================
