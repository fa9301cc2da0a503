-------------------------- MODULE RecursionLemmas --------------------------
(***************************************************************************)
(* Induction and recursion on the natural numbers, in a form in which the  *)
(* provers can use them: about sets and functions, with no operator as a   *)
(* parameter.  Loops of the code that add up or grow a value are recursive *)
(* functions in the models; to say what such a function computes, one has  *)
(* to know first that it exists.                                           *)
(***************************************************************************)
EXTENDS Integers, WellFoundedInduction, TLAPS

\* A set of natural numbers has a least element.
LEMMA LeastOfNat ==
  ASSUME NEW T, T \subseteq Nat, T # {}
  PROVE  \E n \in T : \A m \in T : n <= m
  <1> DEFINE R == {ss \in Nat \X Nat : ss[1] < ss[2]}
  <1>1. IsWellFoundedOn(R, Nat)
    BY NatLessThanWellFounded DEF OpToRel
  <1>2. \A x, y \in Nat : <<x, y>> \in R <=> x < y
    OBVIOUS
  <1> HIDE DEF R
  <1>3. PICK n \in T : \A m \in T : ~ (<<m, n>> \in R)
    BY <1>1, WFMin
  <1>4. ASSUME NEW m \in T PROVE n <= m
    <2>1. ~ (m < n)
      BY <1>2, <1>3
    <2> QED BY <2>1
  <1> QED
    BY <1>4

\* Induction over a set: the induction theorem of the library takes a
\* predicate, which the provers cannot instantiate.
LEMMA Induction ==
  ASSUME NEW S, 0 \in S, \A n \in Nat : n \in S => n + 1 \in S
  PROVE  Nat \subseteq S
  <1> SUFFICES ASSUME ~ (Nat \subseteq S) PROVE FALSE
    OBVIOUS
  <1>1. PICK n \in Nat \ S : \A m \in Nat \ S : n <= m
    BY LeastOfNat
  <1>2. n # 0 /\ n - 1 \in Nat /\ n - 1 \in S
    BY <1>1
  <1> QED
    BY <1>1, <1>2

\* f is the function that a recursion on the natural numbers defines.
IsRecursive(f, base, step) == f = [i \in Nat |-> IF i = 0 THEN base ELSE step[<<i, f[i - 1]>>]]

\* A function defined by recursion takes its values where its steps do.
LEMMA RecursionTyped ==
  ASSUME NEW D, NEW base \in D, NEW step \in [Nat \X D -> D], NEW f,
         IsRecursive(f, base, step)
  PROVE  f \in [Nat -> D]
  <1> USE DEF IsRecursive
  <1> DEFINE S == {n \in Nat : f[n] \in D}
  <1>1. 0 \in S
    OBVIOUS
  <1>2. ASSUME NEW n \in Nat, n \in S PROVE n + 1 \in S
    <2>1. f[n + 1] = step[<<n + 1, f[n]>>]
      OBVIOUS
    <2> QED BY <2>1, <1>2
  <1> HIDE DEF S
  <1>3. Nat \subseteq S
    BY <1>1, <1>2, Induction
  <1> QED
    BY <1>3 DEF S

\* There is a function for every recursion on the natural numbers.
LEMMA RecursionExists ==
  ASSUME NEW D, NEW base \in D, NEW step \in [Nat \X D -> D]
  PROVE  \E f \in [Nat -> D] : IsRecursive(f, base, step)
  <1> DEFINE Upto(n) == {f \in [0..n -> D] :
                           \A i \in 0..n : f[i] = IF i = 0 THEN base ELSE step[<<i, f[i - 1]>>]}
             S == {n \in Nat : Upto(n) # {}}
  <1>1. 0 \in S
    <2>1. [i \in 0..0 |-> base] \in Upto(0)
      OBVIOUS
    <2> QED BY <2>1
  <1>2. ASSUME NEW n \in Nat, n \in S PROVE n + 1 \in S
    <2>1. PICK f : f \in Upto(n)
      BY <1>2
    <2> DEFINE g == [i \in 0..(n + 1) |-> IF i = n + 1 THEN step[<<n + 1, f[n]>>] ELSE f[i]]
    <2>2. f[n] \in D /\ step[<<n + 1, f[n]>>] \in D
      BY <2>1
    <2>3. g \in [0..(n + 1) -> D]
      BY <2>1, <2>2
    <2>4. ASSUME NEW i \in 0..(n + 1)
          PROVE  g[i] = IF i = 0 THEN base ELSE step[<<i, g[i - 1]>>]
      <3>1. CASE i = n + 1
        <4>1. g[i] = step[<<n + 1, f[n]>>] /\ i # 0 /\ i - 1 = n /\ n \in 0..(n + 1) /\ n # n + 1
          BY <3>1
        <4>2. g[n] = f[n]
          BY <4>1
        <4> QED BY <3>1, <4>1, <4>2
      <3>2. CASE i \in 0..n
        <4>1. f[i] = IF i = 0 THEN base ELSE step[<<i, f[i - 1]>>]
          BY <3>2, <2>1
        <4>2. g[i] = f[i]
          BY <3>2
        <4>3. i # 0 => g[i - 1] = f[i - 1]
          BY <3>2
        <4> QED BY <4>1, <4>2, <4>3
      <3> QED BY <3>1, <3>2
    <2>5. g \in Upto(n + 1)
      BY <2>3, <2>4
    <2> HIDE DEF g, Upto
    <2>6. n + 1 \in Nat /\ Upto(n + 1) # {}
      BY <2>5
    <2> QED BY <2>6
  <1>3. \A n \in Nat : Upto(n) # {}
    <2> HIDE DEF S
    <2>1. Nat \subseteq S BY <1>1, <1>2, Induction
    <2> QED BY <2>1 DEF S
  <1>4. ASSUME NEW n \in Nat, NEW m \in Nat, n <= m, NEW f \in Upto(n), NEW g \in Upto(m)
        PROVE  f[n] = g[n]
    <2> DEFINE E == {i \in Nat : i <= n => f[i] = g[i]}
    <2>1. 0 \in E
      <3>1. 0 \in 0..n /\ 0 \in 0..m
        BY <1>4
      <3> QED BY <1>4, <3>1
    <2>2. ASSUME NEW i \in Nat, i \in E PROVE i + 1 \in E
      <3> SUFFICES ASSUME i + 1 <= n PROVE f[i + 1] = g[i + 1]
        OBVIOUS
      <3>1. f[i] = g[i] /\ i + 1 \in 0..n /\ i + 1 \in 0..m /\ i + 1 # 0 /\ (i + 1) - 1 = i
        BY <2>2, <1>4
      <3>2. f[i + 1] = step[<<i + 1, f[i]>>]
        BY <3>1
      <3>3. g[i + 1] = step[<<i + 1, g[i]>>]
        BY <3>1
      <3> QED BY <3>1, <3>2, <3>3
    <2> HIDE DEF E
    <2>3. Nat \subseteq E BY <2>1, <2>2, Induction
    <2> QED BY <2>3 DEF E
  <1> DEFINE F == [n \in Nat |-> (CHOOSE f : f \in Upto(n))[n]]
  <1>5. ASSUME NEW i \in Nat
        PROVE  F[i] = IF i = 0 THEN base ELSE step[<<i, F[i - 1]>>]
    <2> DEFINE f == CHOOSE h : h \in Upto(i)
    <2>1. f \in Upto(i)
      BY <1>3
    <2>2. F[i] = f[i]
      OBVIOUS
    <2>3. f[i] = IF i = 0 THEN base ELSE step[<<i, f[i - 1]>>]
      <3>1. i \in 0..i
        OBVIOUS
      <3> QED BY <2>1, <3>1
    <2>4. CASE i = 0
      BY <2>2, <2>3, <2>4
    <2>5. CASE i # 0
      <3> DEFINE g == CHOOSE h : h \in Upto(i - 1)
      <3>1. i - 1 \in Nat /\ i - 1 <= i
        BY <2>5
      <3>2. g \in Upto(i - 1)
        BY <1>3, <3>1
      <3>3. F[i - 1] = g[i - 1]
        BY <3>1
      <3> HIDE DEF f, g, F, Upto
      <3>4. g[i - 1] = f[i - 1]
        BY <1>4, <2>1, <3>1, <3>2
      <3> QED BY <2>2, <2>3, <2>5, <3>3, <3>4
    <2> QED BY <2>4, <2>5
  <1> HIDE DEF Upto
  <1>6. IsRecursive(F, base, step)
    <2>1. F = [i \in Nat |-> F[i]]
      OBVIOUS
    <2> HIDE DEF F
    <2> QED BY <2>1, <1>5 DEF IsRecursive
  <1> QED
    BY <1>6, RecursionTyped
=============================================================================
