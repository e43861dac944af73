------------------------------ MODULE Induction ------------------------------
(***************************************************************************)
(* Induction over the natural numbers, stated with sets in the place of    *)
(* predicates, for the proofs that need it: a non-empty set of naturals    *)
(* has a least element, and what holds of 0 and passes on holds of all.    *)
(***************************************************************************)
EXTENDS Integers, FiniteSetTheorems, TLAPS

NatLess == OpToRel(<, Nat)

\* A set of natural numbers that is not empty has a least element.
LEMMA NatMin ==
  ASSUME NEW T, T \subseteq Nat, T # {}
  PROVE  \E x \in T : \A y \in T : x <= y
<1>1. IsWellFoundedOn(NatLess, Nat)
  BY NatLessThanWellFounded, Zenon DEF NatLess
<1>2. PICK x \in T : \A y \in T : ~ (<<y, x>> \in NatLess)
  BY <1>1, WFMin, Zenon
<1>3. \A y \in Nat : <<y, x>> \in NatLess <=> y < x
  BY Zenon DEF NatLess, OpToRel
<1>4. \A y \in T : ~(y < x)
  BY <1>2, <1>3, Zenon
<1>5. \A y \in T : y \in Nat /\ x \in Nat
  OBVIOUS
<1>6. \A y \in T : x <= y
  BY <1>4, <1>5, SMT
<1> QED
  BY <1>6, Zenon

\* What holds of 0 and passes from each number to the next holds of all.
LEMMA SetInduction ==
  ASSUME NEW S, 0 \in S, \A n \in Nat : n \in S => n + 1 \in S
  PROVE  Nat \subseteq S
<1> SUFFICES ASSUME Nat \ S # {}
             PROVE  FALSE
  OBVIOUS
<1>1. PICK x \in Nat \ S : \A y \in Nat \ S : x <= y
  BY NatMin, Zenon
<1>2. x - 1 \in Nat /\ x - 1 \in S
  BY <1>1
<1> QED
  BY <1>1, <1>2

\* f are the iterates of next, a function on V, from c.
IsIterate(f, V, next, c) ==
  f \in [Nat -> V] /\ f[0] = c /\ \A i \in Nat : f[i + 1] = next[f[i]]

\* A function on a set can be iterated from any of its elements.
LEMMA Iterates ==
  ASSUME NEW V, NEW next \in [V -> V], NEW c \in V
  PROVE  \E f : IsIterate(f, V, next, c)
<1> DEFINE Upto(n, g) == /\ g \in [0 .. n -> V] /\ g[0] = c
                         /\ \A i \in 0 .. n - 1 : g[i + 1] = next[g[i]]
<1>1. \A n \in Nat : \E g \in [0 .. n -> V] : Upto(n, g)
  <2> DEFINE S == {n \in Nat : \E g \in [0 .. n -> V] : Upto(n, g)}
  <2>1. 0 \in S
    <3>1. Upto(0, [i \in 0 .. 0 |-> c])
      OBVIOUS
    <3> QED
      BY <3>1
  <2>2. ASSUME NEW n \in Nat, n \in S
        PROVE  n + 1 \in S
    <3>1. PICK g \in [0 .. n -> V] : Upto(n, g)
      BY <2>2
    <3> DEFINE k == [i \in 0 .. n + 1 |-> IF i = n + 1 THEN next[g[n]] ELSE g[i]]
    <3>2. k \in [0 .. n + 1 -> V]
      <4>1. g[n] \in V
        OBVIOUS
      <4> QED
        BY <4>1
    <3>3. k[0] = c
      BY <3>1
    <3>4. \A i \in 0 .. n : k[i + 1] = next[k[i]]
      <4> TAKE i \in 0 .. n
      <4>1. k[i] = g[i]
        OBVIOUS
      <4>2. CASE i = n
        BY <4>1, <4>2
      <4>3. CASE i # n
        <5>1. i \in 0 .. n - 1 /\ i + 1 \in 0 .. n
          BY <4>3
        <5>2. k[i + 1] = g[i + 1]
          BY <5>1
        <5> QED
          BY <3>1, <4>1, <5>1, <5>2
      <4> QED
        BY <4>2, <4>3
    <3>5. Upto(n + 1, k)
      BY <3>2, <3>3, <3>4
    <3> HIDE DEF k
    <3> QED
      BY <3>2, <3>5
  <2> HIDE DEF S
  <2>3. Nat \subseteq S
    BY <2>1, <2>2, SetInduction
  <2> QED
    BY <2>3 DEF S
<1> DEFINE G(n) == CHOOSE g \in [0 .. n -> V] : Upto(n, g)
           f == [n \in Nat |-> G(n)[n]]
<1>2. \A n \in Nat : Upto(n, G(n))
  BY <1>1
<1>3. ASSUME NEW n \in Nat, NEW m \in Nat
      PROVE  \A g \in [0 .. n -> V], k \in [0 .. m -> V] :
               Upto(n, g) /\ Upto(m, k)
                 => \A i \in Nat : i <= n /\ i <= m => g[i] = k[i]
  <2> TAKE g \in [0 .. n -> V], k \in [0 .. m -> V]
  <2> HAVE Upto(n, g) /\ Upto(m, k)
  <2> DEFINE S == {i \in Nat : i <= n /\ i <= m => g[i] = k[i]}
  <2>1. 0 \in S
    OBVIOUS
  <2>2. \A i \in Nat : i \in S => i + 1 \in S
    OBVIOUS
  <2> HIDE DEF S
  <2>3. Nat \subseteq S
    BY <2>1, <2>2, SetInduction
  <2> QED
    BY <2>3 DEF S
<1> HIDE DEF G
<1>4. \A n \in Nat : G(n) \in [0 .. n -> V]
  BY <1>2
<1>5. f \in [Nat -> V]
  BY <1>4
<1>6. f[0] = c
  BY <1>2
<1>7. ASSUME NEW i \in Nat
      PROVE  f[i + 1] = next[f[i]]
  <2>1. G(i + 1)[i + 1] = next[G(i + 1)[i]]
    BY <1>2
  <2>2. G(i + 1)[i] = G(i)[i]
    <3>1. PICK g \in [0 .. i + 1 -> V] : g = G(i + 1) /\ Upto(i + 1, g)
      BY <1>2, <1>4
    <3>2. PICK k \in [0 .. i -> V] : k = G(i) /\ Upto(i, k)
      BY <1>2, <1>4
    <3>3. \A j \in Nat : j <= i + 1 /\ j <= i => g[j] = k[j]
      <4> HIDE DEF Upto
      <4> QED
        BY <1>3, <3>1, <3>2
    <3> QED
      BY <3>1, <3>2, <3>3
  <2> QED
    BY <2>1, <2>2
<1> HIDE DEF f
<1> QED
  BY <1>5, <1>6, <1>7 DEF IsIterate
=============================================================================
