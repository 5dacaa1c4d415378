---------------------------- MODULE NaturalFacts ----------------------------
(* Induction over the naturals, in the form of a set that is closed under the *)
(* step, and extreme elements of sets of numbers.                             *)
EXTENDS Integers, TLAPS, WellFoundedInduction

\* A nonempty set of naturals has a smallest element.
LEMMA LeastElement ==
  ASSUME NEW T, T \subseteq Nat, T # {}
  PROVE  \E m \in T : \A n \in T : m <= n
<1> DEFINE R == {ss \in Nat \X Nat : ss[1] < ss[2]}
<1>1. IsWellFoundedOn(R, Nat)
  BY NatLessThanWellFounded DEF OpToRel
<1> HIDE DEF R
<1>2. PICK m \in T : \A y \in T : <<y, m>> \notin R
  BY <1>1, WFMin
<1>3. ASSUME NEW n \in T
      PROVE  m <= n
  <2>1. <<n, m>> \notin R /\ <<n, m>> \in Nat \X Nat
    BY <1>2
  <2>2. ~(n < m)
    BY <2>1 DEF R
  <2>3. QED
    BY <2>2
<1>4. QED
  BY <1>3

\* A set that has 0, and n + 1 with every n, has every natural.
LEMMA Induction ==
  ASSUME NEW S, 0 \in S, \A n \in Nat : n \in S => n + 1 \in S
  PROVE  Nat \subseteq S
<1> DEFINE T == Nat \ S
<1>1. SUFFICES ASSUME T # {}
               PROVE  FALSE
  OBVIOUS
<1>2. T \subseteq Nat
  OBVIOUS
<1> HIDE DEF T
<1>3. PICK m \in T : \A n \in T : m <= n
  BY <1>1, <1>2, LeastElement
<1>4. m # 0 /\ m - 1 \in Nat
  BY <1>3 DEF T
<1>5. QED
  BY <1>3, <1>4 DEF T

\* A nonempty set of integers below a bound has a largest element.
LEMMA GreatestElement ==
  ASSUME NEW T, T \subseteq Int, T # {}, NEW b \in Int, \A n \in T : n <= b
  PROVE  \E m \in T : \A n \in T : n <= m
<1> DEFINE D == {d \in Nat : b - d \in T}
<1>1. D \subseteq Nat /\ D # {}
  <2>1. PICK n \in T : n <= b
    OBVIOUS
  <2>2. b - n \in D
    BY <2>1
  <2>3. QED
    BY <2>2
<1> HIDE DEF D
<1>2. PICK d \in D : \A e \in D : d <= e
  BY <1>1, LeastElement
<1>3. d \in Nat /\ b - d \in T
  BY DEF D
<1>4. ASSUME NEW n \in T
      PROVE  n <= b - d
  <2>1. b - n \in D
    BY DEF D
  <2>2. QED
    BY <1>2, <1>3, <2>1
<1>5. QED
  BY <1>3, <1>4

\* What a recursive definition over the naturals asks for exists.
Iterates(f, V, a, H) ==
  f \in [Nat -> V] /\ f[0] = a /\ \A n \in Nat : f[n + 1] = H[<<n, f[n]>>]

LEMMA Recursion ==
  ASSUME NEW V, NEW a \in V, NEW H, H \in [Nat \X V -> V]
  PROVE  \E f : Iterates(f, V, a, H)
<1> DEFINE Upto(g, m) == /\ g \in [0..m -> V] /\ g[0] = a
                         /\ \A i \in Nat : i < m => g[i + 1] = H[<<i, g[i]>>]
           S == {m \in Nat : \E g : Upto(g, m)}
           Some(m) == CHOOSE g : Upto(g, m)
           f == [n \in Nat |-> Some(n)[n]]
<1>1. 0 \in S
  <2>1. Upto([i \in 0..0 |-> a], 0)
    OBVIOUS
  <2>2. QED
    BY <2>1
<1>2. ASSUME NEW m \in Nat, m \in S
      PROVE  m + 1 \in S
  <2>1. PICK g : Upto(g, m)
    BY <1>2
  <2> DEFINE h == [i \in 0..(m + 1) |-> IF i = m + 1 THEN H[<<m, g[m]>>] ELSE g[i]]
  <2>2. g[m] \in V /\ H[<<m, g[m]>>] \in V
    BY <2>1
  <2>3. h \in [0..(m + 1) -> V]
    BY <2>1, <2>2
  <2>4. ASSUME NEW i \in Nat, i < m + 1
        PROVE  h[i + 1] = H[<<i, h[i]>>]
    <3>1. CASE i = m
      <4>1. h[i] = g[i] /\ h[i + 1] = H[<<m, g[m]>>]
        BY <3>1
      <4>2. QED
        BY <3>1, <4>1
    <3>2. CASE i < m
      <4>1. i \in 0..(m + 1) /\ i + 1 \in 0..(m + 1) /\ i # m + 1 /\ i + 1 # m + 1
        BY <3>2
      <4>2. h[i] = g[i] /\ h[i + 1] = g[i + 1]
        BY <4>1
      <4>3. QED
        BY <2>1, <3>2, <4>2
    <3>3. QED
      BY <2>4, <3>1, <3>2
  <2>5. h[0] = a
    BY <2>1
  <2> HIDE DEF h
  <2>6. Upto(h, m + 1)
    BY <2>3, <2>4, <2>5
  <2>7. QED
    BY <2>6
<1> HIDE DEF S
<1>3. Nat \subseteq S
  BY <1>1, <1>2, Induction
<1>4. \A m \in Nat : Upto(Some(m), m)
  <2>1. \A m \in Nat : \E g : Upto(g, m)
    BY <1>3 DEF S
  <2> HIDE DEF Upto
  <2>2. QED
    BY <2>1
<1> HIDE DEF Some
<1>5. ASSUME NEW m \in Nat, NEW n \in Nat, m <= n
      PROVE  Some(m)[m] = Some(n)[m]
  <2> DEFINE A == {i \in Nat : i <= m => Some(m)[i] = Some(n)[i]}
  <2>1. 0 \in A
    BY <1>4
  <2>2. ASSUME NEW i \in Nat, i \in A
        PROVE  i + 1 \in A
    <3>1. SUFFICES ASSUME i + 1 <= m
                   PROVE  Some(m)[i + 1] = Some(n)[i + 1]
      OBVIOUS
    <3>2. i < m /\ i < n /\ Some(m)[i] = Some(n)[i]
      BY <1>5, <2>2, <3>1
    <3>3. Some(m)[i + 1] = H[<<i, Some(m)[i]>>] /\ Some(n)[i + 1] = H[<<i, Some(n)[i]>>]
      BY <1>4, <3>2
    <3>4. QED
      BY <3>2, <3>3
  <2> HIDE DEF A
  <2>3. Nat \subseteq A
    BY <2>1, <2>2, Induction
  <2>4. QED
    BY <2>3 DEF A
<1>6. f \in [Nat -> V] /\ f[0] = a
  BY <1>4
<1>7. ASSUME NEW n \in Nat
      PROVE  f[n + 1] = H[<<n, f[n]>>]
  <2>1. n + 1 \in Nat /\ n <= n + 1 /\ n < n + 1
    OBVIOUS
  <2>2. Some(n + 1)[n + 1] = H[<<n, Some(n + 1)[n]>>]
    BY <1>4, <2>1
  <2>3. Some(n)[n] = Some(n + 1)[n]
    BY <1>5, <2>1
  <2>4. QED
    BY <2>1, <2>2, <2>3
<1>8. QED
  BY <1>6, <1>7 DEF Iterates
=============================================================================
