---------------------------- MODULE DigitsProofs ----------------------------
(* Lemmas that the proofs about keys share: Power, and quotients.            *)
EXTENDS Digits, NaturalFacts

-----------------------------------------------------------------------------
(* Power is the function that its recursive definition describes. *)

LEMMA PowerDef == Power = [n \in Nat |-> IF n = 0 THEN 1 ELSE Base * Power[n - 1]]
<1> DEFINE H == [v \in Nat \X Nat |-> Base * v[2]]
           V == Nat
           a == 1
<1>1. H \in [Nat \X V -> V] /\ a \in V
  BY BaseAssumption
<1>2. \A n \in Nat, v \in Nat : H[<<n, v>>] = Base * v
  OBVIOUS
<1> HIDE DEF H, V, a
<1>3. PICK p : Iterates(p, V, a, H)
  BY <1>1, Recursion
<1>4. p \in [Nat -> Nat] /\ p[0] = 1 /\ \A n \in Nat : p[n + 1] = H[<<n, p[n]>>]
  BY <1>3 DEF Iterates, V, a
<1>5. ASSUME NEW n \in Nat
      PROVE  p[n] = IF n = 0 THEN 1 ELSE Base * p[n - 1]
  <2>1. CASE n = 0
    BY <1>4, <2>1
  <2>2. CASE n # 0
    <3>1. n - 1 \in Nat /\ (n - 1) + 1 = n /\ p[n - 1] \in Nat
      BY <1>4, <2>2
    <3>2. p[(n - 1) + 1] = H[<<n - 1, p[n - 1]>>]
      BY <1>4, <3>1
    <3>3. QED
      BY <1>2, <2>2, <3>1, <3>2
  <2>3. QED
    BY <2>1, <2>2
<1>6. p = [n \in Nat |-> IF n = 0 THEN 1 ELSE Base * p[n - 1]]
  BY <1>4, <1>5
<1>7. QED
  BY <1>6 DEF Power

\* A power is positive, and each is Base times the one before.
LEMMA PowerFacts ==
  /\ Power \in [Nat -> Nat \ {0}]
  /\ Power[0] = 1
  /\ \A n \in Nat : Power[n + 1] = Base * Power[n]
<1>1. /\ DOMAIN Power = Nat
      /\ \A n \in Nat : Power[n] = IF n = 0 THEN 1 ELSE Base * Power[n - 1]
  BY PowerDef
<1>2. Power = [n \in Nat |-> Power[n]]
  BY PowerDef
<1>3. Power[0] = 1
  BY <1>1
<1>4. ASSUME NEW n \in Nat
      PROVE  Power[n + 1] = Base * Power[n]
  <2>1. n + 1 \in Nat /\ n + 1 # 0 /\ (n + 1) - 1 = n
    OBVIOUS
  <2>2. QED
    BY <1>1, <2>1
<1> DEFINE S == {n \in Nat : Power[n] \in Nat \ {0}}
<1>5. 0 \in S
  BY <1>3
<1>6. ASSUME NEW n \in Nat, n \in S
      PROVE  n + 1 \in S
  BY <1>4, <1>6, BaseAssumption
<1> HIDE DEF S
<1>7. Nat \subseteq S
  BY <1>5, <1>6, Induction
<1>8. \A n \in Nat : Power[n] \in Nat \ {0}
  BY <1>7 DEF S
<1>9. QED
  BY <1>2, <1>3, <1>4, <1>8

\* A power of more digits is a multiple of one of fewer.
LEMMA PowerDivides ==
  ASSUME NEW m \in Nat, NEW n \in Nat
  PROVE  Power[m + n] = Power[m] * Power[n]
<1> DEFINE S == {i \in Nat : Power[m + i] = Power[m] * Power[i]}
<1>1. 0 \in S
  BY PowerFacts
<1>2. ASSUME NEW i \in Nat, i \in S
      PROVE  i + 1 \in S
  <2>1. m + i \in Nat /\ m + (i + 1) = (m + i) + 1
    OBVIOUS
  <2>2. Power[(m + i) + 1] = Base * Power[m + i] /\ Power[i + 1] = Base * Power[i]
    BY <2>1, PowerFacts
  <2>3. Power[m + i] = Power[m] * Power[i]
    BY <1>2
  <2>4. Power[m] \in Nat /\ Power[i] \in Nat /\ Base \in Nat
    BY PowerFacts, BaseAssumption
  <2>5. Base * (Power[m] * Power[i]) = Power[m] * (Base * Power[i])
    BY <2>4
  <2>6. QED
    BY <2>1, <2>2, <2>3, <2>5
<1> HIDE DEF S
<1>3. Nat \subseteq S
  BY <1>1, <1>2, Induction
<1>4. QED
  BY <1>3 DEF S

\* The same of the weights of a key's digits.
LEMMA WeightFacts ==
  /\ Weight \in [0..KeyLen -> Nat \ {0}]
  /\ Weight[0] = 1
  /\ \A n \in 0..(KeyLen - 1) : Weight[n + 1] = Base * Weight[n]
<1>1. \A n \in 0..KeyLen : n \in Nat /\ Weight[n] = Power[n] /\ Power[n] \in Nat \ {0}
  BY PowerFacts, KeyLenAssumption DEF Weight
<1>2. Weight \in [0..KeyLen -> Nat \ {0}]
  BY <1>1 DEF Weight
<1>3. 0 \in 0..KeyLen /\ Weight[0] = 1
  BY <1>1, PowerFacts, KeyLenAssumption
<1>4. ASSUME NEW n \in 0..(KeyLen - 1)
      PROVE  Weight[n + 1] = Base * Weight[n]
  <2>1. n \in 0..KeyLen /\ n + 1 \in 0..KeyLen
    BY KeyLenAssumption
  <2>2. QED
    BY <2>1, <1>1, PowerFacts
<1>5. QED
  BY <1>2, <1>3, <1>4

\* A weight is a multiple of each smaller one.
LEMMA WeightDivides ==
  ASSUME NEW m \in 0..KeyLen, NEW n \in 0..KeyLen, m <= n
  PROVE  n - m \in 0..KeyLen /\ Weight[n] = Weight[n - m] * Weight[m]
<1>1. m \in Nat /\ n - m \in Nat /\ (n - m) + m = n /\ n - m \in 0..KeyLen
  BY KeyLenAssumption
<1>2. Power[(n - m) + m] = Power[n - m] * Power[m]
  BY <1>1, PowerDivides
<1>3. QED
  BY <1>1, <1>2 DEF Weight

-----------------------------------------------------------------------------
(* Quotients. *)

\* A number is its quotient and its remainder.
LEMMA Division ==
  ASSUME NEW x \in Nat, NEW u \in Nat \ {0}
  PROVE  /\ x \div u \in Nat /\ x % u \in 0..(u - 1)
         /\ x = (x \div u) * u + (x % u)
OBVIOUS

\* Quotient and remainder are unique.
LEMMA DivisionUnique ==
  ASSUME NEW u \in Nat \ {0}, NEW q \in Nat, NEW r \in Nat, r < u
  PROVE  (q * u + r) \div u = q /\ (q * u + r) % u = r
OBVIOUS

\* Two divisions are one by the product.
LEMMA DivisionTwice ==
  ASSUME NEW x \in Nat, NEW a \in Nat \ {0}, NEW b \in Nat \ {0}
  PROVE  (x \div a) \div b = x \div (a * b)
OBVIOUS

\* Division keeps the order.
LEMMA DivisionMonotonic ==
  ASSUME NEW x \in Nat, NEW y \in Nat, NEW u \in Nat \ {0}, x <= y
  PROVE  x \div u <= y \div u
OBVIOUS

\* The product of two numbers, ordered as one of them is.
LEMMA ProductMonotonic ==
  ASSUME NEW a \in Nat, NEW b \in Nat, NEW u \in Nat, a <= b
  PROVE  a * u <= b * u
OBVIOUS

\* One digit less: the quotient by a weight is that by the weight before, divided
\* by Base.
LEMMA QuotientStep ==
  ASSUME NEW x \in Nat, NEW n \in 0..(KeyLen - 1)
  PROVE  x \div Weight[n + 1] = (x \div Weight[n]) \div Base
<1>1. /\ n \in 0..KeyLen /\ Weight[n] \in Nat \ {0} /\ Base \in Nat \ {0}
      /\ Weight[n + 1] = Base * Weight[n]
  BY WeightFacts, BaseAssumption, KeyLenAssumption
<1>2. Base * Weight[n] = Weight[n] * Base
  BY <1>1
<1>3. QED
  BY <1>1, <1>2, DivisionTwice
=============================================================================
