---------------------- MODULE RangeDecompositionProofs ----------------------
(* Proofs about RangeDecomposition: however many bytes a key has and however *)
(* many values a byte, a range is cut into perfect ranges that cover it      *)
(* exactly, and the flag that handle_range returns says what InsertRange     *)
(* takes it to say.                                                          *)
EXTENDS RangeDecomposition, DigitsProofs, SequenceTheorems

-----------------------------------------------------------------------------
(* Bytes and quotients. *)

\* Keys are the numbers that do not wrap.
LEMMA KeyFacts ==
  /\ KeyCount \in Nat \ {0}
  /\ \A x \in Key : x \in Nat /\ x < KeyCount /\ x \div KeyCount = 0 /\ Wrap(x) = x
<1>1. KeyCount \in Nat \ {0}
  BY WeightFacts, KeyLenAssumption DEF KeyCount
<1>2. ASSUME NEW x \in Key
      PROVE  x \in Nat /\ x < KeyCount
  BY <1>1 DEF Key, KeyCount
<1>3. ASSUME NEW x \in Key
      PROVE  x \div KeyCount = 0 /\ Wrap(x) = x
  BY <1>1, <1>2, DivisionUnique DEF Wrap
<1>4. QED
  BY <1>1, <1>2, <1>3

\* The first s bytes of two keys agree just when the keys agree divided by the
\* weight of the last of these bytes.
LEMMA SameBytes ==
  ASSUME NEW x \in Key, NEW y \in Key, NEW s \in 0..KeyLen
  PROVE  (\A b \in 1..s : Byte(x, b) = Byte(y, b))
           <=> x \div Weight[KeyLen - s] = y \div Weight[KeyLen - s]
<1> DEFINE Same(n) == \A b \in 1..n : Byte(x, b) = Byte(y, b)
           Q(z, n) == z \div Weight[KeyLen - n]
           S == {n \in Nat : n <= KeyLen => (Same(n) <=> Q(x, n) = Q(y, n))}
<1>1. 0 \in S
  BY KeyFacts, KeyLenAssumption DEF KeyCount
<1>2. ASSUME NEW n \in Nat, n \in S
      PROVE  n + 1 \in S
  <2>1. SUFFICES ASSUME n + 1 <= KeyLen
                 PROVE  Same(n + 1) <=> Q(x, n + 1) = Q(y, n + 1)
    OBVIOUS
  <2>2. Same(n) <=> Q(x, n) = Q(y, n)
    BY <1>2, <2>1, KeyLenAssumption
  <2>3. Same(n + 1) <=> Same(n) /\ Byte(x, n + 1) = Byte(y, n + 1)
    OBVIOUS
  <2>4. KeyLen - (n + 1) \in 0..(KeyLen - 1) /\ (KeyLen - (n + 1)) + 1 = KeyLen - n
    BY <2>1, KeyLenAssumption
  <2>5. \A z \in Key : /\ Q(z, n + 1) \in Nat
                       /\ Q(z, n) = Q(z, n + 1) \div Base
                       /\ Byte(z, n + 1) = Q(z, n + 1) % Base
    <3>1. ASSUME NEW z \in Key
          PROVE  /\ Q(z, n + 1) \in Nat
                 /\ Q(z, n) = Q(z, n + 1) \div Base
                 /\ Byte(z, n + 1) = Q(z, n + 1) % Base
      <4>1. z \in Nat
        BY KeyFacts
      <4>2. z \div Weight[(KeyLen - (n + 1)) + 1] = Q(z, n + 1) \div Base
        BY <4>1, <2>4, QuotientStep
      <4>3. Weight[KeyLen - (n + 1)] \in Nat \ {0}
        BY <2>4, WeightFacts, KeyLenAssumption
      <4>4. Q(z, n + 1) \in Nat
        BY <4>1, <4>3, Division
      <4>5. QED
        BY <4>2, <4>4, <2>4 DEF Byte
    <3>2. QED
      BY <3>1
  <2>6. ASSUME Q(x, n) = Q(y, n), Byte(x, n + 1) = Byte(y, n + 1)
        PROVE  Q(x, n + 1) = Q(y, n + 1)
    <3> DEFINE a == Q(x, n + 1)
               c == Q(y, n + 1)
    <3>1. a \in Nat /\ c \in Nat /\ a \div Base = c \div Base /\ a % Base = c % Base
      BY <2>5, <2>6
    <3> HIDE DEF a, c
    <3>2. a = (a \div Base) * Base + (a % Base) /\ c = (c \div Base) * Base + (c % Base)
      BY <3>1, BaseAssumption, Division
    <3>3. a = c
      BY <3>1, <3>2
    <3>4. QED
      BY <3>3 DEF a, c
  <2>7. QED
    BY <2>2, <2>3, <2>5, <2>6
<1> HIDE DEF S
<1>3. Nat \subseteq S
  BY <1>1, <1>2, Induction
<1>4. QED
  BY <1>3 DEF S

\* The keys below a child of a node, below its node, and in all.
LEMMA UnitFacts ==
  ASSUME NEW s \in 0..(KeyLen - 1)
  PROVE  /\ Unit(s) \in Nat \ {0}
         /\ s >= KeyLen - 1 => Unit(s) = 1
         /\ \E m \in Nat : KeyCount = m * Unit(s)
         /\ s < KeyLen - 1 => \E m \in Nat : Unit(s) = m * Base
<1>1. KeyLen - s - 1 \in 0..KeyLen
  BY KeyLenAssumption
<1>2. Unit(s) \in Nat \ {0}
  BY <1>1, WeightFacts DEF Unit
<1>3. s >= KeyLen - 1 => Unit(s) = 1
  <2>1. s >= KeyLen - 1 => KeyLen - s - 1 = 0
    BY KeyLenAssumption
  <2>2. QED
    BY <2>1, WeightFacts DEF Unit
<1>4. \E m \in Nat : KeyCount = m * Unit(s)
  <2>1. /\ KeyLen - (KeyLen - s - 1) \in 0..KeyLen
        /\ Weight[KeyLen] = Weight[KeyLen - (KeyLen - s - 1)] * Weight[KeyLen - s - 1]
    BY <1>1, WeightDivides, KeyLenAssumption
  <2>2. QED
    BY <2>1, WeightFacts DEF Unit, KeyCount
<1>5. s < KeyLen - 1 => \E m \in Nat : Unit(s) = m * Base
  <2>1. SUFFICES ASSUME s < KeyLen - 1
                 PROVE  \E m \in Nat : Unit(s) = m * Base
    OBVIOUS
  <2>2. /\ KeyLen - s - 2 \in 0..(KeyLen - 1) /\ KeyLen - s - 2 \in 0..KeyLen
        /\ (KeyLen - s - 2) + 1 = KeyLen - s - 1
    BY <2>1, KeyLenAssumption
  <2>3. Weight[KeyLen - s - 1] = Base * Weight[KeyLen - s - 2]
    BY <2>2, WeightFacts
  <2>4. Weight[KeyLen - s - 2] \in Nat
    BY <2>2, WeightFacts
  <2>5. Unit(s) = Weight[KeyLen - s - 2] * Base
    BY <2>3, <2>4, BaseAssumption DEF Unit
  <2>6. QED
    BY <2>4, <2>5
<1>6. QED
  BY <1>2, <1>3, <1>4, <1>5

\* The children of a node that shares s bytes are what its children below share
\* more bytes with.
LEMMA UnitDivides ==
  ASSUME NEW s \in 0..(KeyLen - 1), NEW t \in 0..(KeyLen - 1), s <= t
  PROVE  \E m \in Nat : Unit(s) = m * Unit(t)
<1>1. /\ KeyLen - s - 1 \in 0..KeyLen /\ KeyLen - t - 1 \in 0..KeyLen
      /\ KeyLen - t - 1 <= KeyLen - s - 1
  BY KeyLenAssumption
<1>2. /\ (KeyLen - s - 1) - (KeyLen - t - 1) \in 0..KeyLen
      /\ Weight[KeyLen - s - 1]
           = Weight[(KeyLen - s - 1) - (KeyLen - t - 1)] * Weight[KeyLen - t - 1]
  BY <1>1, WeightDivides
<1>3. QED
  BY <1>2, WeightFacts DEF Unit

\* SplitIndex is the number of bytes that two keys share, when they differ.
LEMMA SplitIndexFacts ==
  ASSUME NEW x \in Key, NEW y \in Key, x < y
  PROVE  LET s == SplitIndex(x, y)
         IN  /\ s \in 0..(KeyLen - 1)
             /\ x \div Weight[KeyLen - s] = y \div Weight[KeyLen - s]
             /\ x \div Unit(s) < y \div Unit(s)
<1> DEFINE s == SplitIndex(x, y)
           Splits(n) == /\ \A b \in 1..n : Byte(x, b) = Byte(y, b)
                        /\ n < KeyLen => Byte(x, n + 1) # Byte(y, n + 1)
           D == {b \in 1..KeyLen : Byte(x, b) # Byte(y, b)}
<1>1. x \in Nat /\ y \in Nat
  BY KeyFacts
<1>2. ~ \A b \in 1..KeyLen : Byte(x, b) = Byte(y, b)
  <2>1. KeyLen \in 0..KeyLen /\ KeyLen - KeyLen = 0
    BY KeyLenAssumption
  <2>2. x \div Weight[0] = x /\ y \div Weight[0] = y
    BY <1>1, WeightFacts
  <2>3. (\A b \in 1..KeyLen : Byte(x, b) = Byte(y, b))
          <=> x \div Weight[KeyLen - KeyLen] = y \div Weight[KeyLen - KeyLen]
    BY <2>1, SameBytes
  <2>4. QED
    BY <2>1, <2>2, <2>3, <1>1
<1>3. \E n \in 0..KeyLen : Splits(n)
  <2>1. D # {} /\ D \subseteq Nat
    BY <1>2
  <2> HIDE DEF D
  <2>2. PICK m \in D : \A b \in D : m <= b
    BY <2>1, LeastElement
  <2>3. m \in 1..KeyLen /\ Byte(x, m) # Byte(y, m)
    BY DEF D
  <2>4. m - 1 \in 0..KeyLen /\ (m - 1) + 1 = m
    BY <2>3, KeyLenAssumption
  <2>5. \A b \in 1..(m - 1) : b \in 1..KeyLen /\ ~(m <= b)
    BY <2>3, KeyLenAssumption
  <2>6. \A b \in 1..(m - 1) : Byte(x, b) = Byte(y, b)
    BY <2>2, <2>5 DEF D
  <2>7. QED
    BY <2>3, <2>4, <2>6
<1>4. s \in 0..KeyLen /\ Splits(s)
  <2>1. s = CHOOSE n \in 0..KeyLen : Splits(n)
    BY DEF SplitIndex
  <2> HIDE DEF Splits, s
  <2>2. QED
    BY <1>3, <2>1
<1> HIDE DEF s
<1>5. s # KeyLen /\ s \in 0..(KeyLen - 1) /\ s + 1 \in 0..KeyLen
  BY <1>2, <1>4, KeyLenAssumption
<1>6. x \div Weight[KeyLen - s] = y \div Weight[KeyLen - s]
  BY <1>4, SameBytes
<1>7. x \div Weight[KeyLen - (s + 1)] # y \div Weight[KeyLen - (s + 1)]
  <2>1. s < KeyLen /\ s + 1 \in 1..(s + 1)
    BY <1>5, KeyLenAssumption
  <2>2. QED
    BY <1>4, <1>5, <2>1, SameBytes
<1>8. KeyLen - (s + 1) = KeyLen - s - 1
  BY <1>5, KeyLenAssumption
<1>9. x \div Unit(s) <= y \div Unit(s)
  BY <1>1, <1>5, UnitFacts, DivisionMonotonic
<1>10. x \div Unit(s) \in Nat /\ y \div Unit(s) \in Nat
  BY <1>1, <1>5, UnitFacts, Division
<1>11. QED
  BY <1>5, <1>6, <1>7, <1>8, <1>9, <1>10 DEF Unit, s

\* Two keys that share s bytes split at s or later, two that share s + 1 later.
LEMMA SplitIndexAtLeast ==
  ASSUME NEW x \in Key, NEW y \in Key, x < y, NEW s \in 0..KeyLen,
         x \div Weight[KeyLen - s] = y \div Weight[KeyLen - s]
  PROVE  SplitIndex(x, y) >= s
<1> DEFINE t == SplitIndex(x, y)
<1>1. t \in 0..(KeyLen - 1) /\ x \div Unit(t) < y \div Unit(t)
  BY SplitIndexFacts
<1> HIDE DEF t
<1>2. SUFFICES ASSUME t < s
               PROVE  FALSE
  BY <1>1, KeyLenAssumption DEF t
<1>3. \A b \in 1..s : Byte(x, b) = Byte(y, b)
  BY SameBytes
<1>4. t + 1 \in 0..KeyLen /\ \A b \in 1..(t + 1) : b \in 1..s
  BY <1>1, <1>2, KeyLenAssumption
<1>5. x \div Weight[KeyLen - (t + 1)] = y \div Weight[KeyLen - (t + 1)]
  BY <1>3, <1>4, SameBytes
<1>6. KeyLen - (t + 1) = KeyLen - t - 1 /\ KeyLen - t - 1 \in 0..KeyLen
  BY <1>1, KeyLenAssumption
<1>7. x \div Unit(t) = y \div Unit(t)
  BY <1>5, <1>6 DEF Unit
<1>8. x \div Unit(t) \in Nat
  BY <1>1, UnitFacts, KeyFacts, Division
<1>9. QED
  BY <1>1, <1>7, <1>8

-----------------------------------------------------------------------------
(* The perfect range in the middle of a range. *)

\* The bounds of the middle range are the range's own, or the next multiples of
\* the unit inside; no arithmetic wraps.
LEMMA Rounding ==
  ASSUME NEW l \in Key, NEW h \in Key, l < h
  PROVE  LET s == SplitIndex(l, h)
             x == PerfectLower(l, s)
             y == PerfectUpper(h, s)
         IN  \E a \in Nat, c \in Nat :
               /\ x \in Key /\ l <= x /\ x <= h /\ x = a * Unit(s)
               /\ y \in Key /\ l <= y /\ y <= h /\ y + 1 = c * Unit(s)
               /\ a <= c
               /\ x = l \/ y = h => a < c
               /\ x # l => l \div Unit(s) = (x - 1) \div Unit(s)
               /\ y # h => h \div Unit(s) = (y + 1) \div Unit(s)
<1> DEFINE s == SplitIndex(l, h)
           u == Unit(s)
           x == PerfectLower(l, s)
           y == PerfectUpper(h, s)
           p == l \div u
           q == h \div u
<1>1. l \in Nat /\ h \in Nat /\ h < KeyCount /\ KeyCount \in Nat
  BY KeyFacts
<1>2. s \in 0..(KeyLen - 1) /\ p < q
  BY SplitIndexFacts
<1>3. u \in Nat \ {0} /\ (s >= KeyLen - 1 => u = 1)
  BY <1>2, UnitFacts
<1>4. PICK n \in Nat : KeyCount = n * u
  BY <1>2, UnitFacts
<1>x. x = IF s >= KeyLen - 1 \/ p * u = l THEN l ELSE Wrap((p + 1) * u)
  BY DEF PerfectLower
<1>y. y = IF s >= KeyLen - 1 \/ Wrap((q + 1) * u - 1) = h THEN h
          ELSE Wrap(q * u - 1)
  BY DEF PerfectUpper
<1>5. p \in Nat /\ q \in Nat /\ l = p * u + (l % u) /\ h = q * u + (h % u)
      /\ l % u \in 0..(u - 1) /\ h % u \in 0..(u - 1)
  BY <1>1, <1>3, Division
<1> HIDE DEF s, u, x, y, p, q
<1>6. (p + 1) * u <= q * u /\ (p + 1) * u = p * u + u /\ (q + 1) * u = q * u + u
  BY <1>2, <1>3, <1>5, ProductMonotonic
<1>7. q * u + u <= KeyCount
  <2>1. q < n
    <3>1. SUFFICES ASSUME n <= q
                   PROVE  FALSE
      BY <1>5
    <3>2. n * u <= q * u
      BY <3>1, <1>3, <1>5, ProductMonotonic
    <3>3. QED
      BY <3>2, <1>1, <1>3, <1>4, <1>5
  <2>2. (q + 1) * u <= n * u
    BY <2>1, <1>3, <1>5, ProductMonotonic
  <2>3. QED
    BY <2>2, <1>4, <1>6
<1>8. \A z \in Nat : z < KeyCount => Wrap(z) = z /\ z \in Key
  BY <1>1, KeyFacts DEF Key, KeyCount
<1>9. p * u \in Nat /\ q * u \in Nat /\ (p + 1) * u \in Nat /\ (q + 1) * u \in Nat
  BY <1>3, <1>5
<1>10. /\ Wrap((p + 1) * u) = (p + 1) * u
       /\ Wrap((q + 1) * u - 1) = (q + 1) * u - 1
       /\ Wrap(q * u - 1) = q * u - 1
  <2>1. (p + 1) * u \in Nat /\ (p + 1) * u < KeyCount
    BY <1>1, <1>3, <1>6, <1>7, <1>9
  <2>2. (q + 1) * u - 1 \in Nat /\ (q + 1) * u - 1 < KeyCount
    BY <1>1, <1>3, <1>6, <1>7, <1>9
  <2>3. q * u - 1 \in Nat /\ q * u - 1 < KeyCount
    BY <1>1, <1>3, <1>6, <1>7, <1>9
  <2>4. Wrap((p + 1) * u) = (p + 1) * u
    BY <2>1, <1>8
  <2>5. Wrap((q + 1) * u - 1) = (q + 1) * u - 1
    BY <2>2, <1>8
  <2>6. Wrap(q * u - 1) = q * u - 1
    BY <2>3, <1>8
  <2>7. QED
    BY <2>4, <2>5, <2>6
<1>11. \/ x = l /\ p * u = l
       \/ x # l /\ x = p * u + u
  BY <1>x, <1>10, <1>3, <1>5, <1>6, <1>9, <1>1
<1>12. \/ y = h /\ q * u + u - 1 = h
       \/ y # h /\ y = q * u - 1
  <2>1. CASE s >= KeyLen - 1
    BY <2>1, <1>y, <1>3, <1>5, <1>1
  <2>2. CASE ~(s >= KeyLen - 1) /\ (q + 1) * u - 1 = h
    <3>1. y = h
      BY <2>2, <1>y, <1>10
    <3>2. QED
      BY <2>2, <3>1, <1>1, <1>3, <1>6, <1>9
  <2>3. CASE ~(s >= KeyLen - 1) /\ (q + 1) * u - 1 # h
    <3>1. y = q * u - 1
      BY <2>3, <1>y, <1>10
    <3>2. q * u - 1 # h
      BY <1>1, <1>3, <1>5, <1>9
    <3>3. QED
      BY <3>1, <3>2
  <2>4. QED
    BY <2>1, <2>2, <2>3
<1> DEFINE a == IF x = l THEN p ELSE p + 1
           c == IF y = h THEN q + 1 ELSE q
<1>13. a \in Nat /\ c \in Nat /\ a <= c /\ (x = l \/ y = h => a < c)
  BY <1>2, <1>5
<1>14. x = a * u /\ y + 1 = c * u
  <2>1. x = a * u
    BY <1>6, <1>11
  <2>2. CASE y = h
    <3>1. c = q + 1 /\ h = q * u + u - 1
      BY <2>2, <1>12, <1>1, <1>3, <1>9
    <3>2. h + 1 = q * u + u
      BY <3>1, <1>1, <1>3, <1>9
    <3>3. QED
      BY <2>1, <2>2, <3>1, <3>2, <1>6
  <2>3. CASE y # h
    BY <2>1, <2>3, <1>9, <1>12
  <2>4. QED
    BY <2>2, <2>3
<1> HIDE DEF a, c
<1>15. x \in Nat /\ l <= x /\ x <= h /\ x \in Key
  BY <1>1, <1>3, <1>5, <1>6, <1>8, <1>9, <1>11
<1>16. y \in Nat /\ l <= y /\ y <= h /\ y \in Key
  BY <1>1, <1>3, <1>5, <1>6, <1>8, <1>9, <1>12
<1>17. x # l => p = (x - 1) \div u
  <2>1. u - 1 \in Nat /\ u - 1 < u
    BY <1>3
  <2>2. (p * u + (u - 1)) \div u = p
    BY <2>1, <1>3, <1>5, DivisionUnique
  <2>3. x # l => x - 1 = p * u + (u - 1)
    BY <1>3, <1>9, <1>11
  <2>4. QED
    BY <2>2, <2>3
<1>18. y # h => q = (y + 1) \div u
  <2>1. (q * u + 0) \div u = q
    BY <1>3, <1>5, DivisionUnique
  <2>2. y # h => y + 1 = q * u + 0
    BY <1>9, <1>12
  <2>3. QED
    BY <2>1, <2>2
<1>19. QED
  BY <1>13, <1>14, <1>15, <1>16, <1>17, <1>18 DEF s, u, x, y, p, q

\* The middle is empty only when both bounds had to be moved; then the two
\* leftovers meet.
LEMMA MiddleOrNone ==
  ASSUME NEW l \in Key, NEW h \in Key, l < h
  PROVE  LET s == SplitIndex(l, h)
             x == PerfectLower(l, s)
             y == PerfectUpper(h, s)
         IN  /\ x < y \/ x = y + 1
             /\ x = l \/ y = h => x < y
<1> DEFINE s == SplitIndex(l, h)
           u == Unit(s)
           x == PerfectLower(l, s)
           y == PerfectUpper(h, s)
<1>1. s \in 0..(KeyLen - 1)
  BY SplitIndexFacts
<1>2. u \in Nat \ {0}
  BY <1>1, UnitFacts
<1>3. u = 1 => x = l /\ y = h
  <2>1. ASSUME u = 1
        PROVE  x = l /\ y = h
    <3>1. l \in Nat /\ h \in Nat /\ Wrap(h) = h
      BY KeyFacts
    <3>2. (l \div 1) * 1 = l /\ (h \div 1 + 1) * 1 - 1 = h
      BY <3>1
    <3>3. QED
      BY <2>1, <3>1, <3>2 DEF PerfectLower, PerfectUpper
  <2>2. QED
    BY <2>1
<1>4. PICK a \in Nat, c \in Nat :
        /\ x \in Key /\ y \in Key
        /\ x = a * u /\ y + 1 = c * u /\ a <= c /\ (x = l \/ y = h => a < c)
  BY Rounding
<1>5. x \in Nat /\ y \in Nat /\ l \in Nat /\ h \in Nat
  BY <1>4, KeyFacts
<1> HIDE DEF s, u, x, y
<1>6. (x < y \/ x = y + 1) /\ (x = l \/ y = h => x < y)
  <2>1. CASE a = c
    BY <1>4, <1>5, <2>1
  <2>2. CASE a < c
    <3>1. (a + 1) * u <= c * u /\ (a + 1) * u = a * u + u
      BY <2>2, <1>2, ProductMonotonic
    <3>2. x + u <= y + 1
      BY <3>1, <1>2, <1>4, <1>5
    <3>3. QED
      BY <3>2, <1>2, <1>3, <1>5
  <2>3. QED
    BY <1>4, <2>1, <2>2
<1>7. QED
  BY <1>6 DEF s, u, x, y

-----------------------------------------------------------------------------
(* The inductive invariant. *)

In(k, r) == r.lo <= k /\ k <= r.hi

\* A range that begins and ends at a byte boundary.
Aligned(r) == /\ r.lo < r.hi
              /\ \E m \in Nat : r.lo = m * Base
              /\ \E m \in Nat : r.hi + 1 = m * Base

\* A run of whole children of a node.
Perfect(r) == /\ r.lo < r.hi
              /\ \E m \in Nat : r.lo = m * Unit(r.sb)
              /\ \E m \in Nat : r.hi + 1 = m * Unit(r.sb)
              /\ SplitIndex(r.lo, r.hi) >= r.sb

\* Every key of the whole range is in one range, done or to do.
Covered == \A k \in low..high : \/ (\E i \in 1..Len(out) : In(k, out[i]))
                                 \/ (\E i \in 1..Len(job) : In(k, job[i]))
Inside == /\ \A i \in 1..Len(out) : low <= out[i].lo /\ out[i].hi <= high
          /\ \A i \in 1..Len(job) : low <= job[i].lo /\ job[i].hi <= high
Apart(r, q) == r.hi < q.lo \/ q.hi < r.lo
Disjoint ==
  /\ \A i, j \in 1..Len(out) : i # j => Apart(out[i], out[j])
  /\ \A i, j \in 1..Len(job) : i # j => Apart(job[i], job[j])
  /\ \A i \in 1..Len(out), j \in 1..Len(job) : Apart(out[i], job[j])

\* A leftover of a range that splits at t: it splits later, and one of its sides is that
\* of a child, so that it has a perfect range itself.
Later(r, t) ==
  LET s == SplitIndex(r.lo, r.hi)
  IN  /\ s > t
      /\ PerfectLower(r.lo, s) = r.lo \/ PerfectUpper(r.hi, s) = r.hi

\* Nothing has been cut yet.
Whole == /\ job = <<[lo |-> low, hi |-> high]>> /\ out = <<>>
         /\ rootExists = TRUE /\ phase = "split"

Flagged == /\ \A i \in 1..Len(job) : Later(job[i], SplitIndex(low, high))
           /\ rootExists <=> out # <<>> /\ out[1].sb = SplitIndex(low, high)
           /\ out = <<>> => job # <<>>

IInv ==
  /\ TypeOK
  /\ \A i \in 1..Len(job) : Aligned(job[i])
  /\ \A i \in 1..Len(out) : Perfect(out[i])
  /\ phase = "split" => Called
  /\ phase = "idle" => job = <<>>
  /\ Called => Covered /\ Inside /\ Disjoint /\ (Whole \/ Flagged)

-----------------------------------------------------------------------------
(* A round of the loop. *)

\* A sequence with one element more, or none.
LEMMA ExtendedOrNot ==
  ASSUME NEW R, NEW p \in Seq(R), NEW l \in R, NEW a \in {<<>>, <<l>>},
         NEW t, t = p \o a
  PROVE  /\ t \in Seq(R)
         /\ Len(p) \in Nat /\ Len(a) = (IF a = <<>> THEN 0 ELSE 1)
         /\ Len(t) = Len(p) + Len(a)
         /\ \A i \in 1..Len(p) : t[i] = p[i]
         /\ a # <<>> => t[Len(p) + 1] = l
<1>1. Len(p) \in Nat
  BY LenProperties
<1>2. CASE a = <<>>
  <2>1. t = p
    BY <1>2, ConcatEmptySeq
  <2>2. Len(a) = 0
    BY <1>2
  <2>3. QED
    BY <1>1, <1>2, <2>1, <2>2
<1>3. CASE a = <<l>>
  <2>1. a \in Seq(R) /\ Len(a) = 1 /\ a[1] = l /\ a # <<>>
    BY <1>3
  <2>2. /\ t \in Seq(R)
        /\ Len(t) = Len(p) + Len(a)
        /\ \A i \in 1..(Len(p) + Len(a)) :
             t[i] = IF i <= Len(p) THEN p[i] ELSE a[i - Len(p)]
    BY <2>1, ConcatProperties
  <2> HIDE <1>3
  <2>3. \A i \in 1..Len(p) : i \in 1..(Len(p) + Len(a)) /\ i <= Len(p)
    BY <1>1, <2>1
  <2>4. Len(p) + 1 \in 1..(Len(p) + Len(a)) /\ ~(Len(p) + 1 <= Len(p))
        /\ (Len(p) + 1) - Len(p) = 1
    BY <1>1, <2>1
  <2>5. t[Len(p) + 1] = l
    BY <2>1, <2>2, <2>4
  <2>6. \A i \in 1..Len(p) : t[i] = p[i]
    BY <2>2, <2>3
  <2>7. QED
    BY <1>1, <2>1, <2>2, <2>5, <2>6
<1>4. QED
  BY <1>2, <1>3

\* The last element of q is replaced by a, which is empty or l, and b, which is
\* empty or h.
TopReplaced(R, q, a, l, b, h) ==
  LET n == Len(q)
      t == SubSeq(q, 1, n - 1) \o a \o b
  IN  /\ t \in Seq(R) /\ n \in Nat \ {0} /\ Len(t) = n - 1 + Len(a) + Len(b)
      /\ Len(a) = (IF a = <<>> THEN 0 ELSE 1) /\ Len(b) = (IF b = <<>> THEN 0 ELSE 1)
      /\ \A i \in 1..(n - 1) : t[i] = q[i]
      /\ a # <<>> => t[n] = l
      /\ b # <<>> => t[n + Len(a)] = h

\* The top of a stack is replaced by at most two elements.
LEMMA Replaced ==
  ASSUME NEW R, NEW q \in Seq(R), q # <<>>, NEW l \in R, NEW h \in R,
         NEW a \in {<<>>, <<l>>}, NEW b \in {<<>>, <<h>>}
  PROVE  TopReplaced(R, q, a, l, b, h)
<1> DEFINE n == Len(q)
           p == SubSeq(q, 1, n - 1)
<1>1. n \in Nat \ {0}
  BY EmptySeq
<1>2. p \in Seq(R) /\ Len(p) = n - 1 /\ \A i \in 1..(n - 1) : p[i] = q[i]
  <2>1. \A i \in 1..(n - 1) : q[i] \in R
    BY <1>1, ElementOfSeq
  <2>2. 1 \in Int /\ n - 1 \in Int
    BY <1>1
  <2> HIDE DEF n
  <2>3. /\ p \in Seq(R)
        /\ Len(p) = IF 1 <= n - 1 THEN (n - 1) - 1 + 1 ELSE 0
        /\ \A i \in 1..((n - 1) - 1 + 1) : p[i] = q[1 + i - 1]
    BY <2>1, <2>2, SubSeqProperties
  <2> HIDE DEF p
  <2>4. \A i \in 1..(n - 1) : 1 + i - 1 = i /\ i \in 1..((n - 1) - 1 + 1)
    BY <1>1
  <2>5. QED
    BY <1>1, <2>3, <2>4
<1>s. p \in Seq(R)
  BY <1>2
<1> HIDE DEF p, n
<1> DEFINE pa == p \o a
           t == pa \o b
<1>3. Len(a) = (IF a = <<>> THEN 0 ELSE 1) /\ Len(b) = (IF b = <<>> THEN 0 ELSE 1)
  OBVIOUS
<1>3a. a \in {<<>>, <<l>>} /\ b \in {<<>>, <<h>>}
  OBVIOUS
<1> HIDE DEF pa, t
<1>3b. pa = p \o a /\ t = pa \o b
  BY DEF pa, t
<1>4. pa \in Seq(R)
  BY <1>s, <1>3a, <1>3b, ExtendedOrNot
<1>5. Len(pa) = Len(p) + Len(a)
  BY <1>s, <1>3a, <1>3b, ExtendedOrNot
<1>6. a # <<>> => pa[Len(p) + 1] = l
  <2>1. SUFFICES ASSUME a = <<l>>
                 PROVE  pa[Len(p) + 1] = l
    BY <1>3a
  <2>2. pa = Append(p, l)
    BY <1>s, <1>3b, <2>1, AppendIsConcat
  <2>3. QED
    BY <1>s, <2>2, AppendProperties
<1>7. ASSUME NEW i \in 1..Len(p)
      PROVE  pa[i] = p[i]
  BY <1>s, <1>3a, <1>3b, ExtendedOrNot
<1>8. t \in Seq(R)
  BY <1>4, <1>3a, <1>3b, ExtendedOrNot
<1>9. Len(t) = Len(pa) + Len(b)
  BY <1>4, <1>3a, <1>3b, ExtendedOrNot
<1>10. b # <<>> => t[Len(pa) + 1] = h
  <2>1. SUFFICES ASSUME b = <<h>>
                 PROVE  t[Len(pa) + 1] = h
    BY <1>3a
  <2>2. t = Append(pa, h)
    BY <1>4, <1>3b, <2>1, AppendIsConcat
  <2>3. QED
    BY <1>4, <2>2, AppendProperties
<1>11. ASSUME NEW i \in 1..Len(pa)
       PROVE  t[i] = pa[i]
  BY <1>4, <1>3a, <1>3b, ExtendedOrNot
<1>12. Len(a) \in {0, 1} /\ Len(b) \in {0, 1} /\ Len(p) = n - 1
  BY <1>2, <1>3
<1>13. \A i \in 1..(n - 1) : t[i] = q[i]
  <2>1. ASSUME NEW i \in 1..(n - 1)
        PROVE  t[i] = q[i]
    <3>1. i \in 1..Len(p) /\ i \in 1..Len(pa)
      BY <1>1, <1>5, <1>12
    <3>2. QED
      BY <1>2, <1>7, <1>11, <3>1
  <2>2. QED
    BY <2>1
<1>14. a # <<>> => t[n] = l
  <2>1. a # <<>> => n \in 1..Len(pa) /\ n = Len(p) + 1
    BY <1>1, <1>3, <1>5, <1>12
  <2>2. QED
    BY <2>1, <1>6, <1>11
<1>15. b # <<>> => t[n + Len(a)] = h
  <2>1. n + Len(a) = Len(pa) + 1
    BY <1>1, <1>5, <1>12
  <2>2. QED
    BY <2>1, <1>10
<1>16. Len(t) = n - 1 + Len(a) + Len(b)
  BY <1>5, <1>9, <1>12
<1>17. QED
  BY <1>1, <1>3, <1>8, <1>13, <1>14, <1>15, <1>16 DEF TopReplaced, p, n, pa, t

-----------------------------------------------------------------------------
(* What is left over. *)

\* Two multiples of a number that differ, differ by at least that number.
LEMMA MultiplesApart ==
  ASSUME NEW x \in Nat, NEW y \in Nat, NEW i \in Nat, NEW j \in Nat, NEW u \in Nat \ {0},
         x = i * u, y = j * u, x < y
  PROVE  x + u <= y
<1>1. i < j
  <2>1. SUFFICES ASSUME j <= i
                 PROVE  FALSE
    OBVIOUS
  <2>2. j * u <= i * u
    BY <2>1, ProductMonotonic
  <2>3. QED
    BY <2>2
<1>2. (i + 1) * u <= j * u /\ (i + 1) * u = i * u + u
  BY <1>1, ProductMonotonic
<1>3. QED
  BY <1>2

\* A multiple of a multiple.
LEMMA MultipleOfMultiple ==
  ASSUME NEW i \in Nat, NEW m \in Nat, NEW u \in Nat
  PROVE  i * m \in Nat /\ i * (m * u) = (i * m) * u
OBVIOUS

\* A bound on the border of a child of a node is perfect for every node below.
LEMMA AlreadyPerfect ==
  ASSUME NEW x \in Key, NEW t \in 0..(KeyLen - 1)
  PROVE  /\ (\E c \in Nat : x = c * Unit(t)) => PerfectLower(x, t) = x
         /\ (\E c \in Nat : x + 1 = c * Unit(t)) => PerfectUpper(x, t) = x
<1> DEFINE u == Unit(t)
<1>1. u \in Nat \ {0} /\ x \in Nat /\ Wrap(x) = x
  BY UnitFacts, KeyFacts
<1>l. PerfectLower(x, t) = IF t >= KeyLen - 1 \/ (x \div u) * u = x THEN x
                           ELSE Wrap((x \div u + 1) * u)
  BY DEF PerfectLower
<1>u. PerfectUpper(x, t) = IF t >= KeyLen - 1 \/ Wrap((x \div u + 1) * u - 1) = x THEN x
                           ELSE Wrap((x \div u) * u - 1)
  BY DEF PerfectUpper
<1> HIDE DEF u
<1>2. ASSUME NEW c \in Nat, x = c * u
      PROVE  PerfectLower(x, t) = x
  <2>1. (c * u + 0) \div u = c
    BY <1>1, DivisionUnique
  <2>2. c * u + 0 = x
    BY <1>1, <1>2
  <2>3. (x \div u) * u = x
    BY <2>1, <2>2, <1>2
  <2>4. QED
    BY <2>3, <1>l
<1>3. ASSUME NEW c \in Nat, x + 1 = c * u
      PROVE  PerfectUpper(x, t) = x
  <2>1. c # 0 /\ c - 1 \in Nat
    BY <1>1, <1>3
  <2>2. u - 1 \in Nat /\ u - 1 < u
    BY <1>1
  <2>3. ((c - 1) * u + (u - 1)) \div u = c - 1
    BY <2>1, <2>2, <1>1, DivisionUnique
  <2>4. (c - 1) * u = c * u - u
    BY <1>1
  <2>5. (c - 1) * u + (u - 1) = x
    BY <2>4, <1>1, <1>3
  <2>6. x \div u + 1 = c
    BY <2>1, <2>3, <2>5
  <2>7. (x \div u + 1) * u - 1 = x
    BY <2>6, <1>3, <1>1
  <2>8. QED
    BY <2>7, <1>1, <1>u
<1>4. QED
  BY <1>2, <1>3 DEF u

\* The key before the lower bound of the middle ends a leftover that splits later
\* and has its upper bound on the border of a child.
LEMMA LowerLeftover ==
  ASSUME NEW l \in Key, NEW h \in Key, Aligned([lo |-> l, hi |-> h])
  PROVE  LET s == SplitIndex(l, h)
             x == PerfectLower(l, s)
             t == SplitIndex(l, x - 1)
         IN  x # l =>
               /\ x - 1 \in Key
               /\ Leftover(l, Wrap(x - 1)) = <<[lo |-> l, hi |-> x - 1]>>
               /\ Aligned([lo |-> l, hi |-> x - 1])
               /\ t > s
               /\ PerfectUpper(x - 1, t) = x - 1
<1> DEFINE s == SplitIndex(l, h)
           x == PerfectLower(l, s)
           t == SplitIndex(l, x - 1)
<1>1. SUFFICES ASSUME x # l
               PROVE  /\ x - 1 \in Key
                      /\ Leftover(l, Wrap(x - 1)) = <<[lo |-> l, hi |-> x - 1]>>
                      /\ Aligned([lo |-> l, hi |-> x - 1])
                      /\ t > s
                      /\ PerfectUpper(x - 1, t) = x - 1
  OBVIOUS
<1>2. l < h /\ \E k \in Nat : l = k * Base
  BY DEF Aligned
<1>3. s \in 0..(KeyLen - 1)
  BY <1>2, SplitIndexFacts
<1>4. s < KeyLen - 1
  BY <1>1, <1>3, KeyLenAssumption DEF PerfectLower
<1>5. PICK a \in Nat : /\ x \in Key /\ l <= x /\ x <= h /\ x = a * Unit(s)
                       /\ l \div Unit(s) = (x - 1) \div Unit(s)
  BY <1>1, <1>2, Rounding
<1>6. PICK m \in Nat : Unit(s) = m * Base
  BY <1>3, <1>4, UnitFacts
<1>7. PICK k \in Nat : l = k * Base
  BY <1>2
<1>8. x \in Nat /\ l \in Nat /\ h \in Nat /\ h < KeyCount /\ KeyCount \in Nat /\ Base \in Nat \ {0}
      /\ Base >= 2
  BY <1>5, KeyFacts, BaseAssumption
<1> HIDE DEF s, x, t
<1>9. \E j \in Nat : x = j * Base
  <2>1. a * m \in Nat /\ a * (m * Base) = (a * m) * Base
    BY <1>8, MultipleOfMultiple
  <2>2. QED
    BY <2>1, <1>5, <1>6
<1>10. l + Base <= x
  <2>1. PICK j \in Nat : x = j * Base
    BY <1>9
  <2>2. l < x
    BY <1>1, <1>5, <1>8
  <2>3. QED
    BY <2>1, <2>2, <1>7, <1>8, MultiplesApart
<1>11. x - 1 \in Nat /\ x - 1 < KeyCount /\ l < x - 1
  BY <1>5, <1>8, <1>10
<1>12. x - 1 \in Key
  BY <1>8, <1>11, KeyFacts DEF Key, KeyCount
<1>13. Leftover(l, Wrap(x - 1)) = <<[lo |-> l, hi |-> x - 1]>>
  <2>1. Wrap(x - 1) = x - 1
    BY <1>12, KeyFacts
  <2>2. x - 1 - l + 1 \in Nat /\ x - 1 - l + 1 < KeyCount /\ x - 1 - l + 1 >= Base
    BY <1>8, <1>10, <1>5
  <2>3. x - 1 - l + 1 \in Key
    BY <2>2, <1>8 DEF Key, KeyCount
  <2>4. Wrap(x - 1 - l + 1) = x - 1 - l + 1
    BY <2>3, KeyFacts
  <2>5. QED
    BY <2>1, <2>2, <2>4 DEF Leftover
<1>14. Aligned([lo |-> l, hi |-> x - 1])
  <2>1. (x - 1) + 1 = x
    BY <1>8
  <2>2. QED
    BY <2>1, <1>2, <1>9, <1>11 DEF Aligned
<1>15. t \in 0..(KeyLen - 1)
  BY <1>11, <1>12, SplitIndexFacts DEF t
<1>16. t > s
  <2>1. s + 1 \in 0..KeyLen /\ KeyLen - (s + 1) = KeyLen - s - 1
    BY <1>3, KeyLenAssumption
  <2>2. l \div Weight[KeyLen - (s + 1)] = (x - 1) \div Weight[KeyLen - (s + 1)]
    BY <2>1, <1>5 DEF Unit
  <2>3. t >= s + 1
    BY <2>1, <2>2, <1>11, <1>12, SplitIndexAtLeast DEF t
  <2>4. QED
    BY <2>3, <1>3, <1>15, KeyLenAssumption
<1>17. PerfectUpper(x - 1, t) = x - 1
  <2>1. s <= t
    BY <1>3, <1>15, <1>16, KeyLenAssumption
  <2>2. PICK n \in Nat : Unit(s) = n * Unit(t)
    BY <2>1, <1>3, <1>15, UnitDivides
  <2>3. Unit(t) \in Nat
    BY <1>15, UnitFacts
  <2>x. a * n \in Nat /\ a * (n * Unit(t)) = (a * n) * Unit(t)
    BY <2>3, MultipleOfMultiple
  <2>4. \E c \in Nat : x = c * Unit(t)
    BY <2>2, <2>x, <1>5
  <2>5. (x - 1) + 1 = x
    BY <1>8
  <2>6. QED
    BY <2>4, <2>5, <1>12, <1>15, AlreadyPerfect
<1>18. QED
  BY <1>12, <1>13, <1>14, <1>16, <1>17

\* The same for the keys after the middle.
LEMMA UpperLeftover ==
  ASSUME NEW l \in Key, NEW h \in Key, Aligned([lo |-> l, hi |-> h])
  PROVE  LET s == SplitIndex(l, h)
             y == PerfectUpper(h, s)
             t == SplitIndex(y + 1, h)
         IN  y # h =>
               /\ y + 1 \in Key
               /\ Leftover(Wrap(y + 1), h) = <<[lo |-> y + 1, hi |-> h]>>
               /\ Aligned([lo |-> y + 1, hi |-> h])
               /\ t > s
               /\ PerfectLower(y + 1, t) = y + 1
<1> DEFINE s == SplitIndex(l, h)
           y == PerfectUpper(h, s)
           t == SplitIndex(y + 1, h)
<1>1. SUFFICES ASSUME y # h
               PROVE  /\ y + 1 \in Key
                      /\ Leftover(Wrap(y + 1), h) = <<[lo |-> y + 1, hi |-> h]>>
                      /\ Aligned([lo |-> y + 1, hi |-> h])
                      /\ t > s
                      /\ PerfectLower(y + 1, t) = y + 1
  OBVIOUS
<1>2. l < h /\ \E k \in Nat : h + 1 = k * Base
  BY DEF Aligned
<1>3. s \in 0..(KeyLen - 1)
  BY <1>2, SplitIndexFacts
<1>4. s < KeyLen - 1
  BY <1>1, <1>3, KeyLenAssumption DEF PerfectUpper
<1>5. PICK c \in Nat : /\ y \in Key /\ l <= y /\ y <= h /\ y + 1 = c * Unit(s)
                       /\ h \div Unit(s) = (y + 1) \div Unit(s)
  BY <1>1, <1>2, Rounding
<1>6. PICK m \in Nat : Unit(s) = m * Base
  BY <1>3, <1>4, UnitFacts
<1>7. PICK k \in Nat : h + 1 = k * Base
  BY <1>2
<1>8. y \in Nat /\ l \in Nat /\ h \in Nat /\ h < KeyCount /\ KeyCount \in Nat /\ Base \in Nat \ {0}
      /\ Base >= 2
  BY <1>5, KeyFacts, BaseAssumption
<1> HIDE DEF s, y, t
<1>9. \E j \in Nat : y + 1 = j * Base
  <2>1. c * m \in Nat /\ c * (m * Base) = (c * m) * Base
    BY <1>8, MultipleOfMultiple
  <2>2. QED
    BY <2>1, <1>5, <1>6
<1>10. y + 1 + Base <= h + 1
  <2>1. PICK j \in Nat : y + 1 = j * Base
    BY <1>9
  <2>2. y + 1 < h + 1 /\ y + 1 \in Nat /\ h + 1 \in Nat
    BY <1>1, <1>5, <1>8
  <2>3. QED
    BY <2>1, <2>2, <1>7, <1>8, MultiplesApart
<1>11. y + 1 \in Nat /\ y + 1 < KeyCount /\ y + 1 < h
  BY <1>5, <1>8, <1>10
<1>12. y + 1 \in Key
  BY <1>8, <1>11, KeyFacts DEF Key, KeyCount
<1>13. Leftover(Wrap(y + 1), h) = <<[lo |-> y + 1, hi |-> h]>>
  <2>1. Wrap(y + 1) = y + 1
    BY <1>12, KeyFacts
  <2>2. h - (y + 1) + 1 \in Nat /\ h - (y + 1) + 1 < KeyCount /\ h - (y + 1) + 1 >= Base
    BY <1>8, <1>10, <1>5
  <2>3. h - (y + 1) + 1 \in Key
    BY <2>2, <1>8 DEF Key, KeyCount
  <2>4. Wrap(h - (y + 1) + 1) = h - (y + 1) + 1
    BY <2>3, KeyFacts
  <2>5. QED
    BY <2>1, <2>2, <2>4 DEF Leftover
<1>14. Aligned([lo |-> y + 1, hi |-> h])
  BY <1>2, <1>9, <1>11 DEF Aligned
<1>15. t \in 0..(KeyLen - 1)
  BY <1>11, <1>12, SplitIndexFacts DEF t
<1>16. t > s
  <2>1. s + 1 \in 0..KeyLen /\ KeyLen - (s + 1) = KeyLen - s - 1
    BY <1>3, KeyLenAssumption
  <2>2. (y + 1) \div Weight[KeyLen - (s + 1)] = h \div Weight[KeyLen - (s + 1)]
    BY <2>1, <1>5 DEF Unit
  <2>3. t >= s + 1
    BY <2>1, <2>2, <1>11, <1>12, SplitIndexAtLeast DEF t
  <2>4. QED
    BY <2>3, <1>3, <1>15, KeyLenAssumption
<1>17. PerfectLower(y + 1, t) = y + 1
  <2>1. s <= t
    BY <1>3, <1>15, <1>16, KeyLenAssumption
  <2>2. PICK n \in Nat : Unit(s) = n * Unit(t)
    BY <2>1, <1>3, <1>15, UnitDivides
  <2>3. Unit(t) \in Nat
    BY <1>15, UnitFacts
  <2>4. c * n \in Nat /\ c * (n * Unit(t)) = (c * n) * Unit(t)
    BY <2>3, MultipleOfMultiple
  <2>5. \E d \in Nat : y + 1 = d * Unit(t)
    BY <2>2, <2>4, <1>5
  <2>6. QED
    BY <2>5, <1>12, <1>15, AlreadyPerfect
<1>18. QED
  BY <1>12, <1>13, <1>14, <1>16, <1>17

\* The middle of a range, when there is one, is a run of whole children.
LEMMA MiddlePerfect ==
  ASSUME NEW l \in Key, NEW h \in Key, l < h
  PROVE  LET s == SplitIndex(l, h)
             x == PerfectLower(l, s)
             y == PerfectUpper(h, s)
         IN  x < y => Perfect([lo |-> x, hi |-> y, sb |-> s])
<1> DEFINE s == SplitIndex(l, h)
           x == PerfectLower(l, s)
           y == PerfectUpper(h, s)
           w == Weight[KeyLen - s]
<1>1. s \in 0..(KeyLen - 1) /\ l \div w = h \div w
  BY SplitIndexFacts
<1>2. PICK a \in Nat, c \in Nat :
        /\ x \in Key /\ y \in Key /\ l <= x /\ y <= h
        /\ x = a * Unit(s) /\ y + 1 = c * Unit(s)
  BY Rounding
<1>3. s \in 0..KeyLen /\ KeyLen - s \in 0..KeyLen
  BY <1>1, KeyLenAssumption
<1>4. w \in Nat \ {0}
  BY <1>3, WeightFacts
<1>5. l \in Nat /\ h \in Nat /\ x \in Nat /\ y \in Nat
  BY <1>2, KeyFacts
<1> HIDE DEF s, x, y
<1>6. ASSUME x < y
      PROVE  SplitIndex(x, y) >= s
  <2>1. l \div w <= x \div w /\ x \div w <= y \div w /\ y \div w <= h \div w
    BY <1>2, <1>4, <1>5, <1>6, DivisionMonotonic
  <2>2. l \div w \in Nat /\ x \div w \in Nat /\ y \div w \in Nat
    BY <1>4, <1>5, Division
  <2>3. x \div w = y \div w
    BY <1>1, <2>1, <2>2
  <2>4. QED
    BY <2>3, <1>2, <1>3, <1>6, SplitIndexAtLeast
<1>7. ASSUME x < y
      PROVE  Perfect([lo |-> x, hi |-> y, sb |-> s])
  BY <1>2, <1>6, <1>7 DEF Perfect
<1>8. QED
  BY <1>7 DEF s, x, y

\* Split replaces the top of the stack by what is left over, and outputs the
\* middle: the elements of the two sequences afterwards.
LEMMA RoundFacts ==
  ASSUME TypeOK, \A i \in 1..Len(job) : Aligned(job[i]), Split
  PROVE  LET n == Len(job)
             l == job[n].lo
             h == job[n].hi
             s == SplitIndex(l, h)
             x == PerfectLower(l, s)
             y == PerfectUpper(h, s)
         IN  /\ n \in 1..Len(job) /\ l \in Key /\ h \in Key
             /\ job' \in Seq(KeyRange)
             /\ \A i \in 1..(n - 1) : i \in 1..Len(job') /\ job'[i] = job[i]
             /\ x # l => n \in 1..Len(job') /\ job'[n] = [lo |-> l, hi |-> x - 1]
             /\ y # h => \E i \in 1..Len(job') : job'[i] = [lo |-> y + 1, hi |-> h]
             /\ \A i \in 1..Len(job') :
                  \/ i \in 1..(n - 1)
                  \/ i = n /\ x # l /\ job'[i] = [lo |-> l, hi |-> x - 1]
                  \/ /\ i = (IF x # l THEN n + 1 ELSE n)
                     /\ y # h /\ job'[i] = [lo |-> y + 1, hi |-> h]
             /\ out' \in Seq(OutRange)
             /\ \A i \in 1..Len(out) : i \in 1..Len(out') /\ out'[i] = out[i]
             /\ x < y => /\ Len(out) + 1 \in 1..Len(out')
                         /\ out'[Len(out) + 1] = [lo |-> x, hi |-> y, sb |-> s]
             /\ \A i \in 1..Len(out') :
                  \/ i \in 1..Len(out)
                  \/ x < y /\ i = Len(out) + 1
<1> DEFINE n == Len(job)
           l == job[n].lo
           h == job[n].hi
           s == SplitIndex(l, h)
           x == PerfectLower(l, s)
           y == PerfectUpper(h, s)
           lower == IF x # l THEN [lo |-> l, hi |-> x - 1] ELSE job[n]
           upper == IF y # h THEN [lo |-> y + 1, hi |-> h] ELSE job[n]
           a == IF x # l THEN Leftover(l, Wrap(x - 1)) ELSE <<>>
           b == IF y # h THEN Leftover(Wrap(y + 1), h) ELSE <<>>
           middle == [lo |-> x, hi |-> y, sb |-> s]
<1>1. /\ job' = SubSeq(job, 1, n - 1) \o a \o b
      /\ out' = IF x < y THEN Append(out, middle) ELSE out
  BY DEF Split
<1>2. job \in Seq(KeyRange) /\ job # <<>> /\ out \in Seq(OutRange)
  BY DEF TypeOK, Split
<1>3. n \in Nat /\ n \in 1..Len(job)
  BY <1>2, EmptySeq
<1>4. job[n] \in KeyRange /\ Aligned(job[n])
  BY <1>2, <1>3, ElementOfSeq
<1>5. l \in Key /\ h \in Key /\ job[n] = [lo |-> l, hi |-> h] /\ l < h
  BY <1>4 DEF KeyRange, Aligned
<1>6. s \in 0..(KeyLen - 1) /\ x \in Key /\ y \in Key
  BY <1>5, SplitIndexFacts, Rounding
<1>7. Aligned([lo |-> l, hi |-> h])
  BY <1>4, <1>5
<1>8. x # l => x - 1 \in Key /\ Leftover(l, Wrap(x - 1)) = <<[lo |-> l, hi |-> x - 1]>>
  BY <1>5, <1>7, LowerLeftover
<1>9. y # h => y + 1 \in Key /\ Leftover(Wrap(y + 1), h) = <<[lo |-> y + 1, hi |-> h]>>
  BY <1>5, <1>7, UpperLeftover
<1> HIDE DEF s, x, y, l, h
<1>10. lower \in KeyRange /\ upper \in KeyRange
  BY <1>4, <1>5, <1>8, <1>9 DEF KeyRange
<1>11. a = (IF x # l THEN <<lower>> ELSE <<>>) /\ b = (IF y # h THEN <<upper>> ELSE <<>>)
  BY <1>8, <1>9
<1> HIDE DEF lower, upper, a, b
<1>12. a \in {<<>>, <<lower>>} /\ b \in {<<>>, <<upper>>}
       /\ (a # <<>> <=> x # l) /\ (b # <<>> <=> y # h)
  BY <1>11
<1>t. TopReplaced(KeyRange, job, a, lower, b, upper)
  BY <1>2, <1>10, <1>12, Replaced
<1>13. /\ job' \in Seq(KeyRange)
       /\ Len(job') = n - 1 + Len(a) + Len(b)
       /\ Len(a) = (IF a = <<>> THEN 0 ELSE 1) /\ Len(b) = (IF b = <<>> THEN 0 ELSE 1)
       /\ \A i \in 1..(n - 1) : job'[i] = job[i]
       /\ a # <<>> => job'[n] = lower
       /\ b # <<>> => job'[n + Len(a)] = upper
  BY <1>1, <1>t DEF TopReplaced
<1> HIDE DEF n
<1>14. \A i \in 1..(n - 1) : i \in 1..Len(job') /\ job'[i] = job[i]
  BY <1>3, <1>13
<1>15. x # l => n \in 1..Len(job') /\ job'[n] = [lo |-> l, hi |-> x - 1]
  BY <1>3, <1>12, <1>13 DEF lower
<1>16. y # h => /\ n + Len(a) \in 1..Len(job')
                /\ n + Len(a) = (IF x # l THEN n + 1 ELSE n)
                /\ job'[n + Len(a)] = [lo |-> y + 1, hi |-> h]
  BY <1>3, <1>12, <1>13 DEF upper
<1>17. ASSUME NEW i \in 1..Len(job')
       PROVE  \/ i \in 1..(n - 1)
              \/ i = n /\ x # l /\ job'[i] = [lo |-> l, hi |-> x - 1]
              \/ /\ i = (IF x # l THEN n + 1 ELSE n)
                 /\ y # h /\ job'[i] = [lo |-> y + 1, hi |-> h]
  <2>1. i \in 1..(n - 1) \/ (i = n /\ a # <<>>) \/ (i = n + Len(a) /\ b # <<>>)
    BY <1>3, <1>13
  <2>2. QED
    BY <2>1, <1>12, <1>15, <1>16
<1>18. middle \in OutRange
  BY <1>6 DEF OutRange
<1> HIDE DEF middle
<1>19. Len(out) \in Nat
  BY <1>2, LenProperties
<1>20. /\ out' \in Seq(OutRange)
       /\ \A i \in 1..Len(out) : i \in 1..Len(out') /\ out'[i] = out[i]
       /\ x < y => Len(out) + 1 \in 1..Len(out') /\ out'[Len(out) + 1] = middle
       /\ \A i \in 1..Len(out') : i \in 1..Len(out) \/ (x < y /\ i = Len(out) + 1)
  <2>1. CASE x < y
    <3>1. out' = Append(out, middle)
      BY <1>1, <2>1
    <3>2. /\ Append(out, middle) \in Seq(OutRange)
          /\ Len(Append(out, middle)) = Len(out) + 1
          /\ \A i \in 1..Len(out) : Append(out, middle)[i] = out[i]
          /\ Append(out, middle)[Len(out) + 1] = middle
      BY <1>2, <1>18, AppendProperties
    <3>3. QED
      BY <3>1, <3>2, <2>1, <1>19
  <2>2. CASE ~(x < y)
    BY <1>1, <1>2, <1>19, <2>2
  <2>3. QED
    BY <2>1, <2>2
<1>21. QED
  BY <1>3, <1>5, <1>13, <1>14, <1>15, <1>16, <1>17, <1>20 DEF n, l, h, s, x, y, middle

-----------------------------------------------------------------------------
(* Every step keeps the invariant. *)

\* A round of the loop keeps the invariant.
LEMMA SplitKeepsInvariant ==
  ASSUME IInv, Split
  PROVE  IInv'
<1> DEFINE n == Len(job)
           l == job[n].lo
           h == job[n].hi
           s == SplitIndex(l, h)
           x == PerfectLower(l, s)
           y == PerfectUpper(h, s)
           lower == [lo |-> l, hi |-> x - 1]
           upper == [lo |-> y + 1, hi |-> h]
           middle == [lo |-> x, hi |-> y, sb |-> s]
<1>1. /\ n \in 1..Len(job) /\ l \in Key /\ h \in Key
      /\ job' \in Seq(KeyRange)
      /\ \A i \in 1..(n - 1) : i \in 1..Len(job') /\ job'[i] = job[i]
      /\ x # l => n \in 1..Len(job') /\ job'[n] = lower
      /\ y # h => \E i \in 1..Len(job') : job'[i] = upper
      /\ \A i \in 1..Len(job') :
           \/ i \in 1..(n - 1)
           \/ i = n /\ x # l /\ job'[i] = lower
           \/ i = (IF x # l THEN n + 1 ELSE n) /\ y # h /\ job'[i] = upper
      /\ out' \in Seq(OutRange)
      /\ \A i \in 1..Len(out) : i \in 1..Len(out') /\ out'[i] = out[i]
      /\ x < y => Len(out) + 1 \in 1..Len(out') /\ out'[Len(out) + 1] = middle
      /\ \A i \in 1..Len(out') : i \in 1..Len(out) \/ (x < y /\ i = Len(out) + 1)
  BY RoundFacts DEF IInv
<1>2. /\ phase = "split" /\ phase' = phase /\ low' = low /\ high' = high
      /\ rootExists' = (rootExists /\ x < y)
      /\ out' = IF x < y THEN Append(out, middle) ELSE out
  BY DEF Split
<1>3. /\ job \in Seq(KeyRange) /\ out \in Seq(OutRange) /\ low \in Key /\ high \in Key
      /\ phase \in {"idle", "split"} /\ rootExists \in BOOLEAN
      /\ Called /\ Covered /\ Inside /\ Disjoint /\ (Whole \/ Flagged)
      /\ \A i \in 1..Len(job) : Aligned(job[i])
      /\ \A i \in 1..Len(out) : Perfect(out[i])
  BY <1>2 DEF IInv, TypeOK
<1>4. l < h /\ job[n] = [lo |-> l, hi |-> h] /\ Aligned([lo |-> l, hi |-> h])
      /\ low <= l /\ h <= high
  <2>1. job[n] \in KeyRange /\ Aligned(job[n])
    BY <1>1, <1>3, ElementOfSeq
  <2>2. job[n] = [lo |-> l, hi |-> h]
    BY <2>1 DEF KeyRange
  <2>3. low <= l /\ h <= high
    BY <1>1, <1>3 DEF Inside
  <2>4. QED
    BY <2>1, <2>2, <2>3 DEF Aligned
<1>5. x \in Key /\ y \in Key /\ l <= x /\ x <= h /\ l <= y /\ y <= h
  BY <1>1, <1>4, Rounding
<1>6. (x < y \/ x = y + 1) /\ (x = l \/ y = h => x < y)
  BY <1>1, <1>4, MiddleOrNone
<1>7. x < y => Perfect(middle)
  BY <1>1, <1>4, MiddlePerfect
<1>8. x # l => /\ Aligned(lower) /\ SplitIndex(l, x - 1) > s
               /\ PerfectUpper(x - 1, SplitIndex(l, x - 1)) = x - 1
  BY <1>1, <1>4, LowerLeftover
<1>9. y # h => /\ Aligned(upper) /\ SplitIndex(y + 1, h) > s
               /\ PerfectLower(y + 1, SplitIndex(y + 1, h)) = y + 1
  BY <1>1, <1>4, UpperLeftover
<1>e. (x # l => x - 1 \in Key) /\ (y # h => y + 1 \in Key)
  BY <1>1, <1>4, LowerLeftover, UpperLeftover
<1>10. s \in 0..(KeyLen - 1)
  BY <1>1, <1>4, SplitIndexFacts
<1>11. l \in Nat /\ h \in Nat /\ x \in Nat /\ y \in Nat /\ low \in Nat /\ high \in Nat
  BY <1>1, <1>3, <1>5, KeyFacts
<1>12. Len(out) \in Nat /\ n \in Nat
  BY <1>3, LenProperties
<1>s. s = SplitIndex(l, h) /\ x = PerfectLower(l, s) /\ y = PerfectUpper(h, s)
  OBVIOUS
<1>d. /\ lower = [lo |-> l, hi |-> x - 1] /\ lower.lo = l /\ lower.hi = x - 1
      /\ upper = [lo |-> y + 1, hi |-> h] /\ upper.lo = y + 1 /\ upper.hi = h
      /\ middle.lo = x /\ middle.hi = y /\ middle.sb = s
  OBVIOUS
<1>n. n = Len(job)
  OBVIOUS
<1> HIDE DEF s, x, y, l, h, n, lower, upper, middle
<1>13. TypeOK'
  BY <1>1, <1>2, <1>3 DEF TypeOK
<1>14. ASSUME NEW i \in 1..Len(job')
       PROVE  Aligned(job'[i])
  <2>1. i \in 1..(n - 1) => Aligned(job'[i])
    BY <1>1, <1>3, <1>12, <1>n
  <2>2. QED
    BY <2>1, <1>1, <1>8, <1>9
<1>15. ASSUME NEW i \in 1..Len(out')
       PROVE  Perfect(out'[i])
  BY <1>1, <1>3, <1>7
<1>16. Covered'
  <2>1. ASSUME NEW k \in low..high
        PROVE  \/ \E i \in 1..Len(out') : In(k, out'[i])
               \/ \E i \in 1..Len(job') : In(k, job'[i])
    <3>1. CASE \E i \in 1..Len(out) : In(k, out[i])
      BY <3>1, <1>1
    <3>2. CASE \E i \in 1..(n - 1) : In(k, job[i])
      BY <3>2, <1>1
    <3>3. CASE In(k, job[n])
      <4>1. l <= k /\ k <= h /\ k \in Nat
        BY <3>3, <1>4, <1>11 DEF In
      <4>2. CASE k < x
        <5>1. x # l /\ In(k, lower)
          BY <4>1, <4>2, <1>11, <1>d DEF In
        <5>2. QED
          BY <5>1, <1>1
      <4>3. CASE k > y
        <5>1. y # h /\ In(k, upper)
          BY <4>1, <4>3, <1>11, <1>d DEF In
        <5>2. QED
          BY <5>1, <1>1
      <4>4. CASE x <= k /\ k <= y
        <5>1. x < y /\ In(k, middle)
          BY <4>1, <4>4, <1>6, <1>11, <1>d DEF In
        <5>2. QED
          BY <5>1, <1>1
      <4>5. QED
        BY <4>1, <4>2, <4>3, <4>4, <1>11
    <3>4. \A i \in 1..Len(job) : i \in 1..(n - 1) \/ i = n
      BY <1>12, <1>n
    <3>5. QED
      BY <3>1, <3>2, <3>3, <3>4, <1>3 DEF Covered
  <2>2. QED
    BY <2>1, <1>2 DEF Covered, In
<1>17. Inside'
  <2>1. ASSUME NEW i \in 1..Len(out')
        PROVE  low <= out'[i].lo /\ out'[i].hi <= high
    <3>1. CASE i \in 1..Len(out)
      BY <3>1, <1>1, <1>3 DEF Inside
    <3>2. CASE x < y /\ i = Len(out) + 1
      BY <3>2, <1>1, <1>4, <1>5, <1>11, <1>d
    <3>3. QED
      BY <3>1, <3>2, <1>1
  <2>2. ASSUME NEW i \in 1..Len(job')
        PROVE  low <= job'[i].lo /\ job'[i].hi <= high
    <3>1. CASE i \in 1..(n - 1)
      BY <3>1, <1>1, <1>3, <1>12, <1>n DEF Inside
    <3>2. CASE job'[i] = lower
      BY <3>2, <1>4, <1>5, <1>11, <1>d
    <3>3. CASE job'[i] = upper
      BY <3>3, <1>4, <1>5, <1>11, <1>d
    <3>4. QED
      BY <3>1, <3>2, <3>3, <1>1
  <2>3. QED
    BY <2>1, <2>2, <1>2 DEF Inside
<1>18. Disjoint'
  <2>1. ASSUME NEW p, p.lo \in Int, p.hi \in Int, Apart(p, job[n])
        PROVE  /\ Apart(p, lower) /\ Apart(p, upper) /\ Apart(p, middle)
               /\ Apart(lower, p) /\ Apart(upper, p) /\ Apart(middle, p)
    <3>1. p.hi < l \/ h < p.lo
      BY <2>1, <1>4 DEF Apart
    <3>2. QED
      BY <3>1, <2>1, <1>5, <1>11, <1>d DEF Apart
  <2>2. ASSUME NEW i \in 1..Len(out)
        PROVE  out[i].lo \in Int /\ out[i].hi \in Int /\ Apart(out[i], job[n])
    <3>1. out[i] \in OutRange
      BY <1>3, ElementOfSeq
    <3>2. out[i].lo \in Int /\ out[i].hi \in Int
      BY <3>1, KeyFacts DEF OutRange
    <3>3. QED
      BY <3>2, <1>1, <1>3 DEF Disjoint
  <2>3. ASSUME NEW i \in 1..(n - 1)
        PROVE  job[i].lo \in Int /\ job[i].hi \in Int /\ Apart(job[i], job[n])
    <3>1. i \in 1..Len(job) /\ i # n
      BY <1>12, <1>n
    <3>2. job[i] \in KeyRange
      BY <3>1, <1>3, ElementOfSeq
    <3>3. job[i].lo \in Int /\ job[i].hi \in Int
      BY <3>2, KeyFacts DEF KeyRange
    <3>4. QED
      BY <3>1, <3>3, <1>1, <1>3 DEF Disjoint
  <2>4. Apart(lower, upper) /\ Apart(upper, lower)
    BY <1>6, <1>11, <1>d DEF Apart
  <2>x. x < y => /\ Apart(middle, lower) /\ Apart(middle, upper)
    BY <1>11, <1>d DEF Apart
  <2>5. ASSUME NEW i \in 1..Len(out'), NEW j \in 1..Len(out'), i # j
        PROVE  Apart(out'[i], out'[j])
    <3>1. CASE i \in 1..Len(out) /\ j \in 1..Len(out)
      BY <3>1, <2>5, <1>1, <1>3 DEF Disjoint
    <3>2. CASE i \in 1..Len(out) /\ x < y /\ j = Len(out) + 1
      <4>1. out'[i] = out[i] /\ out'[j] = middle
        BY <3>2, <1>1
      <4>2. QED
        BY <4>1, <3>2, <2>1, <2>2
    <3>3. CASE j \in 1..Len(out) /\ x < y /\ i = Len(out) + 1
      <4>1. out'[j] = out[j] /\ out'[i] = middle
        BY <3>3, <1>1
      <4>2. QED
        BY <4>1, <3>3, <2>1, <2>2
    <3>4. QED
      BY <3>1, <3>2, <3>3, <2>5, <1>1
  <2>6. ASSUME NEW i \in 1..Len(job'), NEW j \in 1..Len(job'), i # j
        PROVE  Apart(job'[i], job'[j])
    <3>1. CASE i \in 1..(n - 1) /\ j \in 1..(n - 1)
      <4>1. i \in 1..Len(job) /\ j \in 1..Len(job) /\ job'[i] = job[i] /\ job'[j] = job[j]
        BY <3>1, <1>1, <1>12, <1>n
      <4>2. QED
        BY <4>1, <2>6, <1>3 DEF Disjoint
    <3>2. CASE i \in 1..(n - 1) /\ (job'[j] = lower \/ job'[j] = upper)
      <4>1. job'[i] = job[i]
        BY <3>2, <1>1
      <4>2. QED
        BY <4>1, <3>2, <2>1, <2>3
    <3>3. CASE j \in 1..(n - 1) /\ (job'[i] = lower \/ job'[i] = upper)
      <4>1. job'[j] = job[j]
        BY <3>3, <1>1
      <4>2. QED
        BY <4>1, <3>3, <2>1, <2>3
    <3>4. CASE \/ job'[i] = lower /\ job'[j] = upper
               \/ job'[i] = upper /\ job'[j] = lower
      BY <3>4, <2>4
    <3>5. \/ i \in 1..(n - 1) /\ j \in 1..(n - 1)
          \/ i \in 1..(n - 1) /\ (job'[j] = lower \/ job'[j] = upper)
          \/ j \in 1..(n - 1) /\ (job'[i] = lower \/ job'[i] = upper)
          \/ job'[i] = lower /\ job'[j] = upper
          \/ job'[i] = upper /\ job'[j] = lower
      BY <2>6, <1>1
    <3>6. QED
      BY <3>1, <3>2, <3>3, <3>4, <3>5
  <2>7. ASSUME NEW i \in 1..Len(out'), NEW j \in 1..Len(job')
        PROVE  Apart(out'[i], job'[j])
    <3>1. CASE i \in 1..Len(out) /\ j \in 1..(n - 1)
      <4>1. j \in 1..Len(job) /\ out'[i] = out[i] /\ job'[j] = job[j]
        BY <3>1, <1>1, <1>12, <1>n
      <4>2. QED
        BY <4>1, <3>1, <1>3 DEF Disjoint
    <3>2. CASE i \in 1..Len(out) /\ (job'[j] = lower \/ job'[j] = upper)
      <4>1. out'[i] = out[i]
        BY <3>2, <1>1
      <4>2. QED
        BY <4>1, <3>2, <2>1, <2>2
    <3>3. CASE j \in 1..(n - 1) /\ x < y /\ out'[i] = middle
      <4>1. job'[j] = job[j]
        BY <3>3, <1>1
      <4>2. QED
        BY <4>1, <3>3, <2>1, <2>3
    <3>4. CASE (job'[j] = lower \/ job'[j] = upper) /\ x < y /\ out'[i] = middle
      BY <3>4, <2>x
    <3>5. i \in 1..Len(out) \/ (x < y /\ out'[i] = middle)
      BY <1>1
    <3>6. j \in 1..(n - 1) \/ job'[j] = lower \/ job'[j] = upper
      BY <1>1
    <3>7. QED
      BY <3>1, <3>2, <3>3, <3>4, <3>5, <3>6
  <2>8. QED
    BY <2>5, <2>6, <2>7 DEF Disjoint, Apart
<1>19. (Whole \/ Flagged)'
  <2> DEFINE s0 == SplitIndex(low, high)
  <2>1. ASSUME NEW i \in 1..Len(job'), s >= s0, \A j \in 1..(n - 1) : Later(job[j], s0)
        PROVE  Later(job'[i], s0)
    <3>1. CASE i \in 1..(n - 1)
      BY <3>1, <2>1, <1>1
    <3>2. CASE x # l /\ job'[i] = lower
      <4>1. SplitIndex(l, x - 1) \in 0..(KeyLen - 1) /\ s0 \in 0..(KeyLen - 1)
        <5>1. x - 1 \in Key /\ l < x - 1
          BY <1>8, <1>e, <1>d, <3>2 DEF Aligned
        <5>2. low < high
          BY <1>3, <1>11 DEF Called
        <5>3. QED
          BY <5>1, <5>2, <1>1, <1>3, SplitIndexFacts
      <4>2. QED
        BY <4>1, <3>2, <2>1, <1>8, <1>10, <1>d, KeyLenAssumption DEF Later
    <3>3. CASE y # h /\ job'[i] = upper
      <4>1. SplitIndex(y + 1, h) \in 0..(KeyLen - 1) /\ s0 \in 0..(KeyLen - 1)
        <5>1. y + 1 \in Key /\ y + 1 < h
          BY <1>9, <1>e, <1>d, <3>3 DEF Aligned
        <5>2. low < high
          BY <1>3, <1>11 DEF Called
        <5>3. QED
          BY <5>1, <5>2, <1>1, <1>3, SplitIndexFacts
      <4>2. QED
        BY <4>1, <3>3, <2>1, <1>9, <1>10, <1>d, KeyLenAssumption DEF Later
    <3>4. QED
      BY <3>1, <3>2, <3>3, <1>1
  <2>2. CASE Whole
    <3>1. l = low /\ h = high /\ n = 1 /\ out = <<>> /\ rootExists = TRUE
      <4>1. job = <<[lo |-> low, hi |-> high]>> /\ out = <<>> /\ rootExists = TRUE
        BY <2>2 DEF Whole
      <4>2. n = 1 /\ job[n] = [lo |-> low, hi |-> high]
        BY <4>1, <1>n
      <4>3. QED
        BY <4>1, <4>2, <1>4
    <3>2. s = s0
      BY <3>1, <1>s
    <3>3. \A i \in 1..Len(job') : Later(job'[i], s0)
      BY <2>1, <3>1, <3>2, <1>10, KeyLenAssumption
    <3>4. x < y => out' = <<middle>>
      BY <3>1, <1>2
    <3>5. ~(x < y) => out' = <<>> /\ job' # <<>>
      BY <3>1, <1>1, <1>2, <1>6
    <3>6. rootExists' <=> out' # <<>> /\ out'[1].sb = s0
      <4>1. rootExists' <=> x < y
        BY <3>1, <1>2
      <4>2. x < y => out' # <<>> /\ out'[1].sb = s0
        BY <3>2, <3>4, <1>d
      <4>3. QED
        BY <4>1, <4>2, <3>5
    <3>x. Flagged'
      BY <3>3, <3>4, <3>5, <3>6, <1>2 DEF Flagged
    <3>7. QED
      BY <3>x
  <2>3. CASE Flagged
    <3>1. Later(job[n], s0)
      BY <2>3, <1>1 DEF Flagged
    <3>2. s > s0 /\ (x = l \/ y = h)
      BY <3>1, <1>4, <1>s DEF Later
    <3>3. x < y /\ s # s0 /\ s >= s0
      BY <3>2, <1>6, <1>10, <1>11, SplitIndexFacts, <1>3 DEF Called
    <3>4. \A i \in 1..Len(job') : Later(job'[i], s0)
      BY <2>1, <2>3, <3>3, <1>1, <1>12 DEF Flagged
    <3>5. out' # <<>> /\ out' = Append(out, middle)
      BY <3>3, <1>2, <1>3
    <3>6. out'[1].sb = s0 <=> out # <<>> /\ out[1].sb = s0
      <4>1. CASE out = <<>>
        BY <4>1, <3>3, <3>5, <1>d
      <4>2. CASE out # <<>>
        <5>1. 1 \in 1..Len(out)
          BY <4>2, <1>3, EmptySeq
        <5>2. QED
          BY <5>1, <4>2, <1>1
      <4>3. QED
        BY <4>1, <4>2
    <3>7. rootExists' = rootExists
      BY <3>3, <1>2, <1>3
    <3>8. Flagged'
      BY <2>3, <3>4, <3>5, <3>6, <3>7, <1>2 DEF Flagged
    <3>9. QED
      BY <3>8
  <2>4. QED
    BY <2>2, <2>3, <1>3
<1>20. QED
  BY <1>2, <1>3, <1>13, <1>14, <1>15, <1>16, <1>17, <1>18, <1>19 DEF IInv, Called

\* So does the call.
LEMMA BeginKeepsInvariant ==
  ASSUME IInv, NEW l \in Key, NEW h \in Key, Begin(l, h)
  PROVE  IInv'
<1> DEFINE r == [lo |-> l, hi |-> h]
<1>1. /\ phase' = "split" /\ low' = l /\ high' = h /\ l < h
      /\ job' = <<r>> /\ out' = <<>> /\ rootExists' = TRUE
      /\ l % Base = 0 /\ (h + 1) % Base = 0
  BY DEF Begin
<1>2. Base \in Nat \ {0} /\ l \in Nat /\ h \in Nat
  BY BaseAssumption, KeyFacts
<1>3. r \in KeyRange /\ r.lo = l /\ r.hi = h
  BY DEF KeyRange
<1>4. Aligned(r)
  <2>1. l = (l \div Base) * Base + (l % Base) /\ l \div Base \in Nat
    BY <1>2, Division
  <2>2. h + 1 = ((h + 1) \div Base) * Base + ((h + 1) % Base) /\ (h + 1) \div Base \in Nat
    <3>1. h + 1 \in Nat
      BY <1>2
    <3>2. QED
      BY <3>1, <1>2, Division
  <2>3. (l \div Base) * Base \in Nat /\ ((h + 1) \div Base) * Base \in Nat
    BY <1>2, <2>1, <2>2
  <2>4. l = (l \div Base) * Base /\ h + 1 = ((h + 1) \div Base) * Base
    BY <1>1, <2>1, <2>2, <2>3
  <2>5. QED
    BY <1>1, <1>3, <2>1, <2>2, <2>4 DEF Aligned
<1> HIDE DEF r
<1>5. job' \in Seq(KeyRange) /\ Len(job') = 1 /\ job'[1] = r /\ out' \in Seq(OutRange) /\ Len(out') = 0
  BY <1>1, <1>3
<1>6. TypeOK'
  BY <1>1, <1>5 DEF TypeOK
<1>7. (\A i \in 1..Len(job') : Aligned(job'[i])) /\ (\A i \in 1..Len(out') : Perfect(out'[i]))
  BY <1>4, <1>5
<1>8. Covered'
  <2>1. \A k \in l..h : In(k, job'[1])
    BY <1>2, <1>3, <1>5 DEF In
  <2>2. QED
    BY <2>1, <1>1, <1>5 DEF Covered, In
<1>9. Inside'
  BY <1>1, <1>2, <1>3, <1>5 DEF Inside
<1>10. Disjoint'
  BY <1>5 DEF Disjoint, Apart
<1>11. Whole'
  BY <1>1 DEF Whole, r
<1>12. Called'
  BY <1>1, <1>2 DEF Called
<1>13. QED
  BY <1>1, <1>6, <1>7, <1>8, <1>9, <1>10, <1>11, <1>12 DEF IInv

\* So does the return.
LEMMA EndKeepsInvariant ==
  ASSUME IInv, End
  PROVE  IInv'
<1>1. /\ phase = "split" /\ phase' = "idle" /\ job = <<>>
      /\ low' = low /\ high' = high /\ job' = job /\ out' = out /\ rootExists' = rootExists
  BY DEF End
<1>2. TypeOK'
  BY <1>1 DEF IInv, TypeOK
<1>3. Called' = Called /\ Covered' = Covered /\ Inside' = Inside /\ Disjoint' = Disjoint
      /\ Flagged' = Flagged
  BY <1>1 DEF Called, Covered, In, Inside, Disjoint, Apart, Flagged
<1>4. ~Whole
  BY <1>1 DEF Whole
<1>5. QED
  BY <1>1, <1>2, <1>3, <1>4 DEF IInv

\* The invariant holds when nothing has been called.
LEMMA InitInvariant ==
  ASSUME Init
  PROVE  IInv
<1>1. KeyCount \in Nat \ {0}
  BY KeyFacts
<1>2. 0 \in Key
  BY <1>1 DEF Key, KeyCount
<1>3. TypeOK /\ Len(job) = 0 /\ Len(out) = 0
  BY <1>2 DEF Init, TypeOK
<1>4. QED
  BY <1>3 DEF Init, IInv, Called

-----------------------------------------------------------------------------
(* The theorems. *)

\* The inductive invariant holds in every state: a round of handle_range keeps
\* its stack and its output a partition of the range into aligned ranges.
THEOREM InvariantHolds == Spec => []IInv
<1>1. Init => IInv
  BY InitInvariant
<1>2. IInv /\ [Next]_vars => IInv'
  <2>1. SUFFICES ASSUME IInv, [Next]_vars
                 PROVE  IInv'
    OBVIOUS
  <2>2. CASE UNCHANGED vars
    <3>1. /\ phase' = phase /\ low' = low /\ high' = high /\ job' = job /\ out' = out
          /\ rootExists' = rootExists
      BY <2>2 DEF vars
    <3>2. QED
      BY <2>1, <3>1 DEF IInv, TypeOK, Called, Covered, In, Inside, Disjoint, Apart, Whole, Flagged
  <2>3. ASSUME NEW l \in Key, NEW h \in Key, Begin(l, h)
        PROVE  IInv'
    BY <2>1, <2>3, BeginKeepsInvariant
  <2>4. CASE Split
    BY <2>1, <2>4, SplitKeepsInvariant
  <2>5. CASE End
    BY <2>1, <2>5, EndKeepsInvariant
  <2>6. QED
    BY <2>1, <2>2, <2>3, <2>4, <2>5 DEF Next
<1>3. QED
  BY <1>1, <1>2, PTL DEF Spec

\* Every variable has its type: a range that is output splits within the key, and
\* no bound ever leaves the keys although the arithmetic wraps.
THEOREM TypeCorrect == Spec => []TypeOK
<1>1. IInv => TypeOK
  BY DEF IInv
<1>2. QED
  BY <1>1, InvariantHolds, PTL

\* Each key of the range that InsertRange was called with is in exactly one of
\* the ranges that are done or still to do, and no other key is in any.
THEOREM PartitionHolds == Spec => []Partition
<1>1. IInv => Partition
  <2>1. SUFFICES ASSUME IInv, Called, NEW k \in Key
                 PROVE  LET Done == {i \in 1..Len(out) : out[i].lo <= k /\ k <= out[i].hi}
                            ToDo == {i \in 1..Len(job) : job[i].lo <= k /\ k <= job[i].hi}
                        IN  IF low <= k /\ k <= high
                            THEN \/ ToDo = {} /\ \E i \in Done : Done = {i}
                                 \/ Done = {} /\ \E i \in ToDo : ToDo = {i}
                            ELSE Done = {} /\ ToDo = {}
    BY DEF Partition
  <2> DEFINE Done == {i \in 1..Len(out) : out[i].lo <= k /\ k <= out[i].hi}
             ToDo == {i \in 1..Len(job) : job[i].lo <= k /\ k <= job[i].hi}
  <2>2. job \in Seq(KeyRange) /\ out \in Seq(OutRange) /\ low \in Key /\ high \in Key
        /\ Covered /\ Inside /\ Disjoint
    BY <2>1 DEF IInv, TypeOK
  <2>3. \A i \in 1..Len(out) : out[i].lo \in Nat /\ out[i].hi \in Nat
    <3>1. \A i \in 1..Len(out) : out[i] \in OutRange
      BY <2>2, ElementOfSeq
    <3>2. \A r \in OutRange : r.lo \in Nat /\ r.hi \in Nat
      BY KeyFacts DEF OutRange
    <3>3. QED
      BY <3>1, <3>2
  <2>4. \A i \in 1..Len(job) : job[i].lo \in Nat /\ job[i].hi \in Nat
    <3>1. \A i \in 1..Len(job) : job[i] \in KeyRange
      BY <2>2, ElementOfSeq
    <3>2. \A r \in KeyRange : r.lo \in Nat /\ r.hi \in Nat
      BY KeyFacts DEF KeyRange
    <3>3. QED
      BY <3>1, <3>2
  <2>5. k \in Nat /\ low \in Nat /\ high \in Nat
    BY <2>2, KeyFacts
  <2>x. ASSUME NEW r, NEW q, r.lo \in Nat, r.hi \in Nat, q.lo \in Nat, q.hi \in Nat,
               r.lo <= k, k <= r.hi, q.lo <= k, k <= q.hi
        PROVE  ~Apart(r, q)
    BY <2>5, <2>x DEF Apart
  <2>6. ASSUME NEW i \in Done, NEW j \in Done, i # j
        PROVE  FALSE
    <3>1. i \in 1..Len(out) /\ j \in 1..Len(out) /\ ~Apart(out[i], out[j])
      BY <2>3, <2>x
    <3>2. QED
      BY <3>1, <2>2, <2>6 DEF Disjoint
  <2>7. ASSUME NEW i \in ToDo, NEW j \in ToDo, i # j
        PROVE  FALSE
    <3>1. i \in 1..Len(job) /\ j \in 1..Len(job) /\ ~Apart(job[i], job[j])
      BY <2>4, <2>x
    <3>2. QED
      BY <3>1, <2>2, <2>7 DEF Disjoint
  <2>8. ASSUME NEW i \in Done, NEW j \in ToDo
        PROVE  FALSE
    <3>1. i \in 1..Len(out) /\ j \in 1..Len(job) /\ ~Apart(out[i], job[j])
      BY <2>3, <2>4, <2>x
    <3>2. QED
      BY <3>1, <2>2 DEF Disjoint
  <2>9. ASSUME low <= k, k <= high
        PROVE  Done # {} \/ ToDo # {}
    <3>1. k \in low..high
      BY <2>5, <2>9
    <3>2. CASE \E i \in 1..Len(out) : In(k, out[i])
      BY <3>2 DEF In
    <3>3. CASE \E i \in 1..Len(job) : In(k, job[i])
      BY <3>3 DEF In
    <3>4. QED
      BY <3>1, <3>2, <3>3, <2>2 DEF Covered
  <2>10. Done # {} \/ ToDo # {} => low <= k /\ k <= high
    BY <2>2, <2>3, <2>4, <2>5 DEF Inside
  <2> HIDE DEF Done, ToDo
  <2>11. Done # {} => \E i \in Done : Done = {i}
    BY <2>6
  <2>12. ToDo # {} => \E i \in ToDo : ToDo = {i}
    BY <2>7
  <2>13. IF low <= k /\ k <= high
         THEN \/ ToDo = {} /\ \E i \in Done : Done = {i}
              \/ Done = {} /\ \E i \in ToDo : ToDo = {i}
         ELSE Done = {} /\ ToDo = {}
    BY <2>8, <2>9, <2>10, <2>11, <2>12
  <2>14. QED
    BY <2>13 DEF Done, ToDo
<1>2. QED
  BY <1>1, InvariantHolds, PTL

\* After the byte in which its bounds split, a perfect range goes from all zero to
\* all ones: the bits that InsertPerfectRange sets stand for exactly its keys.
THEOREM PerfectRangesHold == Spec => []PerfectRanges
<1>1. ASSUME NEW r \in OutRange, Perfect(r),
             NEW b \in (SplitIndex(r.lo, r.hi) + 2)..KeyLen
      PROVE  Byte(r.lo, b) = 0 /\ Byte(r.hi, b) = Base - 1
  <2> DEFINE l == r.lo
             h == r.hi
             s == r.sb
             w == Weight[KeyLen - b]
             v == Weight[b - s - 2]
  <2>1. l \in Key /\ h \in Key /\ s \in 0..(KeyLen - 1) /\ l < h /\ SplitIndex(l, h) >= s
    BY <1>1 DEF OutRange, Perfect
  <2>2. SplitIndex(l, h) \in 0..(KeyLen - 1)
    BY <2>1, SplitIndexFacts
  <2>3. PICK i \in Nat, j \in Nat : l = i * Unit(s) /\ h + 1 = j * Unit(s)
    BY <1>1 DEF Perfect
  <2>4. /\ b \in Nat /\ b >= s + 2 /\ b <= KeyLen
        /\ KeyLen - b \in 0..KeyLen /\ KeyLen - s - 1 \in 0..KeyLen
        /\ KeyLen - b <= KeyLen - s - 1
        /\ (KeyLen - s - 1) - (KeyLen - b) = (b - s - 2) + 1
        /\ b - s - 2 \in 0..(KeyLen - 1) /\ b - s - 2 \in 0..KeyLen
    BY <2>1, <2>2, KeyLenAssumption
  <2>5. Weight[KeyLen - s - 1] = Weight[(KeyLen - s - 1) - (KeyLen - b)] * Weight[KeyLen - b]
    BY <2>4, WeightDivides
  <2>6. Weight[(b - s - 2) + 1] = Base * v
    BY <2>4, WeightFacts
  <2>7. Unit(s) = (Base * v) * w
    BY <2>4, <2>5, <2>6 DEF Unit
  <2>8. v \in Nat \ {0} /\ w \in Nat \ {0} /\ Base \in Nat /\ Base >= 2
    BY <2>4, WeightFacts, BaseAssumption
  <2>9. l \in Nat /\ h \in Nat
    BY <2>1, KeyFacts
  <2>b. Byte(l, b) = (l \div w) % Base /\ Byte(h, b) = (h \div w) % Base
    BY DEF Byte
  <2> HIDE DEF l, h, s, w, v
  <2> DEFINE p == i * v
             q == j * v
  <2>10. p \in Nat /\ q \in Nat /\ l = (p * Base) * w /\ h + 1 = (q * Base) * w
    BY <2>3, <2>7, <2>8
  <2> HIDE DEF p, q
  <2>11. l \div w = p * Base
    <3>1. ((p * Base) * w + 0) \div w = p * Base
      BY <2>8, <2>10, DivisionUnique
    <3>2. QED
      BY <3>1, <2>9, <2>10
  <2>12. (p * Base) % Base = 0
    <3>1. (p * Base + 0) % Base = 0
      BY <2>8, <2>10, DivisionUnique
    <3>2. QED
      BY <3>1, <2>8, <2>10
  <2>13. q # 0 /\ q - 1 \in Nat
    BY <2>8, <2>9, <2>10
  <2>14. h \div w = q * Base - 1
    <3>1. q * Base - 1 \in Nat
      BY <2>8, <2>10, <2>13
    <3>2. ((q * Base - 1) * w + (w - 1)) \div w = q * Base - 1
      <4>1. w - 1 \in Nat /\ w - 1 < w
        BY <2>8
      <4>2. QED
        BY <4>1, <3>1, <2>8, DivisionUnique
    <3>3. (q * Base - 1) * w + (w - 1) = h
      <4>1. (q * Base - 1) * w = (q * Base) * w - w
        BY <3>1, <2>8, <2>10
      <4>2. QED
        BY <4>1, <2>8, <2>9, <2>10
    <3>4. QED
      BY <3>2, <3>3
  <2>15. (q * Base - 1) % Base = Base - 1
    <3>1. ((q - 1) * Base + (Base - 1)) % Base = Base - 1
      <4>1. Base - 1 \in Nat /\ Base - 1 < Base /\ Base \in Nat \ {0}
        BY <2>8
      <4>2. QED
        BY <4>1, <2>13, DivisionUnique
    <3>2. (q - 1) * Base + (Base - 1) = q * Base - 1
      BY <2>8, <2>10, <2>13
    <3>3. QED
      BY <3>1, <3>2
  <2>16. Byte(l, b) = 0 /\ Byte(h, b) = Base - 1
    BY <2>b, <2>11, <2>12, <2>14, <2>15
  <2>17. QED
    BY <2>16 DEF l, h
<1>2. IInv => PerfectRanges
  <2>1. SUFFICES ASSUME IInv, NEW i \in 1..Len(out),
                        NEW b \in (SplitIndex(out[i].lo, out[i].hi) + 2)..KeyLen
                 PROVE  Byte(out[i].lo, b) = 0 /\ Byte(out[i].hi, b) = Base - 1
    BY DEF PerfectRanges
  <2>2. out[i] \in OutRange /\ Perfect(out[i])
    BY <2>1, ElementOfSeq DEF IInv, TypeOK
  <2>3. QED
    BY <1>1, <2>2
<1>3. QED
  BY <1>2, InvariantHolds, PTL

\* The flag that handle_range returns says whether the first range of the list is
\* the one in the middle of the whole range, as InsertRange takes it.
THEOREM RootFlagHolds == Spec => []RootFlag
<1>1. IInv => RootFlag
  BY DEF IInv, RootFlag, Flagged, Whole
<1>2. QED
  BY <1>1, InvariantHolds, PTL
=============================================================================
