----------------------------- MODULE TrieProofs -----------------------------
(* Lemmas about Trie, for keys of any number of digits in any base: prefixes *)
(* and their order, the tree that a set of keys determines, and that the     *)
(* operations of MlpSet keep this tree and find in it what they look for.    *)
EXTENDS Trie, DigitsProofs

-----------------------------------------------------------------------------
(* Prefixes. *)

\* The lengths of keys, of their flat part, and of index prefixes.
LEMMA LengthFacts ==
  /\ KeyLen \in Nat /\ TopLen \in Nat \ {0} /\ TopLen + 2 <= KeyLen
  /\ \A l \in Level : l \in Nat /\ l \in 1..KeyLen /\ l > TopLen /\ l - 1 \in 0..KeyLen
BY KeyLenAssumption, LenAssumption DEF Level

\* Min finds the least of some numbers.
LEMMA MinFacts ==
  ASSUME NEW S, S \subseteq Nat, S # {}
  PROVE  Min(S) \in S /\ \A y \in S : Min(S) <= y
<1>1. \E x \in S : \A y \in S : x <= y
  BY LeastElement
<1>2. QED
  BY <1>1 DEF Min

\* Max finds the greatest of some numbers that have a bound.
LEMMA MaxFacts ==
  ASSUME NEW S, S \subseteq Nat, S # {}, NEW b \in Nat, \A n \in S : n <= b
  PROVE  Max(S) \in S /\ \A y \in S : y <= Max(S)
<1>1. S \subseteq Int /\ b \in Int
  OBVIOUS
<1>2. \E x \in S : \A y \in S : y <= x
  BY <1>1, GreatestElement
<1>3. \E x \in S : \A y \in S : x >= y
  BY <1>1, <1>2
<1>4. QED
  BY <1>1, <1>3 DEF Max

\* The value of the first n digits.
Value(k, n) == k \div Weight[KeyLen - n]

\* The value of n digits, and that of one digit more.
LEMMA ValueFacts ==
  ASSUME NEW k \in Key, NEW n \in 0..KeyLen
  PROVE  /\ Value(k, n) \in 0..(Weight[n] - 1)
         /\ Value(k, n) \in Nat
         /\ n = 0 => Value(k, n) = 0
         /\ n = KeyLen => Value(k, n) = k
         /\ n < KeyLen => /\ DigitAfter(k, n) \in Digit
                          /\ Value(k, n + 1) = Value(k, n) * Base + DigitAfter(k, n)
                          /\ Value(k, n + 1) \div Base = Value(k, n)
<1>1. /\ KeyLen \in Nat /\ KeyLen - n \in 0..KeyLen /\ n \in Nat /\ n <= KeyLen
      /\ 0 \in 0..KeyLen /\ KeyLen \in 0..KeyLen
  BY KeyLenAssumption
<1>2. /\ Weight[KeyLen] \in Nat \ {0} /\ Weight[KeyLen - n] \in Nat \ {0}
      /\ Weight[n] \in Nat \ {0} /\ Weight[0] = 1
  BY <1>1, WeightFacts
<1>3. k \in Nat /\ k < Weight[KeyLen]
  BY <1>2 DEF Key
<1>4. Value(k, n) \in Nat
  BY <1>2, <1>3, Division DEF Value
<1>5. Value(k, n) < Weight[n]
  <2>1. KeyLen - (KeyLen - n) = n /\ KeyLen - n <= KeyLen
    BY <1>1
  <2>2. Weight[KeyLen] = Weight[n] * Weight[KeyLen - n]
    BY <1>1, <2>1, WeightDivides
  <2> DEFINE w == Weight[KeyLen - n]
             u == Weight[n]
             v == k \div w
  <2>3. w \in Nat \ {0} /\ u \in Nat /\ k < u * w
    BY <1>2, <1>3, <2>2
  <2> HIDE DEF u, w
  <2>4. v \in Nat /\ k % w \in 0..(w - 1) /\ k = v * w + (k % w)
    BY <1>3, <2>3, Division
  <2> HIDE DEF v
  <2>5. u <= v => u * w <= v * w
    BY <2>3, <2>4, ProductMonotonic
  <2>6. v < u
    BY <2>3, <2>4, <2>5
  <2>7. QED
    BY <2>6 DEF v, u, w, Value
<1>6. n = 0 => Value(k, n) = 0
  BY <1>2, <1>4, <1>5
<1>7. n = KeyLen => Value(k, n) = k
  <2>1. k \div 1 = k
    BY <1>3
  <2>2. n = KeyLen => KeyLen - n = 0
    BY <1>1
  <2>3. QED
    BY <1>2, <2>1, <2>2 DEF Value
<1>8. ASSUME n < KeyLen
      PROVE  /\ DigitAfter(k, n) \in Digit
             /\ Value(k, n + 1) = Value(k, n) * Base + DigitAfter(k, n)
             /\ Value(k, n + 1) \div Base = Value(k, n)
  <2> DEFINE i == KeyLen - n - 1
  <2>1. i \in 0..(KeyLen - 1) /\ i \in 0..KeyLen /\ i + 1 = KeyLen - n /\ i = KeyLen - (n + 1)
    BY <1>1, <1>8
  <2>2. k \div Weight[i + 1] = (k \div Weight[i]) \div Base
    BY <1>3, <2>1, QuotientStep
  <2>3. Weight[i] \in Nat \ {0}
    BY <2>1, WeightFacts
  <2>4. Value(k, n + 1) = k \div Weight[i] /\ Value(k, n) = k \div Weight[i + 1]
        /\ DigitAfter(k, n) = (k \div Weight[i]) % Base
    BY <2>1 DEF Value, DigitAfter
  <2>5. k \div Weight[i] \in Nat
    BY <1>3, <2>3, Division
  <2> HIDE DEF i
  <2>6. Value(k, n + 1) \in Nat /\ Value(k, n) = Value(k, n + 1) \div Base
        /\ DigitAfter(k, n) = Value(k, n + 1) % Base /\ Base \in Nat \ {0}
    BY <2>2, <2>4, <2>5, BaseAssumption
  <2>7. QED
    BY <2>6, Division DEF Digit
<1>9. QED
  BY <1>2, <1>4, <1>5, <1>6, <1>7, <1>8

\* Two keys that agree in their first n digits.
Same(a, b, n) == Value(a, n) = Value(b, n)

\* Prefixes are equal just when they are of one length and one value.
LEMMA PrefixFacts ==
  ASSUME NEW a \in Key, NEW n \in 0..KeyLen
  PROVE  /\ Prefix(a, n) = <<n, Value(a, n)>>
         /\ Prefix(a, n)[1] = n /\ Prefix(a, n)[2] = Value(a, n)
         /\ \A b \in Key : Prefix(a, n) = Prefix(b, n) <=> Same(a, b, n)
         /\ \A b \in Key, m \in 0..KeyLen : Prefix(a, n) = Prefix(b, m) => n = m
BY DEF Prefix, Value, Same

\* The first n + 1 digits are the first n and one more.
LEMMA SameNext ==
  ASSUME NEW a \in Key, NEW b \in Key, NEW n \in 0..KeyLen, n < KeyLen
  PROVE  Same(a, b, n + 1) <=> Same(a, b, n) /\ DigitAfter(a, n) = DigitAfter(b, n)
<1>1. /\ Value(a, n + 1) = Value(a, n) * Base + DigitAfter(a, n)
      /\ Value(a, n + 1) \div Base = Value(a, n)
      /\ Value(b, n + 1) = Value(b, n) * Base + DigitAfter(b, n)
      /\ Value(b, n + 1) \div Base = Value(b, n)
      /\ DigitAfter(a, n) \in Digit /\ DigitAfter(b, n) \in Digit
      /\ Value(a, n) \in Nat /\ Value(b, n) \in Nat
  BY ValueFacts
<1>2. Base \in Nat /\ DigitAfter(a, n) \in Int /\ DigitAfter(b, n) \in Int
      /\ Value(a, n) * Base \in Int
  BY <1>1, BaseAssumption DEF Digit
<1>3. Same(a, b, n + 1) => Same(a, b, n)
  BY <1>1 DEF Same
<1>4. Same(a, b, n) => (Same(a, b, n + 1) <=> DigitAfter(a, n) = DigitAfter(b, n))
  BY <1>1, <1>2 DEF Same
<1>5. QED
  BY <1>3, <1>4

\* Keys that agree in some digits agree in fewer.
LEMMA SameShorter ==
  ASSUME NEW a \in Key, NEW b \in Key, NEW n \in 0..KeyLen, NEW m \in 0..KeyLen,
         m <= n, Same(a, b, n)
  PROVE  Same(a, b, m)
<1> DEFINE S == {i \in Nat : i <= n => Same(a, b, n - i)}
<1>1. 0 \in S
  OBVIOUS
<1>2. ASSUME NEW i \in Nat, i \in S
      PROVE  i + 1 \in S
  <2>1. SUFFICES ASSUME i + 1 <= n
                 PROVE  Same(a, b, n - (i + 1))
    OBVIOUS
  <2>2. /\ n - (i + 1) \in 0..KeyLen /\ n - (i + 1) < KeyLen
        /\ (n - (i + 1)) + 1 = n - i /\ Same(a, b, n - i)
    BY <1>2, <2>1, KeyLenAssumption
  <2>3. QED
    BY <2>2, SameNext
<1> HIDE DEF S
<1>3. Nat \subseteq S
  BY <1>1, <1>2, Induction
<1>4. n - m \in Nat /\ n - m <= n /\ n - (n - m) = m
  BY KeyLenAssumption
<1>5. Same(a, b, n - (n - m))
  BY <1>3, <1>4 DEF S
<1>6. QED
  BY <1>4, <1>5

\* All keys agree in no digits; only a key itself agrees with it in all.
LEMMA SameFacts ==
  ASSUME NEW a \in Key, NEW b \in Key
  PROVE  /\ Same(a, b, 0)
         /\ Same(a, b, KeyLen) <=> a = b
         /\ a \in Nat
BY ValueFacts, KeyLenAssumption DEF Same, Key

\* The order of two keys is that of the first digits in which they differ, or of
\* any values that differ.
LEMMA ValueOrder ==
  ASSUME NEW a \in Key, NEW b \in Key, NEW n \in 0..KeyLen
  PROVE  /\ Value(a, n) < Value(b, n) => a < b
         /\ a <= b => Value(a, n) <= Value(b, n)
<1>1. KeyLen - n \in 0..KeyLen
  BY KeyLenAssumption
<1>2. Weight[KeyLen - n] \in Nat \ {0}
  BY <1>1, WeightFacts
<1>3. a \in Nat /\ b \in Nat /\ Value(a, n) \in Nat /\ Value(b, n) \in Nat
  BY SameFacts, ValueFacts
<1>4. a <= b => Value(a, n) <= Value(b, n)
  BY <1>2, <1>3, DivisionMonotonic DEF Value
<1>5. b <= a => Value(b, n) <= Value(a, n)
  BY <1>2, <1>3, DivisionMonotonic DEF Value
<1>6. QED
  BY <1>3, <1>4, <1>5

\* The first digit in which two keys differ orders them.
LEMMA DigitOrder ==
  ASSUME NEW a \in Key, NEW b \in Key, NEW n \in 0..KeyLen, n < KeyLen,
         Same(a, b, n), DigitAfter(a, n) < DigitAfter(b, n)
  PROVE  a < b /\ Value(a, n + 1) < Value(b, n + 1)
<1>1. n + 1 \in 0..KeyLen
  BY KeyLenAssumption
<1>2. /\ Value(a, n + 1) = Value(a, n) * Base + DigitAfter(a, n)
      /\ Value(b, n + 1) = Value(a, n) * Base + DigitAfter(b, n)
      /\ DigitAfter(a, n) \in Int /\ DigitAfter(b, n) \in Int
      /\ Value(a, n) * Base \in Int
  BY ValueFacts, BaseAssumption DEF Same, Digit
<1>3. Value(a, n + 1) < Value(b, n + 1)
  BY <1>2
<1>4. QED
  BY <1>1, <1>3, ValueOrder

\* Keys with a prefix lie together.
LEMMA Together ==
  ASSUME NEW a \in Key, NEW b \in Key, NEW x \in Key, NEW n \in 0..KeyLen,
         Same(a, b, n), ~Same(a, x, n)
  PROVE  (a < x => b < x) /\ (x < a => x < b)
<1>1. /\ Value(a, n) \in Nat /\ Value(x, n) \in Nat /\ a \in Nat /\ x \in Nat
      /\ Value(a, n) # Value(x, n) /\ Value(b, n) = Value(a, n)
  BY ValueFacts, SameFacts DEF Same
<1>2. a < x => Value(a, n) < Value(x, n)
  BY <1>1, ValueOrder
<1>3. x < a => Value(x, n) < Value(a, n)
  BY <1>1, ValueOrder
<1>4. QED
  BY <1>1, <1>2, <1>3, ValueOrder

\* LCP is the number of digits in which two keys agree.
LEMMA LCPFacts ==
  ASSUME NEW a \in Key, NEW b \in Key
  PROVE  /\ LCP(a, b) \in 0..KeyLen
         /\ \A n \in 0..KeyLen : Same(a, b, n) <=> n <= LCP(a, b)
<1> DEFINE S == {n \in 0..KeyLen : Prefix(a, n) = Prefix(b, n)}
<1>1. \A n \in 0..KeyLen : n \in S <=> Same(a, b, n)
  BY PrefixFacts
<1>2. S \subseteq Nat /\ S \subseteq 0..KeyLen /\ KeyLen \in Nat /\ \A n \in S : n <= KeyLen
  BY KeyLenAssumption
<1>3. 0 \in S
  <2>1. 0 \in 0..KeyLen
    BY KeyLenAssumption
  <2>2. QED
    BY <2>1, <1>1, SameFacts
<1>4. LCP(a, b) = Max(S)
  BY DEF LCP
<1> HIDE DEF S
<1>5. Max(S) \in S /\ \A n \in S : n <= Max(S)
  BY <1>2, <1>3, MaxFacts
<1>6. ASSUME NEW n \in 0..KeyLen, n <= Max(S)
      PROVE  Same(a, b, n)
  <2>1. Max(S) \in 0..KeyLen /\ Same(a, b, Max(S))
    BY <1>1, <1>2, <1>5
  <2>2. QED
    BY <2>1, <1>6, SameShorter
<1>7. QED
  BY <1>1, <1>2, <1>4, <1>5, <1>6

-----------------------------------------------------------------------------
(* The tree of a set of keys.  A node is named by one of its keys and its     *)
(* level: there is one at the first level below the flat bitmaps, and         *)
(* wherever a key parts from others just above.                               *)

Branches(S, k, l) ==
  \/ l = TopLen + 1
  \/ \E u \in S : Same(u, k, l - 1) /\ ~Same(u, k, l)

Nodes(S) == {Prefix(v[1], v[2]) : v \in {w \in S \X Level : Branches(S, w[1], w[2])}}

\* Its string is what all its keys have in common, and it has a child for each
\* of their next digits.
Node(S, k, l, n) ==
  /\ n = [dlen |-> n.dlen, mkey |-> n.mkey, kids |-> n.kids]
  /\ n.dlen \in l..KeyLen
  /\ n.mkey \in S /\ Same(n.mkey, k, l)
  /\ \A u \in S : Same(u, k, l) => n.mkey <= u /\ Same(u, n.mkey, n.dlen)
  /\ n.dlen < KeyLen => \E u \in S : Same(u, k, l) /\ ~Same(u, n.mkey, n.dlen + 1)
  /\ \A d : d \in n.kids <=>
            n.dlen < KeyLen /\ \E u \in S : Same(u, k, l) /\ d = DigitAfter(u, n.dlen)

Tree(f, S) ==
  /\ f = [p \in Nodes(S) |-> f[p]]
  /\ \A s \in S, l \in Level : Branches(S, s, l) => Node(S, s, l, f[Prefix(s, l)])

\* Two keys that agree are agreed with by the same keys.
LEMMA SameTransitive ==
  ASSUME NEW a, NEW b, NEW l, Same(a, b, l)
  PROVE  \A u : /\ Same(u, a, l) <=> Same(u, b, l)
                /\ Same(a, u, l) <=> Same(u, b, l)
BY DEF Same

\* The node of any key's prefix, if there is one.
LEMMA TreeAt ==
  ASSUME NEW f, NEW S, Tree(f, S), S \subseteq Key, NEW k \in Key, NEW l \in Level
  PROVE  /\ Prefix(k, l) \in DOMAIN f <=> (\E s \in S : Same(s, k, l)) /\ Branches(S, k, l)
         /\ Prefix(k, l) \in DOMAIN f => Node(S, k, l, f[Prefix(k, l)])
<1>1. DOMAIN f = Nodes(S)
  BY DEF Tree
<1>2. /\ \A i \in Level : i \in 0..KeyLen
      /\ l \in 0..KeyLen /\ l - 1 \in 0..KeyLen /\ l - 1 <= l
  BY LengthFacts
<1>3. ASSUME NEW s \in S, Same(s, k, l)
      PROVE  /\ Branches(S, s, l) <=> Branches(S, k, l)
             /\ \A n : Node(S, s, l, n) <=> Node(S, k, l, n)
             /\ Prefix(s, l) = Prefix(k, l)
  <2>1. Same(s, k, l - 1)
    BY <1>2, <1>3, SameShorter
  <2>2. \A u : (Same(u, s, l) <=> Same(u, k, l)) /\ (Same(u, s, l - 1) <=> Same(u, k, l - 1))
    BY <1>3, <2>1, SameTransitive
  <2>3. Branches(S, s, l) <=> Branches(S, k, l)
    BY <2>2 DEF Branches
  <2>4. ASSUME NEW n
        PROVE  Node(S, s, l, n) <=> Node(S, k, l, n)
    BY <2>2 DEF Node
  <2>5. s \in Key
    OBVIOUS
  <2>6. Prefix(s, l) = Prefix(k, l)
    BY <1>2, <1>3, <2>5, PrefixFacts
  <2>7. QED
    BY <2>3, <2>4, <2>6
<1>4. ASSUME Prefix(k, l) \in DOMAIN f
      PROVE  /\ \E s \in S : Same(s, k, l)
             /\ Branches(S, k, l)
             /\ Node(S, k, l, f[Prefix(k, l)])
  <2>1. PICK s \in S, i \in Level : Branches(S, s, i) /\ Prefix(k, l) = Prefix(s, i)
    BY <1>1, <1>4 DEF Nodes
  <2>2. s \in Key /\ i \in 0..KeyLen
    BY <1>2
  <2>3. l = i
    BY <1>2, <2>1, <2>2, PrefixFacts
  <2>4. Same(k, s, l)
    BY <1>2, <2>1, <2>2, <2>3, PrefixFacts
  <2>5. Same(s, k, l)
    BY <2>4 DEF Same
  <2>6. Node(S, s, l, f[Prefix(s, l)])
    BY <2>1, <2>3 DEF Tree
  <2>7. QED
    BY <1>3, <2>1, <2>3, <2>5, <2>6
<1>5. ASSUME NEW s \in S, Same(s, k, l), Branches(S, k, l)
      PROVE  Prefix(k, l) \in DOMAIN f
  <2>1. Branches(S, s, l) /\ Prefix(s, l) = Prefix(k, l)
    BY <1>3, <1>5
  <2>2. <<s, l>> \in {w \in S \X Level : Branches(S, w[1], w[2])}
    BY <2>1
  <2>3. Prefix(s, l) \in Nodes(S)
    BY <2>2 DEF Nodes
  <2>4. QED
    BY <1>1, <2>1, <2>3
<1>6. QED
  BY <1>4, <1>5

\* Below a node that branches, each of its keys has a node at the next level.
LEMMA NodeBelow ==
  ASSUME NEW f, NEW S, Tree(f, S), S \subseteq Key, NEW k \in Key, NEW l \in Level,
         NEW n, Node(S, k, l, n), n.dlen < KeyLen,
         NEW s \in S, Same(s, k, l)
  PROVE  /\ n.dlen \in 0..KeyLen /\ n.dlen + 1 \in Level /\ n.dlen >= l
         /\ Branches(S, s, n.dlen + 1)
         /\ Prefix(s, n.dlen + 1) \in DOMAIN f
         /\ Node(S, s, n.dlen + 1, f[Prefix(s, n.dlen + 1)])
<1> DEFINE d == n.dlen
           m == n.mkey
<1>1. d \in l..KeyLen /\ d < KeyLen /\ m \in S /\ m \in Key /\ s \in Key
  BY DEF Node
<1>2. d \in 0..KeyLen /\ d + 1 \in Level /\ d >= l /\ (d + 1) - 1 = d
  BY <1>1, LengthFacts DEF Level
<1>3. Same(s, m, d)
  BY DEF Node
<1>4. PICK u \in S : Same(u, k, l) /\ ~Same(u, m, d + 1)
  BY DEF Node
<1>5. Same(u, m, d)
  BY <1>4 DEF Node
<1> HIDE DEF d, m
<1>6. Branches(S, s, d + 1)
  <2>1. CASE Same(s, m, d + 1)
    <3>1. ~Same(u, s, d + 1) /\ Same(u, s, d)
      BY <1>3, <1>4, <1>5, <2>1 DEF Same
    <3>2. QED
      BY <3>1, <1>2 DEF Branches
  <2>2. CASE ~Same(s, m, d + 1)
    <3>1. ~Same(m, s, d + 1) /\ Same(m, s, d)
      BY <1>3, <2>2 DEF Same
    <3>2. QED
      BY <3>1, <1>1, <1>2 DEF Branches
  <2>3. QED
    BY <2>1, <2>2
<1>7. Same(s, s, d + 1)
  BY DEF Same
<1>8. Prefix(s, d + 1) \in DOMAIN f /\ Node(S, s, d + 1, f[Prefix(s, d + 1)])
  BY <1>1, <1>2, <1>6, <1>7, TreeAt
<1>9. QED
  BY <1>1, <1>2, <1>6, <1>8 DEF d

\* Of two nodes on one path, the upper one ends before the lower one begins.
LEMMA NodeAbove ==
  ASSUME NEW f, NEW S, Tree(f, S), S \subseteq Key, NEW k \in Key,
         NEW l \in Level, NEW m \in Level, m < l,
         Prefix(k, m) \in DOMAIN f, Prefix(k, l) \in DOMAIN f
  PROVE  /\ f[Prefix(k, m)].dlen \in m..(l - 1)
         /\ Same(f[Prefix(k, m)].mkey, k, f[Prefix(k, m)].dlen)
         /\ f[Prefix(k, m)].mkey <= f[Prefix(k, l)].mkey
         /\ \A s \in S : Same(s, k, l) => Same(s, k, m)
<1> DEFINE n == f[Prefix(k, m)]
           d == n.dlen
<1>1. Node(S, k, m, n) /\ Node(S, k, l, f[Prefix(k, l)])
  BY TreeAt
<1>2. /\ l \in 0..KeyLen /\ m \in 0..KeyLen /\ l - 1 \in 0..KeyLen /\ l - 1 >= m
      /\ m <= l /\ l # TopLen + 1 /\ l \in Nat /\ m \in Nat
  BY LengthFacts DEF Level
<1>3. PICK s \in S : Same(s, k, l)
  BY TreeAt
<1>4. PICK u \in S : Same(u, k, l - 1) /\ ~Same(u, k, l)
  BY <1>2, TreeAt DEF Branches
<1>5. Same(s, k, m)
  BY <1>2, <1>3, SameShorter
<1>6. Same(u, k, m)
  BY <1>2, <1>4, SameShorter
<1>7. /\ d \in m..KeyLen /\ n.mkey \in Key
      /\ Same(s, n.mkey, d) /\ Same(u, n.mkey, d)
      /\ d \in 0..KeyLen /\ d \in Nat
  BY <1>1, <1>2, <1>5, <1>6 DEF Node
<1> HIDE DEF n, d
<1>8. d < l
  <2>1. SUFFICES ASSUME l <= d
                 PROVE  FALSE
    BY <1>2, <1>7
  <2>2. Same(s, n.mkey, l) /\ Same(u, n.mkey, l)
    BY <1>2, <1>7, <2>1, SameShorter
  <2>3. QED
    BY <1>3, <1>4, <2>2 DEF Same
<1>9. Same(s, k, d)
  BY <1>2, <1>3, <1>7, <1>8, SameShorter
<1>10. Same(n.mkey, k, d)
  BY <1>7, <1>9 DEF Same
<1>11. \A v \in S : Same(v, k, l) => Same(v, k, m)
  BY <1>2, SameShorter
<1>12. n.mkey <= f[Prefix(k, l)].mkey
  BY <1>1, <1>11 DEF Node
<1>13. QED
  BY <1>2, <1>7, <1>8, <1>10, <1>11, <1>12 DEF n, d

\* Where two keys part below the flat levels, there is a node that branches.
LEMMA NodeWhereKeysPart ==
  ASSUME NEW f, NEW S, Tree(f, S), S \subseteq Key, NEW u \in S, NEW s \in S,
         NEW n \in Level, n < KeyLen, Same(u, s, n), ~Same(u, s, n + 1)
  PROVE  \E m \in Level : /\ m <= n /\ Prefix(s, m) \in DOMAIN f
                          /\ f[Prefix(s, m)].dlen = n
<1> DEFINE M == {m \in Level : m <= n /\ Prefix(s, m) \in DOMAIN f}
<1>1. /\ n \in 0..KeyLen /\ n + 1 \in 0..KeyLen /\ n \in Nat
      /\ TopLen + 1 \in Level /\ TopLen + 1 <= n
      /\ s \in Key /\ u \in Key /\ KeyLen \in Nat
  BY LengthFacts DEF Level
<1>2. TopLen + 1 \in M
  <2>1. Same(s, s, TopLen + 1) /\ Branches(S, s, TopLen + 1)
    BY DEF Same, Branches
  <2>2. QED
    BY <1>1, <2>1, TreeAt
<1>3. M \subseteq Nat /\ \A m \in M : m <= n
  BY LengthFacts
<1>4. PICK m \in M : \A i \in M : i <= m
  <2> HIDE DEF M
  <2>1. Max(M) \in M /\ \A i \in M : i <= Max(M)
    BY <1>1, <1>2, <1>3, MaxFacts
  <2>2. QED
    BY <2>1
<1> DEFINE N == f[Prefix(s, m)]
           d == N.dlen
<1>5. /\ m \in Level /\ m <= n /\ Prefix(s, m) \in DOMAIN f /\ m \in 0..KeyLen
      /\ m \in Nat
  BY <1>4, LengthFacts
<1>6. Node(S, s, m, N)
  BY <1>1, <1>5, TreeAt
<1>7. Same(u, s, m) /\ Same(s, s, m)
  <2>1. Same(u, s, m)
    BY <1>1, <1>5, SameShorter
  <2>2. QED
    BY <2>1 DEF Same
<1>8. /\ d \in m..KeyLen /\ d \in 0..KeyLen /\ d \in Nat
      /\ N.mkey \in Key /\ Same(u, N.mkey, d) /\ Same(s, N.mkey, d)
  BY <1>5, <1>6, <1>7 DEF Node
<1>9. d <= n
  <2>1. SUFFICES ASSUME n + 1 <= d
                 PROVE  FALSE
    BY <1>1, <1>8
  <2> HIDE DEF N, d
  <2>2. Same(u, N.mkey, n + 1) /\ Same(s, N.mkey, n + 1)
    BY <1>1, <1>8, <2>1, SameShorter
  <2>3. QED
    BY <2>2 DEF Same
<1>10. d >= n
  <2>1. SUFFICES ASSUME d < n
                 PROVE  FALSE
    BY <1>1, <1>8
  <2>2. d < KeyLen /\ d + 1 <= n
    BY <1>1, <1>8, <2>1
  <2>3. d + 1 \in Level /\ Prefix(s, d + 1) \in DOMAIN f
    BY <1>1, <1>5, <1>6, <1>7, <2>2, NodeBelow
  <2>4. d + 1 \in M
    BY <2>2, <2>3
  <2>5. d + 1 <= m
    BY <2>4, <1>4
  <2>6. QED
    BY <1>5, <1>8, <2>5
<1>11. QED
  BY <1>1, <1>5, <1>8, <1>9, <1>10

-----------------------------------------------------------------------------
(* QueryLCP finds the deepest node on the path of a key, and how far any of   *)
(* the keys agrees with it.                                                   *)

Deepest(t, S, k, q) ==
  LET n == t.node[Prefix(k, q.ilen)]
  IN  /\ q.ilen \in Level /\ Prefix(k, q.ilen) \in DOMAIN t.node
      /\ \A l \in PathLevels(t, k) : l <= q.ilen
      /\ q.ilen <= q.lcp /\ q.lcp <= n.dlen
      /\ Same(n.mkey, k, q.lcp)
      /\ Node(S, k, q.ilen, n)

\* No key agrees with k in more digits than QueryLCP says, and the node it finds is
\* the deepest on k's path.
LEMMA QueryFacts ==
  ASSUME NEW t, NEW S, Tree(t.node, S), S \subseteq Key, NEW k \in Key,
         NEW q, q = QueryLCP(t, k)
  PROVE  /\ q.lcp \in TopLen..KeyLen
         /\ \A u \in S, n \in Level : Same(u, k, n) => n <= q.lcp
         /\ q.lcp = TopLen => PathLevels(t, k) = {} /\ q = [ilen |-> 0, lcp |-> TopLen]
         /\ q.lcp # TopLen => Deepest(t, S, k, q)
<1> DEFINE P == PathLevels(t, k)
<1>1. /\ TopLen + 1 \in Level /\ TopLen + 1 \in 0..KeyLen /\ KeyLen \in Nat /\ TopLen \in Nat
      /\ TopLen < KeyLen
      /\ \A n \in Level : n \in 0..KeyLen /\ TopLen + 1 <= n /\ n \in Nat
  BY LengthFacts DEF Level
<1>2. \A l : l \in P <=> l \in Level /\ Prefix(k, l) \in DOMAIN t.node
  BY DEF PathLevels, Has
<1>3. CASE P = {}
  <2>1. q = [ilen |-> 0, lcp |-> TopLen]
    BY <1>3 DEF QueryLCP
  <2>2. ASSUME NEW u \in S, NEW n \in Level, Same(u, k, n)
        PROVE  FALSE
    <3>1. Same(u, k, TopLen + 1)
      BY <1>1, <2>2, SameShorter
    <3>2. Branches(S, k, TopLen + 1)
      BY DEF Branches
    <3>3. Prefix(k, TopLen + 1) \in DOMAIN t.node
      BY <1>1, <3>1, <3>2, TreeAt
    <3>4. QED
      BY <1>1, <1>2, <1>3, <3>3
  <2>3. QED
    BY <1>1, <1>3, <2>1, <2>2
<1>4. CASE P # {}
  <2> DEFINE l == Max(P)
             N == t.node[Prefix(k, l)]
             c == LCP(k, N.mkey)
             d == N.dlen
  <2>1. P \subseteq Nat /\ \A i \in P : i <= KeyLen
    BY <1>2, LengthFacts
  <2>2. q = [ilen |-> l, lcp |-> c]
    BY <1>4 DEF QueryLCP
  <2>3. l \in P /\ \A i \in P : i <= l
    <3> HIDE DEF P
    <3>1. QED
      BY <1>1, <1>4, <2>1, MaxFacts
  <2> HIDE DEF l
  <2>4. l \in Level /\ Prefix(k, l) \in DOMAIN t.node /\ l \in 0..KeyLen /\ l \in Nat
    BY <1>1, <1>2, <2>3
  <2>5. Node(S, k, l, N)
    BY <2>4, TreeAt
  <2> DEFINE m == N.mkey
  <2>6. /\ m \in S /\ m \in Key /\ Same(m, k, l) /\ Same(k, m, l)
        /\ d \in l..KeyLen /\ d \in 0..KeyLen /\ d \in Nat
    BY <2>4, <2>5 DEF Node, Same
  <2>7. c \in 0..KeyLen /\ c \in Nat /\ \A n \in 0..KeyLen : Same(k, m, n) <=> n <= c
    BY <2>6, LCPFacts
  <2> HIDE DEF N
  <2>8. l <= c
    BY <2>4, <2>6, <2>7
  <2> HIDE DEF c, m, d
  <2>9. ASSUME NEW u \in S, Same(u, k, d + 1), d < KeyLen
        PROVE  FALSE
    <3>1. u \in Key /\ d + 1 \in 0..KeyLen /\ l <= d + 1
      BY <2>4, <2>6, <2>9, <1>1
    <3>2. Same(u, k, l)
      BY <2>4, <2>9, <3>1, SameShorter
    <3>3. d + 1 \in Level /\ Prefix(u, d + 1) \in DOMAIN t.node
      BY <2>4, <2>5, <2>9, <3>2, NodeBelow DEF d
    <3>4. Prefix(u, d + 1) = Prefix(k, d + 1)
      BY <2>9, <3>1, PrefixFacts
    <3>5. d + 1 <= l
      BY <1>2, <2>3, <3>3, <3>4
    <3>6. QED
      BY <2>4, <2>6, <3>5
  <2>10. c <= d
    <3>1. SUFFICES ASSUME d + 1 <= c
                   PROVE  FALSE
      BY <2>6, <2>7
    <3>2. d + 1 \in 0..KeyLen /\ d < KeyLen
      BY <1>1, <2>6, <2>7, <3>1
    <3>3. Same(m, k, d + 1)
      BY <2>7, <3>1, <3>2 DEF Same
    <3>4. QED
      BY <2>6, <2>9, <3>2, <3>3
  <2>11. ASSUME NEW u \in S, NEW n \in Level, Same(u, k, n)
         PROVE  n <= c
    <3>1. SUFFICES ASSUME c + 1 <= n
                   PROVE  FALSE
      BY <1>1, <2>7
    <3>2. u \in Key /\ n \in 0..KeyLen /\ n \in Nat /\ c + 1 \in 0..KeyLen /\ l <= n
      BY <1>1, <2>4, <2>7, <2>8, <3>1
    <3>3. Same(u, k, c + 1) /\ Same(u, k, l)
      BY <2>4, <2>11, <3>1, <3>2, SameShorter
    <3>4. ~Same(k, m, c + 1)
      BY <2>7, <3>2
    <3>5. ~Same(u, m, c + 1)
      BY <3>3, <3>4 DEF Same
    <3>6. Same(u, m, d)
      BY <2>5, <3>3 DEF Node, m, d
    <3>7. d < c + 1
      <4>1. SUFFICES ASSUME c + 1 <= d
                     PROVE  FALSE
        BY <2>6, <2>7
      <4>2. Same(u, m, c + 1)
        BY <2>6, <3>2, <3>6, <4>1, SameShorter
      <4>3. QED
        BY <3>5, <4>2
    <3>8. d = c /\ d < KeyLen
      BY <2>6, <2>7, <2>10, <3>2, <3>7, <1>1
    <3>9. QED
      BY <2>9, <3>3, <3>8
  <2>12. Same(m, k, c)
    BY <2>7 DEF Same
  <2>13. c \in TopLen..KeyLen /\ c # TopLen
    BY <1>1, <2>4, <2>7, <2>8
  <2>14. Deepest(t, S, k, q)
    BY <2>2, <2>3, <2>4, <2>5, <2>8, <2>10, <2>12 DEF Deepest, N, m, d
  <2>15. QED
    BY <2>2, <2>11, <2>13, <2>14
<1>5. QED
  BY <1>3, <1>4

\* Exist finds exactly the keys.
LEMMA ContainsFacts ==
  ASSUME NEW t, NEW S, Tree(t.node, S), S \subseteq Key, NEW k \in Key
  PROVE  Contains(t, k) <=> k \in S
<1> DEFINE q == QueryLCP(t, k)
           N == t.node[Prefix(k, q.ilen)]
<1>1. /\ q.lcp \in TopLen..KeyLen
      /\ \A u \in S, n \in Level : Same(u, k, n) => n <= q.lcp
      /\ q.lcp # TopLen => Deepest(t, S, k, q)
  BY QueryFacts
<1>2. KeyLen \in Level /\ KeyLen # TopLen /\ KeyLen \in Nat /\ TopLen \in Nat
  BY LengthFacts DEF Level
<1>3. ASSUME q.lcp = KeyLen
      PROVE  k \in S
  <2>1. Same(N.mkey, k, KeyLen) /\ N.mkey \in S
    BY <1>1, <1>2, <1>3 DEF Deepest, Node
  <2>2. QED
    BY <2>1, SameFacts
<1>4. ASSUME k \in S
      PROVE  q.lcp = KeyLen
  <2>1. Same(k, k, KeyLen)
    BY DEF Same
  <2>2. KeyLen <= q.lcp
    BY <1>1, <1>2, <1>4, <2>1
  <2>3. QED
    BY <1>1, <1>2, <2>2
<1>5. QED
  BY <1>3, <1>4 DEF Contains

\* The keys are those of the leaves.
LEMMA LeafKeys ==
  ASSUME NEW f, NEW S, Tree(f, S), S \subseteq Key
  PROVE  {f[p].mkey : p \in {r \in DOMAIN f : f[r].dlen = KeyLen}} = S
<1> DEFINE L == {r \in DOMAIN f : f[r].dlen = KeyLen}
           t == [node |-> f]
<1>1. ASSUME NEW p \in L
      PROVE  f[p].mkey \in S
  <2>1. p \in Nodes(S)
    BY DEF Tree
  <2>2. PICK s \in S, l \in Level : Branches(S, s, l) /\ p = Prefix(s, l)
    BY <2>1 DEF Nodes
  <2>3. Node(S, s, l, f[p])
    BY <2>2 DEF Tree
  <2>4. QED
    BY <2>3 DEF Node
<1>2. ASSUME NEW s \in S
      PROVE  \E p \in L : f[p].mkey = s
  <2> DEFINE q == QueryLCP(t, s)
             N == f[Prefix(s, q.ilen)]
  <2>1. t.node = f /\ s \in Key
    OBVIOUS
  <2>2. KeyLen # TopLen /\ q.lcp = KeyLen /\ KeyLen \in Nat
    BY <2>1, ContainsFacts, LengthFacts DEF Contains
  <2>3. Deepest(t, S, s, q)
    BY <2>1, <2>2, QueryFacts
  <2>4. /\ Prefix(s, q.ilen) \in DOMAIN f /\ q.lcp <= N.dlen
        /\ Same(N.mkey, s, q.lcp) /\ Node(S, s, q.ilen, N) /\ q.ilen \in Level
    BY <2>1, <2>3 DEF Deepest
  <2> HIDE DEF q, t, N
  <2>5. N.dlen = KeyLen /\ N.mkey \in S
    BY <2>2, <2>4, LengthFacts DEF Node
  <2>6. N.mkey = s
    BY <2>1, <2>2, <2>4, <2>5, SameFacts
  <2>7. QED
    BY <2>4, <2>5, <2>6 DEF N
<1>3. QED
  BY <1>1, <1>2

-----------------------------------------------------------------------------
(* Insert: what a larger tree has to have, for the tree of one key more.      *)

\* f has the tree of S, g that of S and k.  No key of S agrees with k in more
\* than c digits, and g has a leaf after c + 1; on the path of k the nodes know
\* k; if no key parted after c digits before, one node more does now.
Grown(f, g, S, k, c) ==
  /\ g = [p \in DOMAIN g |-> g[p]]
  /\ c \in TopLen..(KeyLen - 1)
  /\ \A u \in S, n \in Level : Same(u, k, n) => n <= c
  /\ c # TopLen => \E w \in S : Same(w, k, c)
  /\ DOMAIN f \subseteq DOMAIN g
  /\ Prefix(k, c + 1) \in DOMAIN g /\ g[Prefix(k, c + 1)] = Leaf(k)
  /\ \A p \in DOMAIN g : \/ p \in DOMAIN f \cup {Prefix(k, c + 1)}
                         \/ \E s \in S : Same(s, k, c) /\ p = Prefix(s, c + 1)
  /\ \A l \in Level : l <= c /\ Prefix(k, l) \in DOMAIN f =>
                        Node(S \cup {k}, k, l, g[Prefix(k, l)])
  /\ \A s \in S, l \in Level :
       Branches(S, s, l) /\ ~Same(s, k, l) => g[Prefix(s, l)] = f[Prefix(s, l)]
  /\ \A s \in S : c # TopLen /\ Same(s, k, c) /\ ~Branches(S, s, c + 1) =>
       /\ Prefix(s, c + 1) \in DOMAIN g
       /\ Node(S \cup {k}, s, c + 1, g[Prefix(s, c + 1)])

\* Where the larger set has nodes.
LEMMA GrownNode ==
  ASSUME NEW f, NEW g, NEW S, Tree(f, S), S \subseteq Key, NEW k \in Key,
         NEW c, Grown(f, g, S, k, c),
         NEW s \in S \cup {k}, NEW l \in Level, Branches(S \cup {k}, s, l)
  PROVE  /\ Prefix(s, l) \in DOMAIN g
         /\ Node(S \cup {k}, s, l, g[Prefix(s, l)])
<1> DEFINE T == S \cup {k}
           p == Prefix(s, l)
<1>1. /\ l \in 0..KeyLen /\ l \in Nat /\ l - 1 \in 0..KeyLen /\ l >= TopLen + 1 /\ l - 1 <= l
      /\ c \in 0..KeyLen /\ c + 1 \in 0..KeyLen /\ c \in Nat /\ c < KeyLen
      /\ c >= TopLen /\ s \in Key /\ T \subseteq Key /\ KeyLen \in Nat /\ TopLen \in Nat
  BY LengthFacts DEF Grown, Level
<1>2. \A u \in S, n \in Level : Same(u, k, n) => n <= c
  BY DEF Grown
<1>3. CASE Same(s, k, l)
  <2>1. p = Prefix(k, l)
    BY <1>1, <1>3, PrefixFacts
  <2>2. \A n : Node(T, s, l, n) <=> Node(T, k, l, n)
    BY <1>3, SameTransitive DEF Node
  <2>3. Same(s, k, l - 1)
    BY <1>1, <1>3, SameShorter
  <2>4. Branches(T, k, l)
    BY <1>3, <2>3 DEF Branches, Same
  <2>5. \A i : Same(k, k, i)
    BY DEF Same
  <2>6. Branches(S, k, l)
    BY <2>4, <2>5 DEF Branches
  <2>7. l <= c + 1
    <3>1. SUFFICES ASSUME l > c + 1
                   PROVE  FALSE
      BY <1>1
    <3>2. l # TopLen + 1 /\ l - 1 \in Level /\ ~(l - 1 <= c)
      BY <1>1, <3>1 DEF Level
    <3>3. QED
      BY <2>6, <1>2, <3>2 DEF Branches
  <2>8. CASE l = c + 1
    <3>1. p \in DOMAIN g /\ g[p] = Leaf(k)
      BY <2>1, <2>8 DEF Grown
    <3>2. ASSUME NEW u \in T, Same(u, k, l)
          PROVE  u = k
      BY <1>1, <1>2, <2>8, <3>2
    <3>3. k \in Nat /\ k <= k
      BY SameFacts
    <3>4. Node(T, k, l, Leaf(k))
      BY <1>1, <2>5, <3>2, <3>3 DEF Node, Leaf
    <3>5. QED
      BY <2>2, <3>1, <3>4
  <2>9. CASE l <= c
    <3>1. PICK w \in S : Same(w, k, c)
      BY <1>1, <2>9 DEF Grown
    <3>2. Same(w, k, l)
      BY <1>1, <2>9, <3>1, SameShorter
    <3>3. Prefix(k, l) \in DOMAIN f
      BY <2>6, <3>2, TreeAt
    <3>4. QED
      BY <2>1, <2>2, <2>9, <3>3 DEF Grown
  <2>10. QED
    BY <1>1, <2>7, <2>8, <2>9
<1>4. CASE ~Same(s, k, l)
  <2>1. s \in S /\ ~Same(k, s, l)
    BY <1>4 DEF Same
  <2>2. CASE Branches(S, s, l)
    <3>1. Same(s, s, l)
      BY DEF Same
    <3>2. p \in DOMAIN f /\ Node(S, s, l, f[p])
      BY <1>1, <2>1, <2>2, <3>1, TreeAt
    <3>3. p \in DOMAIN g /\ g[p] = f[p]
      BY <1>4, <2>1, <2>2, <3>2 DEF Grown
    <3>4. Node(T, s, l, f[p])
      BY <2>1, <3>2 DEF Node
    <3>5. QED
      BY <3>3, <3>4
  <2>3. CASE ~Branches(S, s, l)
    <3>1. l # TopLen + 1 /\ Same(k, s, l - 1)
      BY <2>3 DEF Branches
    <3>2. l - 1 \in Level /\ l - 1 <= c /\ c # TopLen /\ Same(s, k, l - 1)
      <4>1. l - 1 \in Level /\ Same(s, k, l - 1)
        BY <1>1, <3>1 DEF Level, Same
      <4>2. l - 1 <= c
        BY <1>2, <2>1, <4>1
      <4>3. QED
        BY <1>1, <3>1, <4>1, <4>2
    <3>3. PICK w \in S : Same(w, k, c)
      BY <3>2 DEF Grown
    <3>4. l = c + 1
      <4>1. SUFFICES ASSUME l <= c
                     PROVE  FALSE
        BY <1>1, <3>2
      <4>2. Same(w, k, l) /\ Same(w, k, l - 1)
        BY <1>1, <3>3, <4>1, SameShorter
      <4>3. Same(w, s, l - 1) /\ ~Same(w, s, l)
        BY <1>4, <3>2, <4>2 DEF Same
      <4>4. QED
        BY <2>3, <4>3 DEF Branches
    <3>5. Same(s, k, c)
      BY <1>1, <3>2, <3>4
    <3>6. QED
      BY <2>1, <2>3, <3>2, <3>4, <3>5 DEF Grown
  <2>4. QED
    BY <2>2, <2>3
<1>5. QED
  BY <1>3, <1>4

\* A tree that has grown so is that of one key more.
LEMMA GrownTree ==
  ASSUME NEW f, NEW g, NEW S, Tree(f, S), S \subseteq Key, NEW k \in Key,
         NEW c, Grown(f, g, S, k, c)
  PROVE  Tree(g, S \cup {k})
<1> DEFINE T == S \cup {k}
<1>1. /\ c \in TopLen..(KeyLen - 1) /\ c \in 0..KeyLen /\ c + 1 \in Level
      /\ (c + 1) - 1 = c /\ c < KeyLen /\ T \subseteq Key /\ KeyLen \in Nat /\ c + 1 \in 0..KeyLen
  BY LengthFacts DEF Grown, Level
<1>2. \A s \in T, l \in Level : Branches(T, s, l) => /\ Prefix(s, l) \in DOMAIN g
                                                    /\ Node(T, s, l, g[Prefix(s, l)])
  BY GrownNode
<1>3. ASSUME NEW s \in T, NEW l \in Level, Branches(T, s, l)
      PROVE  Prefix(s, l) \in Nodes(T)
  <2>1. <<s, l>> \in {w \in T \X Level : Branches(T, w[1], w[2])}
    BY <1>3
  <2>2. QED
    BY <2>1 DEF Nodes
<1>4. Nodes(T) \subseteq DOMAIN g
  BY <1>2 DEF Nodes
<1>5. ASSUME NEW p \in DOMAIN g
      PROVE  p \in Nodes(T)
  <2>1. CASE p \in DOMAIN f
    <3>1. PICK s \in S, l \in Level : Branches(S, s, l) /\ p = Prefix(s, l)
      BY <2>1 DEF Tree, Nodes
    <3>2. Branches(T, s, l)
      BY <3>1 DEF Branches
    <3>3. QED
      BY <1>3, <3>1, <3>2
  <2>2. CASE p = Prefix(k, c + 1)
    <3>1. c = TopLen => Branches(T, k, c + 1)
      BY DEF Branches
    <3>2. ASSUME c # TopLen
          PROVE  Branches(T, k, c + 1)
      <4>1. PICK w \in S : Same(w, k, c)
        BY <3>2 DEF Grown
      <4>2. ~Same(w, k, c + 1)
        BY <1>1 DEF Grown
      <4>3. QED
        BY <1>1, <4>1, <4>2 DEF Branches
    <3>3. QED
      BY <1>1, <1>3, <2>2, <3>1, <3>2
  <2>3. ASSUME NEW s \in S, Same(s, k, c), p = Prefix(s, c + 1)
        PROVE  p \in Nodes(T)
    <3>1. ~Same(s, k, c + 1)
      BY <1>1 DEF Grown
    <3>2. Same(k, s, c) /\ ~Same(k, s, c + 1)
      BY <2>3, <3>1 DEF Same
    <3>3. Branches(T, s, c + 1)
      BY <1>1, <3>2 DEF Branches
    <3>4. QED
      BY <1>1, <1>3, <2>3, <3>3
  <2>4. QED
    BY <2>1, <2>2, <2>3 DEF Grown
<1>6. DOMAIN g = Nodes(T)
  BY <1>4, <1>5
<1>7. g = [p \in Nodes(T) |-> g[p]]
  BY <1>6 DEF Grown
<1>8. QED
  BY <1>2, <1>7 DEF Tree

\* A node on the path of k that learns k: its string is a prefix of k.
LEMMA NodeLowered ==
  ASSUME NEW S, S \subseteq Key, NEW k \in Key, NEW l \in Level, NEW n,
         Node(S, k, l, n), n.dlen < KeyLen, Same(n.mkey, k, n.dlen),
         NEW K, \A d : d \in K <=> d \in n.kids \/ d = DigitAfter(k, n.dlen)
  PROVE  Node(S \cup {k}, k, l, [dlen |-> n.dlen, mkey |-> Lower(k, n.mkey), kids |-> K])
<1> DEFINE T == S \cup {k}
           d == n.dlen
           m == n.mkey
           h == Lower(k, m)
<1>1. /\ d \in l..KeyLen /\ d < KeyLen /\ m \in S /\ m \in Key /\ Same(m, k, l) /\ Same(m, k, d)
      /\ \A u \in S : Same(u, k, l) => m <= u /\ Same(u, m, d)
      /\ \A e : e \in n.kids <=> \E u \in S : Same(u, k, l) /\ e = DigitAfter(u, d)
  BY DEF Node
<1>2. PICK v \in S : Same(v, k, l) /\ ~Same(v, m, d + 1)
  BY DEF Node
<1> HIDE DEF d, m
<1>3. /\ k \in Nat /\ m \in Nat /\ \A u \in S : u \in Nat
      /\ h \in {k, m} /\ h <= k /\ h <= m /\ h \in Nat
  <2>1. k \in Nat /\ m \in Nat /\ \A u \in S : u \in Nat
    BY <1>1, SameFacts
  <2>2. QED
    BY <2>1 DEF Lower
<1> HIDE DEF h
<1>4. h \in T /\ Same(h, k, l) /\ Same(h, m, d)
  BY <1>1, <1>3 DEF Same
<1>5. ASSUME NEW u \in T, Same(u, k, l)
      PROVE  h <= u /\ Same(u, h, d)
  <2>1. u = k \/ (u \in S /\ m <= u /\ Same(u, m, d))
    BY <1>1, <1>5
  <2>2. u \in Nat /\ h <= u
    BY <1>3, <2>1
  <2>3. Same(u, h, d)
    BY <1>1, <1>4, <2>1 DEF Same
  <2>4. QED
    BY <2>2, <2>3
<1>6. \E u \in T : Same(u, k, l) /\ ~Same(u, h, d + 1)
  <2>1. Same(v, k, l) /\ Same(m, k, l) /\ v \in T /\ m \in T
    BY <1>1, <1>2
  <2>2. ~Same(v, h, d + 1) \/ ~Same(m, h, d + 1)
    BY <1>2 DEF Same
  <2>3. QED
    BY <2>1, <2>2
<1>7. ASSUME NEW e
      PROVE  e \in K <=> \E u \in T : Same(u, k, l) /\ e = DigitAfter(u, d)
  <2>1. e \in K <=> e \in n.kids \/ e = DigitAfter(k, d)
    BY DEF d
  <2>2. e \in n.kids <=> \E u \in S : Same(u, k, l) /\ e = DigitAfter(u, d)
    BY <1>1
  <2>3. Same(k, k, l)
    BY DEF Same
  <2>4. QED
    BY <2>1, <2>2, <2>3
<1>8. QED
  BY <1>1, <1>4, <1>5, <1>6, <1>7 DEF Node, d, m, h

-----------------------------------------------------------------------------
(* Insert keeps the tree. *)

\* No node is on the path of the key.
LEMMA GrownFlat ==
  ASSUME NEW t, NEW S, Tree(t.node, S), S \subseteq Key, NEW k \in Key,
         QueryLCP(t, k).lcp = TopLen
  PROVE  Grown(t.node, SetNode(t.node, Prefix(k, TopLen + 1), Leaf(k)), S, k, TopLen)
<1> DEFINE f == t.node
           p == Prefix(k, TopLen + 1)
           g == SetNode(f, p, Leaf(k))
<1>1. \A u \in S, n \in Level : Same(u, k, n) => n <= TopLen
  BY QueryFacts
<1>2. /\ TopLen \in TopLen..(KeyLen - 1) /\ TopLen + 1 \in 0..KeyLen
      /\ \A l \in Level : l \in 0..KeyLen /\ ~(l <= TopLen)
  BY LengthFacts DEF Level
<1>3. /\ DOMAIN g = DOMAIN f \cup {p} /\ g = [r \in DOMAIN g |-> g[r]]
      /\ g[p] = Leaf(k) /\ \A r \in DOMAIN f : r # p => g[r] = f[r]
  BY DEF SetNode
<1> HIDE DEF g
<1>4. ASSUME NEW s \in S, NEW l \in Level, Branches(S, s, l), ~Same(s, k, l)
      PROVE  g[Prefix(s, l)] = f[Prefix(s, l)]
  <2>1. Same(s, s, l) /\ s \in Key
    BY DEF Same
  <2>2. Prefix(s, l) \in DOMAIN f
    BY <1>4, <2>1, TreeAt
  <2>3. Prefix(s, l) # p
    BY <1>2, <1>4, <2>1, PrefixFacts
  <2>4. QED
    BY <1>3, <2>2, <2>3
<1>5. Grown(f, g, S, k, TopLen)
  BY <1>1, <1>2, <1>3, <1>4 DEF Grown
<1>6. QED
  BY <1>5 DEF g

\* The levels that PushUp tells of k are those whose smallest key is larger.
LEMMA LoweredFacts ==
  ASSUME NEW f, NEW S, Tree(f, S), S \subseteq Key, NEW k \in Key,
         NEW m \in Level, Prefix(k, m) \in DOMAIN f, k < f[Prefix(k, m)].mkey
  PROVE  /\ Lowered(f, k, m) \subseteq Level
         /\ \A l \in Lowered(f, k, m) : l < m /\ Prefix(k, l) \in DOMAIN f
         /\ \A l \in Level : l < m /\ Prefix(k, l) \in DOMAIN f =>
              (l \in Lowered(f, k, m) <=> k < f[Prefix(k, l)].mkey)
<1>1. /\ m \in Nat /\ m <= KeyLen /\ TopLen \in Nat /\ KeyLen \in Nat
      /\ \A l \in Level : l \in Nat /\ l >= TopLen + 1
  BY LengthFacts DEF Level
<1>2. (TopLen + 1)..(m - 1) \subseteq Level /\ \A l \in (TopLen + 1)..(m - 1) : l < m
  BY <1>1 DEF Level
<1>3. ASSUME NEW l \in Level, l < m, Prefix(k, l) \in DOMAIN f
      PROVE  l \in Lowered(f, k, m) <=> k < f[Prefix(k, l)].mkey
  <2>0. l \in Nat /\ l >= TopLen + 1
    BY <1>1
  <2>1. l \in (TopLen + 1)..(m - 1) /\ l \in l..(m - 1)
    BY <1>1, <1>3, <2>0
  <2>2. ASSUME k < f[Prefix(k, l)].mkey,
               NEW i \in l..(m - 1), Prefix(k, i) \in DOMAIN f
        PROVE  k < f[Prefix(k, i)].mkey
    <3>1. CASE i = l
      BY <2>2, <3>1
    <3>2. CASE i # l
      <4>1. i \in Level /\ l < i
        BY <1>1, <1>2, <2>1, <3>2
      <4>2. f[Prefix(k, l)].mkey <= f[Prefix(k, i)].mkey
        BY <1>3, <2>2, <4>1, NodeAbove
      <4>3. f[Prefix(k, l)].mkey \in Key /\ f[Prefix(k, i)].mkey \in Key
        BY <1>3, <2>2, <4>1, TreeAt DEF Node
      <4>4. k \in Nat /\ f[Prefix(k, l)].mkey \in Nat /\ f[Prefix(k, i)].mkey \in Nat
        BY <4>3, SameFacts
      <4>5. QED
        BY <2>2, <4>2, <4>4
    <3>3. QED
      BY <3>1, <3>2
  <2>3. QED
    BY <1>3, <2>1, <2>2 DEF Lowered
<1>4. QED
  BY <1>2, <1>3 DEF Lowered

\* g is still the table f on k's path above the level m.
SameAbove(f, g, k, m) ==
  \A l \in Level : l < m => /\ Prefix(k, l) \in DOMAIN g <=> Prefix(k, l) \in DOMAIN f
                            /\ Prefix(k, l) \in DOMAIN f => g[Prefix(k, l)] = f[Prefix(k, l)]

\* h is the table g whose nodes on k's path above the level m took k for their
\* smallest key where it is smaller.
PushedUp(f, g, h, k, m) ==
  /\ DOMAIN h = DOMAIN g /\ h = [p \in DOMAIN h |-> h[p]]
  /\ \A p \in DOMAIN g : (\A l \in Level : l < m => p # Prefix(k, l)) => h[p] = g[p]
  /\ \A l \in Level : l < m /\ Prefix(k, l) \in DOMAIN f =>
       LET n == f[Prefix(k, l)]
       IN  h[Prefix(k, l)] = [dlen |-> n.dlen, mkey |-> Lower(k, n.mkey), kids |-> n.kids]

\* PushUp in a table that is still the old one above the level m.
LEMMA PushUpFacts ==
  ASSUME NEW f, NEW S, Tree(f, S), S \subseteq Key, NEW k \in Key,
         NEW m \in Level, Prefix(k, m) \in DOMAIN f,
         NEW g, g = [p \in DOMAIN g |-> g[p]],
         SameAbove(f, g, k, m),
         NEW h, h = IF k < f[Prefix(k, m)].mkey THEN PushUp(g, k, m) ELSE g
  PROVE  PushedUp(f, g, h, k, m)
<1> USE DEF SameAbove, PushedUp
<1>1. /\ m \in Nat /\ (TopLen + 1)..(m - 1) \subseteq Level
      /\ \A l \in (TopLen + 1)..(m - 1) : l < m /\ l..(m - 1) \subseteq (TopLen + 1)..(m - 1)
      /\ \A l \in Level : l \in 0..KeyLen
  BY LengthFacts DEF Level
<1>2. ASSUME NEW l \in Level, l < m, Prefix(k, l) \in DOMAIN f
      PROVE  LET n == f[Prefix(k, l)]
             IN  /\ n = [dlen |-> n.dlen, mkey |-> n.mkey, kids |-> n.kids]
                 /\ n.mkey \in Nat /\ k \in Nat
                 /\ n.mkey <= f[Prefix(k, m)].mkey /\ f[Prefix(k, m)].mkey \in Nat
                 /\ Prefix(k, l) \in DOMAIN g /\ g[Prefix(k, l)] = n
  <2>1. Node(S, k, l, f[Prefix(k, l)]) /\ Node(S, k, m, f[Prefix(k, m)])
    BY <1>2, TreeAt
  <2>2. f[Prefix(k, l)].mkey \in Key /\ f[Prefix(k, m)].mkey \in Key
    BY <2>1 DEF Node
  <2>3. f[Prefix(k, l)].mkey \in Nat /\ f[Prefix(k, m)].mkey \in Nat /\ k \in Nat
    BY <2>2, SameFacts
  <2>4. f[Prefix(k, l)].mkey <= f[Prefix(k, m)].mkey
    BY <1>2, NodeAbove
  <2>5. QED
    BY <1>2, <2>1, <2>3, <2>4 DEF Node
<1>3. CASE k < f[Prefix(k, m)].mkey
  <2> DEFINE L == Lowered(f, k, m)
  <2>1. Lowered(g, k, m) = L
    BY <1>1 DEF Lowered
  <2>2. h = [p \in DOMAIN g |-> IF \E l \in L : p = Prefix(k, l)
                                THEN [g[p] EXCEPT !.mkey = k] ELSE g[p]]
    BY <1>3, <2>1 DEF PushUp
  <2>3. /\ L \subseteq Level
        /\ \A l \in L : l < m /\ Prefix(k, l) \in DOMAIN f
        /\ \A l \in Level : l < m /\ Prefix(k, l) \in DOMAIN f =>
              (l \in L <=> k < f[Prefix(k, l)].mkey)
    BY <1>3, LoweredFacts
  <2> HIDE DEF L
  <2>4. ASSUME NEW l \in Level, l < m, Prefix(k, l) \in DOMAIN f
        PROVE  LET n == f[Prefix(k, l)]
               IN  h[Prefix(k, l)] = [dlen |-> n.dlen, mkey |-> Lower(k, n.mkey), kids |-> n.kids]
    <3> DEFINE n == f[Prefix(k, l)]
               p == Prefix(k, l)
    <3>1. (\E i \in L : p = Prefix(k, i)) <=> l \in L
      BY <1>1, <2>3, PrefixFacts
    <3>2. /\ n = [dlen |-> n.dlen, mkey |-> n.mkey, kids |-> n.kids]
          /\ n.mkey \in Nat /\ k \in Nat /\ p \in DOMAIN g /\ g[p] = n
      BY <1>2, <2>4
    <3>3. l \in L <=> k < n.mkey
      BY <2>3, <2>4
    <3>4. h[p] = IF l \in L THEN [n EXCEPT !.mkey = k] ELSE n
      BY <2>2, <3>1, <3>2
    <3> HIDE DEF n, p
    <3>5. [n EXCEPT !.mkey = k] = [dlen |-> n.dlen, mkey |-> k, kids |-> n.kids]
      BY <3>2
    <3>6. h[p] = [dlen |-> n.dlen, mkey |-> Lower(k, n.mkey), kids |-> n.kids]
      BY <3>2, <3>3, <3>4, <3>5 DEF Lower
    <3>7. QED
      BY <3>6 DEF n, p
  <2>5. ASSUME NEW p \in DOMAIN g, \A l \in Level : l < m => p # Prefix(k, l)
        PROVE  h[p] = g[p]
    BY <2>2, <2>3, <2>5
  <2>6. DOMAIN h = DOMAIN g /\ h = [p \in DOMAIN h |-> h[p]]
    BY <2>2
  <2>7. QED
    BY <2>4, <2>5, <2>6
<1>4. CASE ~(k < f[Prefix(k, m)].mkey)
  <2>1. ASSUME NEW l \in Level, l < m, Prefix(k, l) \in DOMAIN f
        PROVE  LET n == f[Prefix(k, l)]
               IN  h[Prefix(k, l)] = [dlen |-> n.dlen, mkey |-> Lower(k, n.mkey), kids |-> n.kids]
    <3>1. Lower(k, f[Prefix(k, l)].mkey) = f[Prefix(k, l)].mkey
      BY <1>2, <1>4, <2>1 DEF Lower
    <3>2. QED
      BY <1>2, <1>4, <2>1, <3>1
  <2>2. QED
    BY <1>4, <2>1
<1>5. QED
  BY <1>3, <1>4

\* The two ways in which the deepest node on the path changes.
LEMMA ChildFacts ==
  ASSUME NEW f, f = [r \in DOMAIN f |-> f[r]], NEW p \in DOMAIN f, NEW k,
         f[p] = [dlen |-> f[p].dlen, mkey |-> f[p].mkey, kids |-> f[p].kids],
         NEW g, g = AddedChild(f, p, k)
  PROVE  /\ DOMAIN g = DOMAIN f /\ g = [r \in DOMAIN g |-> g[r]]
         /\ g[p] = [dlen |-> f[p].dlen, mkey |-> Lower(k, f[p].mkey),
                    kids |-> f[p].kids \cup {DigitAfter(k, f[p].dlen)}]
         /\ \A r \in DOMAIN f : r # p => g[r] = f[r]
BY DEF AddedChild

\* What SplitNode changes.
LEMMA SplitFacts ==
  ASSUME NEW f, NEW p \in DOMAIN f, NEW k, NEW c, Prefix(f[p].mkey, c + 1) # p,
         NEW g, g = SplitNode(f, p, c, k)
  PROVE  /\ DOMAIN g = DOMAIN f \cup {Prefix(f[p].mkey, c + 1)}
         /\ g = [r \in DOMAIN g |-> g[r]]
         /\ g[p] = [dlen |-> c, mkey |-> Lower(k, f[p].mkey),
                    kids |-> {DigitAfter(f[p].mkey, c), DigitAfter(k, c)}]
         /\ g[Prefix(f[p].mkey, c + 1)] = f[p]
         /\ \A r \in DOMAIN f : r # p /\ r # Prefix(f[p].mkey, c + 1) => g[r] = f[r]
BY DEF SplitNode, SetNode

\* A node above the deepest one takes k for its smallest key if it is smaller.
LEMMA AboveGrown ==
  ASSUME NEW f, NEW S, Tree(f, S), S \subseteq Key, NEW k \in Key,
         NEW m \in Level, Prefix(k, m) \in DOMAIN f,
         NEW l \in Level, l < m, Prefix(k, l) \in DOMAIN f,
         NEW n, n = f[Prefix(k, l)]
  PROVE  Node(S \cup {k}, k, l, [dlen |-> n.dlen, mkey |-> Lower(k, n.mkey), kids |-> n.kids])
<1>1. n.dlen \in l..(m - 1) /\ Same(n.mkey, k, n.dlen)
  BY NodeAbove
<1>2. Node(S, k, l, n)
  BY TreeAt
<1>3. /\ m \in Nat /\ l \in Nat /\ m <= KeyLen /\ KeyLen \in Nat
      /\ m \in 0..KeyLen /\ l \in 0..KeyLen
  BY LengthFacts
<1>4. /\ n.dlen \in 0..KeyLen /\ n.dlen < KeyLen /\ n.dlen + 1 \in 0..KeyLen
      /\ n.dlen + 1 <= m
  BY <1>1, <1>3
<1>5. PICK w \in S : Same(w, k, m)
  BY TreeAt
<1>6. w \in Key /\ Same(w, k, n.dlen + 1) /\ Same(w, k, l)
  BY <1>3, <1>4, <1>5, SameShorter
<1>7. DigitAfter(w, n.dlen) = DigitAfter(k, n.dlen)
  BY <1>4, <1>6, SameNext
<1>8. DigitAfter(k, n.dlen) \in n.kids
  BY <1>2, <1>4, <1>6, <1>7 DEF Node
<1>9. \A d : d \in n.kids <=> d \in n.kids \/ d = DigitAfter(k, n.dlen)
  BY <1>8
<1>10. QED
  BY <1>1, <1>2, <1>4, <1>9, NodeLowered

\* The deepest node's string is a prefix of k: it gets a child.
LEMMA GrownChild ==
  ASSUME NEW t, NEW S, Tree(t.node, S), S \subseteq Key, NEW k \in Key,
         NEW q, q = QueryLCP(t, k), q.lcp # TopLen, q.lcp < KeyLen,
         q.lcp = t.node[Prefix(k, q.ilen)].dlen
  PROVE  Grown(t.node, SetNode(WithPath(t.node, k, q), Prefix(k, q.lcp + 1), Leaf(k)),
               S, k, q.lcp)
<1> DEFINE f == t.node
           m == q.ilen
           c == q.lcp
           p == Prefix(k, m)
           n == f[p]
           g == AddedChild(f, p, k)
           h == IF k < n.mkey THEN PushUp(g, k, m) ELSE g
           v == Prefix(k, c + 1)
           z == SetNode(h, v, Leaf(k))
           T == S \cup {k}
<1>1. WithPath(f, k, q) = h
  BY DEF WithPath
<1>2. c \in TopLen..KeyLen /\ Deepest(t, S, k, q)
      /\ \A u \in S, i \in Level : Same(u, k, i) => i <= c
  BY QueryFacts
<1>3. /\ m \in Level /\ p \in DOMAIN f /\ m <= c /\ Node(S, k, m, n) /\ Same(n.mkey, k, c)
      /\ n.dlen = c /\ \A l \in PathLevels(t, k) : l <= m
  BY <1>2 DEF Deepest
<1>4. /\ c \in TopLen..(KeyLen - 1) /\ c \in Nat /\ c + 1 \in 0..KeyLen /\ c \in 0..KeyLen
      /\ m \in Nat /\ m \in 0..KeyLen /\ c < KeyLen /\ c # TopLen
      /\ \A l \in Level : l \in Nat /\ l \in 0..KeyLen
  BY <1>2, <1>3, LengthFacts
<1>5. f = [r \in DOMAIN f |-> f[r]]
  BY DEF Tree
<1>6. n = [dlen |-> n.dlen, mkey |-> n.mkey, kids |-> n.kids] /\ n.mkey \in S
  BY <1>3 DEF Node
<1> DEFINE N == [dlen |-> n.dlen, mkey |-> Lower(k, n.mkey),
                 kids |-> n.kids \cup {DigitAfter(k, n.dlen)}]
<1>7. /\ DOMAIN g = DOMAIN f /\ g = [r \in DOMAIN g |-> g[r]]
      /\ g[p] = N /\ \A r \in DOMAIN f : r # p => g[r] = f[r]
  BY <1>3, <1>5, <1>6, ChildFacts
<1> HIDE DEF g
<1>8. \A l \in Level : l < m => Prefix(k, l) # p
  BY <1>4, PrefixFacts
<1>9. /\ DOMAIN h = DOMAIN g /\ h = [r \in DOMAIN h |-> h[r]]
      /\ \A r \in DOMAIN g : (\A l \in Level : l < m => r # Prefix(k, l)) => h[r] = g[r]
      /\ \A l \in Level : l < m /\ Prefix(k, l) \in DOMAIN f =>
           LET b == f[Prefix(k, l)]
           IN  h[Prefix(k, l)] = [dlen |-> b.dlen, mkey |-> Lower(k, b.mkey), kids |-> b.kids]
  <2>1. /\ Tree(f, S) /\ m \in Level /\ Prefix(k, m) \in DOMAIN f
        /\ g = [r \in DOMAIN g |-> g[r]]
        /\ h = IF k < f[Prefix(k, m)].mkey THEN PushUp(g, k, m) ELSE g
    BY <1>3, <1>7
  <2>2. SameAbove(f, g, k, m)
    BY <1>7, <1>8 DEF SameAbove
  <2> HIDE DEF f, m, h
  <2>3. PushedUp(f, g, h, k, m)
    BY <2>1, <2>2, PushUpFacts
  <2>4. QED
    BY <2>3 DEF PushedUp
<1> HIDE DEF h
<1>10. /\ DOMAIN z = DOMAIN f \cup {v} /\ z = [r \in DOMAIN z |-> z[r]] /\ z[v] = Leaf(k)
       /\ \A r \in DOMAIN f : r # v => z[r] = h[r]
  BY <1>7, <1>9 DEF SetNode
<1> HIDE DEF z
<1>11. ASSUME NEW l \in Level, l <= c
       PROVE  Prefix(k, l) # v
  BY <1>4, <1>11, PrefixFacts
<1>12. ASSUME NEW l \in Level, l <= c, Prefix(k, l) \in DOMAIN f
       PROVE  Node(T, k, l, z[Prefix(k, l)])
  <2>1. l <= m
    BY <1>3, <1>12 DEF PathLevels, Has
  <2>2. CASE l = m
    <3>1. p \in DOMAIN g /\ p # v
      BY <1>3, <1>7, <1>11
    <3>2. h[p] = g[p]
      BY <1>8, <1>9, <3>1
    <3>3. z[p] = N
      BY <1>3, <1>7, <1>10, <3>1, <3>2
    <3>4. Node(T, k, m, N)
      BY <1>3, <1>4, NodeLowered
    <3>5. QED
      BY <2>2, <3>3, <3>4
  <2>3. CASE l # m
    <3> DEFINE b == f[Prefix(k, l)]
               B == [dlen |-> b.dlen, mkey |-> Lower(k, b.mkey), kids |-> b.kids]
    <3>1. l < m
      BY <1>4, <2>1, <2>3
    <3>2. z[Prefix(k, l)] = B
      BY <1>9, <1>10, <1>11, <1>12, <3>1
    <3>3. Node(T, k, l, B)
      BY <1>3, <1>12, <3>1, AboveGrown
    <3>4. QED
      BY <3>2, <3>3
  <2>4. QED
    BY <2>2, <2>3
<1>13. ASSUME NEW s \in S, NEW l \in Level, Branches(S, s, l), ~Same(s, k, l)
       PROVE  z[Prefix(s, l)] = f[Prefix(s, l)]
  <2>1. Same(s, s, l) /\ s \in Key
    BY DEF Same
  <2>2. Prefix(s, l) \in DOMAIN f
    BY <1>13, <2>1, TreeAt
  <2>3. /\ Prefix(s, l) # v /\ Prefix(s, l) # p
        /\ \A i \in Level : Prefix(s, l) # Prefix(k, i)
    BY <1>3, <1>4, <1>13, <2>1, PrefixFacts
  <2>4. QED
    BY <1>7, <1>9, <1>10, <2>2, <2>3
<1>14. ASSUME NEW s \in S, Same(s, k, c)
       PROVE  Branches(S, s, c + 1)
  <2>1. Same(s, k, m)
    BY <1>3, <1>4, <1>14, SameShorter
  <2>2. QED
    BY <1>3, <1>4, <2>1, NodeBelow
<1>15. \E w \in S : Same(w, k, c)
  BY <1>3, <1>6
<1>16. Grown(f, z, S, k, c)
  BY <1>2, <1>4, <1>10, <1>12, <1>13, <1>14, <1>15 DEF Grown
<1>17. QED
  BY <1>1, <1>16 DEF z

\* A node that is split after c digits, all its keys being below the lower part.
LEMMA NodeSplit ==
  ASSUME NEW S, S \subseteq Key, NEW k \in Key, NEW m \in Level, NEW n, Node(S, k, m, n),
         NEW c \in m..KeyLen, c < n.dlen, Same(n.mkey, k, c), ~Same(n.mkey, k, c + 1)
  PROVE  /\ Node(S \cup {k}, k, m,
                 [dlen |-> c, mkey |-> Lower(k, n.mkey),
                  kids |-> {DigitAfter(n.mkey, c), DigitAfter(k, c)}])
         /\ \A s \in S : Same(s, k, c) => /\ Same(s, n.mkey, c + 1)
                                          /\ Node(S \cup {k}, s, c + 1, n)
<1> DEFINE T == S \cup {k}
           o == n.mkey
           d == n.dlen
           h == Lower(k, o)
           K == {DigitAfter(o, c), DigitAfter(k, c)}
<1>1. /\ m \in Nat /\ m \in 0..KeyLen /\ c \in 0..KeyLen /\ c \in Nat /\ m <= c
      /\ KeyLen \in Nat
  BY LengthFacts
<1>2. /\ n = [dlen |-> d, mkey |-> o, kids |-> n.kids] /\ d \in m..KeyLen /\ d \in 0..KeyLen
      /\ d \in Nat /\ o \in S /\ o \in Key
      /\ \A u \in S : Same(u, k, m) => o <= u /\ Same(u, o, d)
  BY <1>1 DEF Node
<1>3. c < KeyLen /\ c + 1 \in 0..KeyLen /\ c + 1 <= d
  BY <1>1, <1>2
<1>4. ASSUME NEW s \in S, Same(s, k, m)
      PROVE  Same(s, o, c + 1) /\ Same(s, o, c)
  BY <1>1, <1>2, <1>3, <1>4, SameShorter
<1>5. ASSUME NEW s \in S, Same(s, k, c)
      PROVE  Same(s, k, m)
  BY <1>1, <1>5, SameShorter
<1>6. ASSUME NEW s \in S, Same(s, k, c)
      PROVE  Same(s, o, c + 1) /\ Node(T, s, c + 1, n)
  <2>1. Same(s, o, c + 1) /\ Same(s, k, m)
    BY <1>4, <1>5, <1>6
  <2>2. ~Same(k, s, c + 1)
    BY <2>1 DEF Same
  <2>3. ASSUME NEW u \in T
        PROVE  Same(u, s, c + 1) <=> u \in S /\ Same(u, k, m)
    <3>1. ASSUME u \in S, Same(u, k, m)
          PROVE  Same(u, s, c + 1)
      BY <1>4, <2>1, <3>1 DEF Same
    <3>2. ASSUME Same(u, s, c + 1)
          PROVE  u \in S /\ Same(u, k, m)
      <4>1. u \in S /\ u \in Key /\ s \in Key
        BY <2>2, <3>2
      <4>2. Same(u, s, c)
        BY <1>1, <1>3, <3>2, <4>1, SameShorter
      <4>3. Same(u, k, c)
        BY <1>6, <4>2 DEF Same
      <4>4. QED
        BY <1>5, <4>1, <4>3
    <3>3. QED
      BY <3>1, <3>2
  <2>4. d \in (c + 1)..KeyLen
    BY <1>1, <1>2, <1>3
  <2>5. o \in T /\ Same(o, s, c + 1)
    BY <1>2, <2>1 DEF Same
  <2>6. d < KeyLen => \E u \in S : Same(u, k, m) /\ ~Same(u, o, d + 1)
    BY DEF Node
  <2>7. \A e : e \in n.kids <=> d < KeyLen /\ \E u \in S : Same(u, k, m) /\ e = DigitAfter(u, d)
    BY DEF Node
  <2> HIDE DEF o, d
  <2>8. Node(T, s, c + 1, n)
    BY <1>2, <2>3, <2>4, <2>5, <2>6, <2>7 DEF Node, o, d
  <2>9. QED
    BY <2>1, <2>8 DEF o
<1>7. Node(T, k, m, [dlen |-> c, mkey |-> h, kids |-> K])
  <2>1. k \in Nat /\ o \in Nat /\ \A u \in S : u \in Nat
    BY <1>2, SameFacts
  <2>2. h \in {k, o} /\ h <= k /\ h <= o /\ h \in Nat
    BY <2>1 DEF Lower
  <2>3. Same(o, k, c) /\ ~Same(o, k, c + 1) /\ Same(o, k, m)
    BY <1>2, <1>5
  <2> HIDE DEF o, h, d
  <2>4. c \in m..KeyLen /\ h \in T /\ Same(h, k, m)
    BY <1>2, <2>2, <2>3 DEF Same
  <2>5. ASSUME NEW u \in T, Same(u, k, m)
        PROVE  h <= u /\ Same(u, h, c)
    <3>1. u = k \/ (u \in S /\ o <= u /\ Same(u, o, c))
      BY <1>2, <1>4, <2>5
    <3>2. u \in Nat /\ h <= u
      BY <2>1, <2>2, <3>1
    <3>3. Same(u, h, c)
      BY <2>2, <2>3, <3>1 DEF Same
    <3>4. QED
      BY <3>2, <3>3
  <2>6. \E u \in T : Same(u, k, m) /\ ~Same(u, h, c + 1)
    <3>1. o \in T /\ k \in T /\ Same(k, k, m)
      BY <1>2 DEF Same
    <3>2. ~Same(o, h, c + 1) \/ ~Same(k, h, c + 1)
      BY <2>2, <2>3 DEF Same
    <3>3. QED
      BY <2>3, <3>1, <3>2
  <2>7. ASSUME NEW e
        PROVE  e \in K <=> \E u \in T : Same(u, k, m) /\ e = DigitAfter(u, c)
    <3>1. ASSUME NEW u \in T, Same(u, k, m)
          PROVE  DigitAfter(u, c) \in K
      <4>1. CASE u = k
        BY <4>1
      <4>2. CASE u # k
        <5>1. u \in S /\ u \in Key /\ Same(u, o, c + 1)
          BY <1>4, <3>1, <4>2
        <5>2. DigitAfter(u, c) = DigitAfter(o, c)
          BY <1>1, <1>2, <1>3, <5>1, SameNext
        <5>3. QED
          BY <5>2
      <4>3. QED
        BY <4>1, <4>2
    <3>2. o \in T /\ k \in T /\ Same(k, k, m) /\ Same(o, k, m)
      BY <1>2, <2>3 DEF Same
    <3>3. QED
      BY <3>1, <3>2
  <2> HIDE DEF K
  <2>8. QED
    BY <1>3, <2>4, <2>5, <2>6, <2>7 DEF Node
<1>8. QED
  BY <1>6, <1>7

\* The deepest node's string parts from k after c digits: the node is split.
LEMMA GrownSplit ==
  ASSUME NEW t, NEW S, Tree(t.node, S), S \subseteq Key, NEW k \in Key,
         NEW q, q = QueryLCP(t, k), q.lcp # TopLen, q.lcp < KeyLen,
         q.lcp # t.node[Prefix(k, q.ilen)].dlen
  PROVE  Grown(t.node, SetNode(WithPath(t.node, k, q), Prefix(k, q.lcp + 1), Leaf(k)),
               S, k, q.lcp)
<1> DEFINE f == t.node
           m == q.ilen
           c == q.lcp
           p == Prefix(k, m)
           n == f[p]
           o == n.mkey
           w == Prefix(o, c + 1)
           g == SplitNode(f, p, c, k)
           h == IF k < n.mkey THEN PushUp(g, k, m) ELSE g
           v == Prefix(k, c + 1)
           z == SetNode(h, v, Leaf(k))
           T == S \cup {k}
<1>1. WithPath(f, k, q) = h
  BY DEF WithPath
<1>2. c \in TopLen..KeyLen /\ Deepest(t, S, k, q)
      /\ \A u \in S, i \in Level : Same(u, k, i) => i <= c
  BY QueryFacts
<1>3. /\ m \in Level /\ p \in DOMAIN f /\ m <= c /\ Node(S, k, m, n) /\ Same(o, k, c)
      /\ c <= n.dlen /\ \A l \in PathLevels(t, k) : l <= m
  BY <1>2 DEF Deepest
<1>4. /\ c \in TopLen..(KeyLen - 1) /\ c \in Nat /\ c + 1 \in 0..KeyLen /\ c \in 0..KeyLen
      /\ m \in Nat /\ m \in 0..KeyLen /\ c < KeyLen /\ c # TopLen /\ c \in m..KeyLen
      /\ c + 1 \in Level
      /\ \A l \in Level : l \in Nat /\ l \in 0..KeyLen
  BY <1>2, <1>3, LengthFacts DEF Level
<1>5. f = [r \in DOMAIN f |-> f[r]]
  BY DEF Tree
<1>6. o \in S /\ o \in Key /\ n.dlen \in m..KeyLen
  BY <1>3 DEF Node
<1>7. c < n.dlen
  BY <1>3, <1>4, <1>6
<1>8. ~Same(o, k, c + 1)
  BY <1>2, <1>4, <1>6
<1> DEFINE N == [dlen |-> c, mkey |-> Lower(k, o),
                 kids |-> {DigitAfter(o, c), DigitAfter(k, c)}]
<1>9. /\ Node(T, k, m, N)
      /\ \A s \in S : Same(s, k, c) => Same(s, o, c + 1) /\ Node(T, s, c + 1, n)
  BY <1>3, <1>4, <1>7, <1>8, NodeSplit
<1>10. w # p /\ w # v /\ \A l \in Level : w # Prefix(k, l)
  <2>1. \A l \in 0..KeyLen : w # Prefix(k, l)
    <3>1. ASSUME NEW l \in 0..KeyLen, w = Prefix(k, l)
          PROVE  FALSE
      BY <1>4, <1>6, <1>8, <3>1, PrefixFacts
    <3>2. QED
      BY <3>1
  <2>2. QED
    BY <1>4, <2>1
<1>11. /\ DOMAIN g = DOMAIN f \cup {w} /\ g = [r \in DOMAIN g |-> g[r]]
       /\ g[p] = N /\ g[w] = n /\ \A r \in DOMAIN f : r # p /\ r # w => g[r] = f[r]
  <2> HIDE DEF f, p, c, m
  <2>1. p \in DOMAIN f /\ Prefix(f[p].mkey, c + 1) # p
    BY <1>3, <1>10
  <2>2. QED
    BY <2>1, SplitFacts
<1> HIDE DEF g
<1>12. \A l \in Level : l < m => Prefix(k, l) # p
  BY <1>4, PrefixFacts
<1>13. \A l \in Level : l < m => /\ Prefix(k, l) \in DOMAIN g <=> Prefix(k, l) \in DOMAIN f
                                 /\ Prefix(k, l) \in DOMAIN f =>
                                      g[Prefix(k, l)] = f[Prefix(k, l)]
  BY <1>10, <1>11, <1>12
<1>14. /\ DOMAIN h = DOMAIN g /\ h = [r \in DOMAIN h |-> h[r]]
       /\ \A r \in DOMAIN g : (\A l \in Level : l < m => r # Prefix(k, l)) => h[r] = g[r]
       /\ \A l \in Level : l < m /\ Prefix(k, l) \in DOMAIN f =>
            LET b == f[Prefix(k, l)]
            IN  h[Prefix(k, l)] = [dlen |-> b.dlen, mkey |-> Lower(k, b.mkey), kids |-> b.kids]
  <2>1. /\ Tree(f, S) /\ m \in Level /\ Prefix(k, m) \in DOMAIN f
        /\ g = [r \in DOMAIN g |-> g[r]]
        /\ h = IF k < f[Prefix(k, m)].mkey THEN PushUp(g, k, m) ELSE g
    BY <1>3, <1>11
  <2>2. SameAbove(f, g, k, m)
    BY <1>13 DEF SameAbove
  <2> HIDE DEF f, m, h
  <2>3. PushedUp(f, g, h, k, m)
    BY <2>1, <2>2, PushUpFacts
  <2>4. QED
    BY <2>3 DEF PushedUp
<1> HIDE DEF h
<1>15. /\ DOMAIN z = DOMAIN f \cup {w, v} /\ z = [r \in DOMAIN z |-> z[r]] /\ z[v] = Leaf(k)
       /\ \A r \in DOMAIN f \cup {w} : r # v => z[r] = h[r]
  BY <1>11, <1>14 DEF SetNode
<1> HIDE DEF z
<1>16. ASSUME NEW l \in Level, l <= c
       PROVE  Prefix(k, l) # v
  BY <1>4, <1>16, PrefixFacts
<1>17. ASSUME NEW l \in Level, l <= c, Prefix(k, l) \in DOMAIN f
       PROVE  Node(T, k, l, z[Prefix(k, l)])
  <2>1. l <= m
    BY <1>3, <1>17 DEF PathLevels, Has
  <2>2. CASE l = m
    <3>1. p \in DOMAIN g /\ p # v
      BY <1>3, <1>11, <1>16
    <3>2. h[p] = g[p]
      BY <1>12, <1>14, <3>1
    <3>3. z[p] = N
      BY <1>3, <1>11, <1>15, <3>1, <3>2
    <3>4. QED
      BY <1>9, <2>2, <3>3
  <2>3. CASE l # m
    <3> DEFINE b == f[Prefix(k, l)]
               B == [dlen |-> b.dlen, mkey |-> Lower(k, b.mkey), kids |-> b.kids]
    <3>1. l < m
      BY <1>4, <2>1, <2>3
    <3>2. z[Prefix(k, l)] = B
      BY <1>14, <1>15, <1>16, <1>17, <3>1
    <3>3. Node(T, k, l, B)
      BY <1>3, <1>17, <3>1, AboveGrown
    <3>4. QED
      BY <3>2, <3>3
  <2>4. QED
    BY <2>2, <2>3
<1>18. ASSUME NEW s \in S, Same(s, k, c)
       PROVE  /\ Prefix(s, c + 1) = w
              /\ w \in DOMAIN z /\ z[w] = n /\ Node(T, s, c + 1, n)
  <2>1. Same(s, o, c + 1) /\ Node(T, s, c + 1, n) /\ s \in Key
    BY <1>9, <1>18
  <2>2. Prefix(s, c + 1) = w
    BY <1>4, <1>6, <2>1, PrefixFacts
  <2>3. w \in DOMAIN g /\ z[w] = n
    <3>1. w \in DOMAIN g /\ g[w] = n
      BY <1>11
    <3>2. h[w] = g[w]
      BY <1>10, <1>14, <3>1
    <3>3. z[w] = h[w]
      BY <1>10, <1>15
    <3>4. QED
      BY <3>1, <3>2, <3>3
  <2>4. QED
    BY <1>15, <2>1, <2>2, <2>3
<1>19. w \notin DOMAIN f
  <2>1. SUFFICES ASSUME w \in DOMAIN f
                 PROVE  FALSE
    OBVIOUS
  <2>2. Branches(S, o, c + 1)
    BY <1>4, <1>6, <2>1, TreeAt
  <2>3. c + 1 # TopLen + 1 /\ (c + 1) - 1 = c
    BY <1>4, LengthFacts
  <2>4. PICK u \in S : Same(u, o, c) /\ ~Same(u, o, c + 1)
    BY <2>2, <2>3 DEF Branches
  <2>5. Same(u, k, c)
    BY <1>3, <2>4 DEF Same
  <2>6. QED
    BY <1>9, <2>4, <2>5
<1>20. ASSUME NEW s \in S, NEW l \in Level, Branches(S, s, l), ~Same(s, k, l)
       PROVE  z[Prefix(s, l)] = f[Prefix(s, l)]
  <2>1. Same(s, s, l) /\ s \in Key
    BY DEF Same
  <2>2. Prefix(s, l) \in DOMAIN f
    BY <1>20, <2>1, TreeAt
  <2>3. /\ Prefix(s, l) # v /\ Prefix(s, l) # p /\ Prefix(s, l) # w
        /\ \A i \in Level : Prefix(s, l) # Prefix(k, i)
    BY <1>3, <1>4, <1>19, <1>20, <2>1, <2>2, PrefixFacts
  <2>4. QED
    BY <1>11, <1>14, <1>15, <2>2, <2>3
<1>21. Same(o, k, c) /\ w = Prefix(o, c + 1) /\ \E u \in S : Same(u, k, c)
  BY <1>3, <1>6
<1>22. \A r \in DOMAIN z : \/ r \in DOMAIN f \cup {v}
                           \/ \E s \in S : Same(s, k, c) /\ r = Prefix(s, c + 1)
  BY <1>6, <1>15, <1>21
<1>23. \A s \in S : c # TopLen /\ Same(s, k, c) /\ ~Branches(S, s, c + 1) =>
         Prefix(s, c + 1) \in DOMAIN z /\ Node(T, s, c + 1, z[Prefix(s, c + 1)])
  BY <1>18
<1>24. DOMAIN f \subseteq DOMAIN z /\ v \in DOMAIN z /\ z[v] = Leaf(k)
       /\ z = [r \in DOMAIN z |-> z[r]]
  BY <1>15
<1> HIDE DEF v, w, p, n, o, m, N
<1>25. Grown(f, z, S, k, c)
  BY <1>2, <1>4, <1>17, <1>20, <1>21, <1>22, <1>23, <1>24 DEF Grown, v
<1>26. QED
  BY <1>1, <1>25 DEF z, v

\* The flat bitmaps have the short prefixes of all keys.
Flat(S) == UNION {{Prefix(s, n) : n \in 1..(TopLen + 1)} : s \in S}

\* A bit is set just when a key has that prefix.
LEMMA FlatAt ==
  ASSUME NEW S, S \subseteq Key, NEW k \in Key, NEW n \in 1..(TopLen + 1)
  PROVE  Prefix(k, n) \in Flat(S) <=> \E s \in S : Same(s, k, n)
<1>1. n \in 0..KeyLen /\ \A i \in 1..(TopLen + 1) : i \in 0..KeyLen
  BY LengthFacts
<1>2. ASSUME Prefix(k, n) \in Flat(S)
      PROVE  \E s \in S : Same(s, k, n)
  <2>1. PICK s \in S, i \in 1..(TopLen + 1) : Prefix(k, n) = Prefix(s, i)
    BY <1>2 DEF Flat
  <2>2. s \in Key /\ i = n
    BY <1>1, <2>1, PrefixFacts
  <2>3. Same(k, s, n)
    BY <1>1, <2>1, <2>2, PrefixFacts
  <2>4. QED
    BY <2>3 DEF Same
<1>3. ASSUME NEW s \in S, Same(s, k, n)
      PROVE  Prefix(k, n) \in Flat(S)
  <2>1. s \in Key /\ Prefix(s, n) = Prefix(k, n)
    BY <1>1, <1>3, PrefixFacts
  <2>2. QED
    BY <2>1 DEF Flat
<1>4. QED
  BY <1>2, <1>3

\* The trie of a set of keys.
TrieOf(t, S) == Tree(t.node, S) /\ t.flat = Flat(S)

\* The flat bitmaps know the first digits of every key on whose path a node is.
LEMMA FlatQuery ==
  ASSUME NEW t, NEW S, TrieOf(t, S), S \subseteq Key, NEW k \in Key
  PROVE  /\ QueryLCP(t, k).lcp # TopLen =>
              \A n \in 1..(TopLen + 1) : Prefix(k, n) \in t.flat
         /\ Prefix(k, TopLen) \notin t.flat =>
              QueryLCP(t, k) = [ilen |-> 0, lcp |-> TopLen]
<1> DEFINE q == QueryLCP(t, k)
<1>1. /\ q.lcp \in TopLen..KeyLen
      /\ q.lcp = TopLen => q = [ilen |-> 0, lcp |-> TopLen]
      /\ q.lcp # TopLen => Deepest(t, S, k, q)
  BY QueryFacts DEF TrieOf
<1>2. ASSUME q.lcp # TopLen, NEW n \in 1..(TopLen + 1)
      PROVE  Prefix(k, n) \in t.flat
  <2>1. PICK s \in S : Same(s, k, q.lcp)
    BY <1>1, <1>2 DEF Deepest, Node
  <2> HIDE DEF q
  <2>2. n <= q.lcp /\ n \in 0..KeyLen /\ q.lcp \in 0..KeyLen /\ s \in Key
    BY <1>1, <1>2, LengthFacts
  <2>3. Same(s, k, n)
    BY <2>1, <2>2, SameShorter
  <2>4. QED
    BY <2>3, FlatAt DEF TrieOf
<1>3. TopLen \in 1..(TopLen + 1)
  BY LengthFacts
<1>4. QED
  BY <1>1, <1>2, <1>3

\* The nodes that InsertInto makes are the tree of one key more.
LEMMA InsertTree ==
  ASSUME NEW t, NEW S, Tree(t.node, S), S \subseteq Key, NEW k \in Key,
         NEW q, q = QueryLCP(t, k), q.lcp # KeyLen,
         NEW f, f = IF q.lcp > TopLen THEN WithPath(t.node, k, q) ELSE t.node,
         NEW g, g = SetNode(f, Prefix(k, q.lcp + 1), Leaf(k))
  PROVE  Grown(t.node, g, S, k, q.lcp) /\ Tree(g, S \cup {k})
<1>1. KeyLen \in Nat /\ TopLen \in Nat /\ q.lcp \in TopLen..KeyLen
  BY LengthFacts, QueryFacts
<1>2. Grown(t.node, g, S, k, q.lcp)
  <2>1. CASE q.lcp = TopLen
    <3>1. g = SetNode(t.node, Prefix(k, TopLen + 1), Leaf(k))
      BY <1>1, <2>1
    <3>2. QED
      BY <2>1, <3>1, GrownFlat
  <2>2. CASE q.lcp # TopLen
    <3>1. q.lcp > TopLen /\ q.lcp < KeyLen
      BY <1>1, <2>2
    <3>2. g = SetNode(WithPath(t.node, k, q), Prefix(k, q.lcp + 1), Leaf(k))
      BY <3>1
    <3>3. QED
      BY <2>2, <3>1, <3>2, GrownChild, GrownSplit
  <2>3. QED
    BY <2>1, <2>2
<1>3. QED
  BY <1>2, GrownTree

\* The bits that InsertInto sets are those of one key more.
LEMMA FlatInserted ==
  ASSUME NEW t, NEW S, t.flat = Flat(S), S \subseteq Key, NEW k \in Key, NEW lcp,
         lcp # TopLen => \A n \in 1..(TopLen + 1) : Prefix(k, n) \in t.flat
  PROVE  t.flat \cup FlatBits(t, k, lcp) = Flat(S \cup {k})
<1> DEFINE F == t.flat \cup FlatBits(t, k, lcp)
           K == {Prefix(k, n) : n \in 1..(TopLen + 1)}
<1>1. /\ TopLen \in Nat /\ TopLen \in 1..(TopLen + 1) /\ TopLen \in 0..KeyLen
      /\ \A n \in 1..(TopLen + 1) : n \in 0..KeyLen /\ (n <= TopLen \/ n = TopLen + 1)
  BY LengthFacts
<1>2. ASSUME NEW n \in 1..(TopLen + 1)
      PROVE  Prefix(k, n) \in F
  <2>1. CASE n = TopLen + 1 /\ lcp = TopLen
    BY <2>1 DEF FlatBits
  <2>2. CASE lcp # TopLen
    BY <2>2
  <2>3. CASE n <= TopLen /\ Prefix(k, TopLen) \in t.flat
    <3>1. PICK s \in S : Same(s, k, TopLen)
      BY <1>1, <2>3, FlatAt
    <3>2. s \in Key /\ Same(s, k, n)
      BY <1>1, <2>3, <3>1, SameShorter
    <3>3. QED
      BY <3>2, FlatAt
  <2>4. CASE n <= TopLen /\ Prefix(k, TopLen) \notin t.flat
    <3>1. n \in 1..TopLen
      BY <1>1, <2>4
    <3>2. QED
      BY <2>4, <3>1 DEF FlatBits
  <2>5. QED
    BY <1>1, <2>1, <2>2, <2>3, <2>4
<1>3. FlatBits(t, k, lcp) \subseteq K
  <2>1. 1..TopLen \subseteq 1..(TopLen + 1) /\ TopLen + 1 \in 1..(TopLen + 1)
    BY <1>1
  <2>2. QED
    BY <2>1 DEF FlatBits
<1>4. Flat(S \cup {k}) = Flat(S) \cup K
  BY DEF Flat
<1>5. K \subseteq F
  BY <1>2
<1>6. QED
  BY <1>3, <1>4, <1>5

\* InsertInto makes the trie of one key more, and its reply is whether it is new.
LEMMA InsertFacts ==
  ASSUME NEW t, NEW S, TrieOf(t, S), S \subseteq Key, NEW k \in Key
  PROVE  /\ TrieOf(InsertInto(t, k), S \cup {k})
         /\ Prefix(k, TopLen) \in t.flat /\ Contains(t, k) <=> k \in S
<1> DEFINE q == QueryLCP(t, k)
           f == IF q.lcp > TopLen THEN WithPath(t.node, k, q) ELSE t.node
           g == SetNode(f, Prefix(k, q.lcp + 1), Leaf(k))
           F == t.flat \cup FlatBits(t, k, q.lcp)
<1>1. q = IF Prefix(k, TopLen) \in t.flat THEN QueryLCP(t, k)
          ELSE [ilen |-> 0, lcp |-> TopLen]
  BY FlatQuery
<1>2. InsertInto(t, k) = IF q.lcp = KeyLen THEN t ELSE [flat |-> F, node |-> g]
  BY <1>1 DEF InsertInto
<1>3. Tree(t.node, S) /\ t.flat = Flat(S)
  BY DEF TrieOf
<1>4. KeyLen # TopLen /\ TopLen \in 1..(TopLen + 1)
  BY LengthFacts
<1>5. q.lcp = KeyLen <=> k \in S
  BY <1>3, ContainsFacts DEF Contains
<1>6. Prefix(k, TopLen) \in t.flat /\ Contains(t, k) <=> k \in S
  BY <1>4, <1>5, FlatQuery DEF Contains
<1>7. CASE q.lcp = KeyLen
  <2>1. S \cup {k} = S
    BY <1>5, <1>7
  <2>2. QED
    BY <1>2, <1>6, <1>7, <2>1
<1>8. CASE q.lcp # KeyLen
  <2>1. Tree(g, S \cup {k})
    BY <1>3, <1>8, InsertTree
  <2>2. F = Flat(S \cup {k})
    <3>1. q.lcp # TopLen => \A n \in 1..(TopLen + 1) : Prefix(k, n) \in t.flat
      BY FlatQuery
    <3> HIDE DEF q
    <3>2. QED
      BY <1>3, <3>1, FlatInserted
  <2>3. InsertInto(t, k).node = g /\ InsertInto(t, k).flat = F
    BY <1>2, <1>8
  <2>4. QED
    BY <1>6, <2>1, <2>2, <2>3 DEF TrieOf
<1>9. QED
  BY <1>7, <1>8

-----------------------------------------------------------------------------
(* LowerBoundInternal.  A search that climbs knows, at each turn, that no key *)
(* from k on agrees with k in so many digits.                                 *)

Clear(S, k, n) == \A u \in S : Same(u, k, n) => u < k

\* A promise stands for the least key not below k.  If it names an index prefix,
\* then no value with that prefix is below k.
Answer(t, S, k, p) ==
  /\ p.node \in DOMAIN t.node
  /\ Resolve(t, p) \in S /\ k <= Resolve(t, p)
  /\ \A u \in S : k <= u => Resolve(t, p) <= u
  /\ p.kind = "lookup" =>
       \E s \in S, l \in Level : /\ p.node = Prefix(s, l)
                                 /\ \A x \in Key : Same(x, s, l) => k <= x

Outcome(t, S, k, p) ==
  IF p = NoPromise THEN \A u \in S : u < k ELSE Answer(t, S, k, p)

\* The keys that part from k after d digits, with the least greater digit that
\* there is: they are the next after k, when k's own group is behind.
LEMMA NextGroup ==
  ASSUME NEW S, S \subseteq Key, NEW k \in Key, NEW d \in 0..KeyLen, d < KeyLen,
         Clear(S, k, d + 1),
         NEW s \in S, Same(s, k, d), DigitAfter(k, d) < DigitAfter(s, d),
         \A u \in S : Same(u, k, d) /\ DigitAfter(k, d) < DigitAfter(u, d) =>
                        DigitAfter(s, d) <= DigitAfter(u, d)
  PROVE  /\ \A x \in Key : Same(x, s, d + 1) => k < x
         /\ \A u \in S, x \in Key :
              k <= u /\ Same(x, s, d + 1) => Same(u, s, d + 1) \/ x < u
<1>1. /\ d + 1 \in 0..KeyLen /\ s \in Key /\ Same(k, s, d) /\ k \in Nat /\ s \in Nat
      /\ \A u \in Key : u \in Nat /\ DigitAfter(u, d) \in Int
  BY SameFacts, ValueFacts, KeyLenAssumption DEF Same, Digit
<1>2. k < s
  BY <1>1, DigitOrder
<1>3. ~Same(s, k, d + 1)
  BY <1>1, SameNext
<1>4. ASSUME NEW x \in Key, Same(x, s, d + 1)
      PROVE  k < x
  <2>1. Same(s, x, d + 1)
    BY <1>4 DEF Same
  <2>2. QED
    BY <1>1, <1>2, <1>3, <2>1, Together
<1>5. ASSUME NEW u \in S, NEW x \in Key, k <= u, Same(x, s, d + 1), ~Same(u, s, d + 1)
      PROVE  x < u
  <2>1. u \in Key /\ Same(s, x, d + 1) /\ ~Same(s, u, d + 1)
    BY <1>5 DEF Same
  <2>2. ~Same(u, k, d + 1)
    BY <1>1, <1>5, <2>1 DEF Clear
  <2>3. k < u
    <3>1. k # u
      BY <2>2 DEF Same
    <3>2. QED
      BY <1>1, <1>5, <2>1, <3>1
  <2>4. s < u
    <3>1. CASE Same(u, k, d)
      <4>1. DigitAfter(u, d) # DigitAfter(k, d) /\ DigitAfter(u, d) # DigitAfter(s, d)
        <5>1. Same(u, s, d)
          BY <1>1, <3>1 DEF Same
        <5>2. QED
          BY <1>1, <1>5, <2>1, <2>2, <3>1, <5>1, SameNext
      <4>2. ~(DigitAfter(u, d) < DigitAfter(k, d))
        BY <1>1, <2>1, <2>3, <3>1, DigitOrder
      <4>3. DigitAfter(s, d) < DigitAfter(u, d)
        BY <1>1, <2>1, <3>1, <4>1, <4>2
      <4>4. Same(s, u, d)
        BY <1>1, <3>1 DEF Same
      <4>5. QED
        BY <1>1, <2>1, <4>3, <4>4, DigitOrder
    <3>2. CASE ~Same(u, k, d)
      <4>1. ~Same(k, u, d)
        BY <3>2 DEF Same
      <4>2. QED
        BY <1>1, <2>1, <2>3, <4>1, Together
    <3>3. QED
      BY <3>1, <3>2
  <2>5. QED
    BY <1>1, <2>1, <2>4, Together
<1>6. QED
  BY <1>4, <1>5

\* The first child beyond k's own, at a node on k's path.
LEMMA NextChild ==
  ASSUME NEW t, NEW S, Tree(t.node, S), S \subseteq Key, NEW k \in Key, NEW l \in Level,
         NEW n, Node(S, k, l, n), n.dlen < KeyLen, Same(n.mkey, k, n.dlen),
         Clear(S, k, n.dlen + 1),
         NEW D, D = {e \in n.kids : e >= DigitAfter(k, n.dlen) + 1}, D # {}
  PROVE  Answer(t, S, k, Lookup(Child(Prefix(k, n.dlen), Min(D))))
<1> DEFINE d == n.dlen
           c == Min(D)
<1>1. d \in l..KeyLen /\ d \in 0..KeyLen /\ d < KeyLen /\ l \in 0..KeyLen /\ l <= d
      /\ d \in Nat /\ d + 1 \in 0..KeyLen
  BY LengthFacts DEF Node
<1>2. \A u \in Key : u \in Nat /\ DigitAfter(u, d) \in Digit
  BY <1>1, SameFacts, ValueFacts
<1>3. \A e : e \in n.kids <=> \E u \in S : Same(u, k, l) /\ e = DigitAfter(u, d)
  BY DEF Node
<1>4. D \subseteq Nat
  BY <1>2, <1>3 DEF Digit
<1>5. c \in D /\ \A e \in D : c <= e
  BY <1>4, MinFacts
<1> HIDE DEF d, c
<1>6. PICK s \in S : Same(s, k, l) /\ c = DigitAfter(s, d)
  BY <1>3, <1>5
<1>7. DigitAfter(k, d) < DigitAfter(s, d) /\ s \in Key /\ s \in Nat /\ k \in Nat
  <2>1. c >= DigitAfter(k, d) + 1 /\ c \in Nat /\ DigitAfter(k, d) \in Nat
    BY <1>2, <1>4, <1>5 DEF d, Digit
  <2>2. QED
    BY <1>2, <1>6, <2>1
<1>8. Same(s, k, d)
  BY <1>6 DEF Node, d, Same
<1>9. ASSUME NEW u \in S, Same(u, k, d), DigitAfter(k, d) < DigitAfter(u, d)
      PROVE  DigitAfter(s, d) <= DigitAfter(u, d)
  <2>1. Same(u, k, l)
    BY <1>1, <1>9, SameShorter
  <2>2. DigitAfter(u, d) \in n.kids
    BY <1>3, <2>1
  <2>3. DigitAfter(u, d) >= DigitAfter(k, d) + 1
    BY <1>2, <1>9 DEF Digit
  <2>4. QED
    BY <1>5, <1>6, <2>2, <2>3 DEF d
<1>10. /\ \A x \in Key : Same(x, s, d + 1) => k < x
       /\ \A u \in S, x \in Key :
            k <= u /\ Same(x, s, d + 1) => Same(u, s, d + 1) \/ x < u
  <2>1. Clear(S, k, d + 1)
    BY DEF d
  <2>2. QED
    BY <1>1, <1>7, <1>8, <1>9, <2>1, NextGroup
<1> DEFINE p == Prefix(s, d + 1)
           r == t.node[p].mkey
<1>11. /\ d + 1 \in Level /\ p \in DOMAIN t.node /\ Node(S, s, d + 1, t.node[p])
  BY <1>6, NodeBelow DEF d
<1>12. Child(Prefix(k, d), c) = p
  <2>1. Value(s, d + 1) = Value(s, d) * Base + DigitAfter(s, d) /\ Value(s, d) = Value(k, d)
    BY <1>1, <1>7, <1>8, ValueFacts DEF Same
  <2>2. QED
    BY <1>1, <1>6, <1>7, <2>1, PrefixFacts DEF Child
<1>13. r \in S /\ Same(r, s, d + 1) /\ \A u \in S : Same(u, s, d + 1) => r <= u
  BY <1>11 DEF Node
<1>14. r \in Key /\ r \in Nat /\ \A u \in S : u \in Nat
  BY <1>2, <1>13
<1> DEFINE P == Lookup(p)
<1>15. P.node = p /\ P.kind = "lookup" /\ Resolve(t, P) = r
  BY DEF Lookup, Resolve
<1> HIDE DEF r, P
<1>16. k <= r /\ \A u \in S : k <= u => r <= u
  BY <1>7, <1>10, <1>13, <1>14
<1>17. \A x \in Key : Same(x, s, d + 1) => k <= x
  BY <1>2, <1>7, <1>10
<1>18. Answer(t, S, k, P)
  BY <1>11, <1>13, <1>15, <1>16, <1>17 DEF Answer
<1>19. QED
  BY <1>12, <1>18 DEF P, d, c

\* What FlatBeyond finds: where keys part from k with a greater digit.
LEMMA FlatBeyondAt ==
  ASSUME NEW t, NEW S, t.flat = Flat(S), S \subseteq Key, NEW k \in Key,
         NEW n \in 1..(TopLen + 1)
  PROVE  \A p : p \in FlatBeyond(t, k, n) <=>
           \E u \in S : /\ p = Prefix(u, n) /\ Same(u, k, n - 1)
                        /\ DigitAfter(k, n - 1) < DigitAfter(u, n - 1)
<1>1. /\ n \in 0..KeyLen /\ n - 1 \in 0..KeyLen /\ n - 1 < KeyLen /\ (n - 1) + 1 = n
      /\ \A i \in 1..(TopLen + 1) : i \in 0..KeyLen
  BY LengthFacts
<1>2. \A u \in Key : /\ Prefix(u, n) = <<n, Value(u, n)>>
                     /\ Prefix(u, n)[1] = n /\ Prefix(u, n)[2] = Value(u, n)
                     /\ Prefix(u, n - 1)[2] = Value(u, n - 1)
  BY <1>1, PrefixFacts
<1>3. \A u \in Key : /\ Value(u, n) = Value(u, n - 1) * Base + DigitAfter(u, n - 1)
                     /\ Value(u, n) \div Base = Value(u, n - 1)
                     /\ DigitAfter(u, n - 1) \in Digit
                     /\ Value(u, n - 1) \in Nat /\ Value(u, n) \in Nat
  BY <1>1, ValueFacts
<1>4. ASSUME NEW u \in Key, Same(u, k, n - 1)
      PROVE  Value(u, n) > Value(k, n) <=> DigitAfter(k, n - 1) < DigitAfter(u, n - 1)
  <2>1. /\ Value(u, n) = Value(k, n - 1) * Base + DigitAfter(u, n - 1)
        /\ Value(k, n) = Value(k, n - 1) * Base + DigitAfter(k, n - 1)
        /\ Value(k, n - 1) * Base \in Int
        /\ DigitAfter(u, n - 1) \in Int /\ DigitAfter(k, n - 1) \in Int
    BY <1>3, <1>4, BaseAssumption DEF Same, Digit
  <2>2. QED
    BY <2>1
<1>5. \A p : p \in t.flat /\ p[1] = n <=> \E u \in S : p = Prefix(u, n)
  <2>1. ASSUME NEW p, p \in t.flat, p[1] = n
        PROVE  \E u \in S : p = Prefix(u, n)
    <3>1. PICK u \in S, i \in 1..(TopLen + 1) : p = Prefix(u, i)
      BY <2>1 DEF Flat
    <3>2. i = n
      BY <1>1, <2>1, <3>1, PrefixFacts
    <3>3. QED
      BY <3>1, <3>2
  <2>2. ASSUME NEW u \in S
        PROVE  Prefix(u, n) \in t.flat /\ Prefix(u, n)[1] = n
    BY <1>2 DEF Flat
  <2>3. QED
    BY <2>1, <2>2
<1>6. ASSUME NEW u \in S, NEW p, p = Prefix(u, n)
      PROVE  p \in FlatBeyond(t, k, n) <=>
               Same(u, k, n - 1) /\ DigitAfter(k, n - 1) < DigitAfter(u, n - 1)
  <2>1. u \in Key /\ p \in t.flat /\ p[1] = n /\ p[2] = Value(u, n)
    BY <1>2, <1>5, <1>6
  <2>2. p \in FlatBeyond(t, k, n) <=>
          Value(u, n) > Value(k, n) /\ Value(u, n - 1) = Value(k, n - 1)
    BY <1>2, <1>3, <2>1 DEF FlatBeyond
  <2>3. QED
    BY <1>4, <2>1, <2>2 DEF Same
<1>7. \A p \in FlatBeyond(t, k, n) : p \in t.flat /\ p[1] = n
  BY DEF FlatBeyond
<1>8. QED
  BY <1>5, <1>6, <1>7

\* The first of some prefixes.
LEMMA FirstFacts ==
  ASSUME NEW T, T # {}, \A p \in T : p[2] \in Nat
  PROVE  FlatFirst(T) \in T /\ \A q \in T : FlatFirst(T)[2] <= q[2]
<1> DEFINE V == {p[2] : p \in T}
<1>1. V \subseteq Nat /\ V # {}
  OBVIOUS
<1>2. PICK m \in V : \A n \in V : m <= n
  BY <1>1, LeastElement
<1>3. PICK p \in T : p[2] = m
  OBVIOUS
<1>4. \A q \in T : p[2] <= q[2]
  BY <1>2, <1>3
<1>5. QED
  BY <1>3, <1>4 DEF FlatFirst

\* If the bitmaps have nothing beyond k at any deeper level, no key from k on
\* agrees with k in more than n digits.
LEMMA FlatClear ==
  ASSUME NEW t, NEW S, t.flat = Flat(S), S \subseteq Key, NEW k \in Key,
         Clear(S, k, TopLen + 1), NEW n \in 0..(TopLen + 1),
         \A i \in 1..(TopLen + 1) : n < i => FlatBeyond(t, k, i) = {}
  PROVE  Clear(S, k, n)
<1> SUFFICES ASSUME NEW u \in S, Same(u, k, n), ~(u < k)
             PROVE  FALSE
  BY DEF Clear
<1> DEFINE c == LCP(u, k)
<1>1. /\ u \in Key /\ u \in Nat /\ k \in Nat /\ n \in Nat /\ n \in 0..KeyLen
      /\ TopLen \in Nat /\ TopLen + 1 \in 0..KeyLen /\ KeyLen \in Nat
  BY LengthFacts, SameFacts
<1>2. c \in 0..KeyLen /\ \A i \in 0..KeyLen : Same(u, k, i) <=> i <= c
  BY <1>1, LCPFacts
<1> HIDE DEF c
<1>3. ~Same(u, k, TopLen + 1)
  BY DEF Clear
<1>4. c < TopLen + 1 /\ n <= c
  BY <1>1, <1>2, <1>3
<1>5. /\ c < KeyLen /\ c + 1 \in 1..(TopLen + 1) /\ c + 1 \in 0..KeyLen /\ n < c + 1
      /\ (c + 1) - 1 = c
  BY <1>1, <1>2, <1>4
<1>6. Same(u, k, c) /\ ~Same(u, k, c + 1) /\ Same(k, u, c)
  <2>1. Same(u, k, c) /\ ~Same(u, k, c + 1)
    BY <1>2, <1>5
  <2>2. QED
    BY <2>1 DEF Same
<1>7. DigitAfter(u, c) # DigitAfter(k, c)
  BY <1>1, <1>2, <1>5, <1>6, SameNext
<1>8. ~(DigitAfter(u, c) < DigitAfter(k, c))
  BY <1>1, <1>2, <1>5, <1>6, DigitOrder
<1>9. DigitAfter(u, c) \in Int /\ DigitAfter(k, c) \in Int
  BY <1>1, <1>2, <1>5, ValueFacts DEF Digit
<1>10. DigitAfter(k, c) < DigitAfter(u, c)
  BY <1>7, <1>8, <1>9
<1>11. Prefix(u, c + 1) \in FlatBeyond(t, k, c + 1)
  BY <1>5, <1>6, <1>10, FlatBeyondAt
<1>12. QED
  BY <1>5, <1>11

\* The way down exists.
Descending(F, p, down) ==
  \A n \in Nat : down[n] =
    IF n <= p[1] THEN p
    ELSE FlatFirst({q \in F : q[1] = n /\ q[2] \div Base = down[n - 1][2]})

\* The recursive function of Descend has the value that it is defined by.
LEMMA DescendFacts ==
  ASSUME NEW F, NEW p, p[1] \in Nat
  PROVE  \E down : Descending(F, p, down) /\ Descend(F, p) = down[TopLen + 1]
<1> DEFINE V == {p} \cup {FlatFirst(T) : T \in SUBSET F}
           Step(n, v) == FlatFirst({q \in F : q[1] = n + 1 /\ q[2] \div Base = v[2]})
           H == [v \in Nat \X V |-> IF v[1] + 1 <= p[1] THEN p ELSE Step(v[1], v[2])]
           Body(g) == [n \in Nat |->
                         IF n <= p[1] THEN p
                         ELSE FlatFirst({q \in F : q[1] = n /\ q[2] \div Base = g[n - 1][2]})]
           G == CHOOSE g : g = Body(g)
<1>1. \A n \in Nat, v \in V : Step(n, v) \in V
  OBVIOUS
<1>2. p \in V
  OBVIOUS
<1> HIDE DEF Step, V
<1>3. H \in [Nat \X V -> V]
  BY <1>1, <1>2
<1>4. \A n \in Nat, v \in V : H[<<n, v>>] = IF n + 1 <= p[1] THEN p ELSE Step(n, v)
  OBVIOUS
<1> HIDE DEF H
<1>5. PICK g : Iterates(g, V, p, H)
  BY <1>2, <1>3, Recursion
<1>6. g \in [Nat -> V] /\ g[0] = p /\ \A n \in Nat : g[n + 1] = H[<<n, g[n]>>]
  BY <1>5 DEF Iterates
<1>7. ASSUME NEW n \in Nat
      PROVE  g[n] = IF n <= p[1] THEN p
                    ELSE FlatFirst({q \in F : q[1] = n /\ q[2] \div Base = g[n - 1][2]})
  <2>1. CASE n = 0
    BY <1>6, <2>1
  <2>2. CASE n # 0
    <3>1. n - 1 \in Nat /\ (n - 1) + 1 = n /\ g[n - 1] \in V
      BY <1>6, <2>2
    <3>2. g[(n - 1) + 1] = H[<<n - 1, g[n - 1]>>]
      BY <1>6, <3>1
    <3>3. g[n] = IF n <= p[1] THEN p ELSE Step(n - 1, g[n - 1])
      BY <1>4, <3>1, <3>2
    <3>4. Step(n - 1, g[n - 1]) =
            FlatFirst({q \in F : q[1] = n /\ q[2] \div Base = g[n - 1][2]})
      BY <3>1 DEF Step
    <3>5. QED
      BY <3>3, <3>4
  <2>3. QED
    BY <2>1, <2>2
<1>8. g = Body(g)
  BY <1>6, <1>7
<1> HIDE DEF Body
<1>9. G = Body(G)
  BY <1>8
<1>10. Descending(F, p, G)
  BY <1>9 DEF Descending, Body
<1>11. Descend(F, p) = G[TopLen + 1]
  BY DEF Descend, Body
<1>12. QED
  BY <1>10, <1>11

\* First child after first child leads to the prefix of the least key.
LEMMA DescendLeast ==
  ASSUME NEW t, NEW S, t.flat = Flat(S), S \subseteq Key, NEW n \in 1..(TopLen + 1),
         NEW r \in S, \A u \in S : Same(u, r, n) => r <= u
  PROVE  Descend(t.flat, Prefix(r, n)) = Prefix(r, TopLen + 1)
<1> DEFINE F == t.flat
           p == Prefix(r, n)
<1>1. /\ n \in Nat /\ n \in 0..KeyLen /\ r \in Key /\ TopLen \in Nat
      /\ \A i \in 1..(TopLen + 1) : i \in 0..KeyLen /\ i \in Nat
  BY LengthFacts
<1>2. p[1] = n /\ p[1] \in Nat
  BY <1>1, PrefixFacts
<1> HIDE DEF p
<1>3. PICK down : Descending(F, p, down) /\ Descend(F, p) = down[TopLen + 1]
  BY <1>2, DescendFacts
<1> HIDE DEF F
<1>10. \A i \in Nat : i <= n => down[i] = p
  BY <1>2, <1>3 DEF Descending
<1>11. \A i \in Nat : ~(i <= n) =>
         down[i] = FlatFirst({q \in F : q[1] = i /\ q[2] \div Base = down[i - 1][2]})
  BY <1>2, <1>3 DEF Descending
<1> DEFINE Z == {i \in Nat : n <= i /\ i <= TopLen + 1 => down[i] = Prefix(r, i)}
<1>4. 0 \in Z
  BY <1>1
<1>5. ASSUME NEW i \in Nat, i \in Z
      PROVE  i + 1 \in Z
  <2>1. SUFFICES ASSUME n <= i + 1, i + 1 <= TopLen + 1
                 PROVE  down[i + 1] = Prefix(r, i + 1)
    OBVIOUS
  <2>2. CASE n = i + 1
    <3>1. down[i + 1] = p
      BY <1>1, <1>10, <2>2
    <3>2. QED
      BY <2>2, <3>1 DEF p
  <2>3. CASE n # i + 1
    <3>1. /\ n <= i /\ i + 1 \in 1..(TopLen + 1) /\ i \in 1..(TopLen + 1)
          /\ i \in 0..KeyLen /\ i < KeyLen /\ (i + 1) - 1 = i /\ i + 1 \in Nat
          /\ i + 1 \in 0..KeyLen /\ ~(i + 1 <= n)
      BY <1>1, <2>1, <2>3, LengthFacts
    <3>2. down[i] = Prefix(r, i) /\ Prefix(r, i)[2] = Value(r, i)
      BY <1>1, <1>5, <3>1, PrefixFacts
    <3> DEFINE T == {q \in F : q[1] = i + 1 /\ q[2] \div Base = Value(r, i)}
    <3>3. down[i + 1] = FlatFirst(T)
      <4>1. down[i + 1] = FlatFirst({q \in F : q[1] = i + 1 /\ q[2] \div Base = down[i][2]})
        BY <1>11, <3>1
      <4>2. QED
        BY <3>2, <4>1
    <3>4. \A u \in Key : /\ Prefix(u, i + 1) = <<i + 1, Value(u, i + 1)>>
                         /\ Prefix(u, i + 1)[1] = i + 1
                         /\ Prefix(u, i + 1)[2] = Value(u, i + 1)
                         /\ Value(u, i + 1) \in Nat
                         /\ Value(u, i + 1) \div Base = Value(u, i)
      BY <3>1, PrefixFacts, ValueFacts
    <3>5. ASSUME NEW q \in T
          PROVE  \E u \in S : q = Prefix(u, i + 1) /\ Value(r, i + 1) <= Value(u, i + 1)
      <4>1. PICK u \in S, j \in 1..(TopLen + 1) : q = Prefix(u, j)
        BY DEF Flat, F
      <4>2. u \in Key /\ j = i + 1
        BY <1>1, <4>1, PrefixFacts
      <4>3. Same(u, r, i)
        BY <3>4, <4>1, <4>2 DEF Same
      <4>4. Same(u, r, n)
        BY <1>1, <3>1, <4>2, <4>3, SameShorter
      <4>5. Value(r, i + 1) <= Value(u, i + 1)
        BY <1>1, <3>1, <4>2, <4>4, ValueOrder
      <4>6. QED
        BY <4>1, <4>2, <4>5
    <3>6. Prefix(r, i + 1) \in T
      BY <1>1, <3>1, <3>4 DEF Flat, F
    <3> HIDE DEF T
    <3>7. \A q \in T : q[2] \in Nat
      BY <3>4, <3>5
    <3>8. FlatFirst(T) \in T /\ FlatFirst(T)[2] <= Prefix(r, i + 1)[2]
      BY <3>6, <3>7, FirstFacts
    <3>9. PICK u \in S : FlatFirst(T) = Prefix(u, i + 1) /\ Value(r, i + 1) <= Value(u, i + 1)
      BY <3>5, <3>8
    <3>10. Value(u, i + 1) = Value(r, i + 1) /\ u \in Key
      BY <1>1, <3>4, <3>8, <3>9
    <3>11. QED
      BY <1>1, <3>3, <3>4, <3>9, <3>10
  <2>4. QED
    BY <2>2, <2>3
<1> HIDE DEF Z
<1>6. Nat \subseteq Z
  BY <1>4, <1>5, Induction
<1>7. TopLen + 1 \in Nat /\ n <= TopLen + 1
  BY <1>1
<1>8. down[TopLen + 1] = Prefix(r, TopLen + 1)
  BY <1>6, <1>7 DEF Z
<1>9. QED
  BY <1>3, <1>8 DEF p, F

\* The search in the bitmaps finds the prefix of the next key.
LEMMA FlatMappingFound ==
  ASSUME NEW t, NEW S, t.flat = Flat(S), S \subseteq Key, NEW k \in Key,
         Clear(S, k, TopLen + 1)
  PROVE  \/ FlatMapping(t, k) = NoPromise /\ \A u \in S : u < k
         \/ \E r \in S : /\ FlatMapping(t, k) = Lookup(Prefix(r, TopLen + 1))
                         /\ k <= r /\ \A u \in S : k <= u => r <= u
                         /\ \A x \in Key : Same(x, r, TopLen + 1) => k <= x
<1> DEFINE up == {n \in 1..(TopLen + 1) : FlatBeyond(t, k, n) # {}}
<1>1. /\ TopLen \in Nat /\ TopLen + 1 \in Nat /\ KeyLen \in Nat /\ 0 \in 0..(TopLen + 1)
      /\ \A i \in 1..(TopLen + 1) : /\ i \in Nat /\ i \in 0..KeyLen /\ i - 1 \in 0..KeyLen
                                    /\ i - 1 < KeyLen /\ (i - 1) + 1 = i
                                    /\ i \in 0..(TopLen + 1)
  BY LengthFacts
<1>2. CASE up = {}
  <2>1. Clear(S, k, 0)
    BY <1>1, <1>2, FlatClear
  <2>2. \A u \in S : u < k
    BY <2>1, SameFacts DEF Clear
  <2>3. FlatMapping(t, k) = NoPromise
    BY <1>2 DEF FlatMapping
  <2>4. QED
    BY <2>2, <2>3
<1>3. CASE up # {}
  <2> DEFINE n == Max(up)
             T == FlatBeyond(t, k, n)
             p == FlatFirst(T)
             d == n - 1
  <2>1. up \subseteq Nat /\ \A i \in up : i <= TopLen + 1
    OBVIOUS
  <2>2. n \in up /\ \A i \in up : i <= n
    <3> HIDE DEF up
    <3>1. QED
      BY <1>1, <1>3, <2>1, MaxFacts
  <2>3. FlatMapping(t, k) = Lookup(Descend(t.flat, p))
    BY <1>3 DEF FlatMapping
  <2> HIDE DEF n
  <2>4. n \in 1..(TopLen + 1) /\ T # {}
    BY <2>2
  <2>5. ASSUME NEW i \in 1..(TopLen + 1), n < i
        PROVE  FlatBeyond(t, k, i) = {}
    <3>1. ~(i <= n)
      BY <1>1, <2>4, <2>5
    <3>2. QED
      BY <2>2, <3>1
  <2> HIDE DEF up
  <2>6. Clear(S, k, n)
    BY <1>1, <2>4, <2>5, FlatClear
  <2>7. \A q : q \in T <=> \E u \in S : /\ q = Prefix(u, n) /\ Same(u, k, d)
                                        /\ DigitAfter(k, d) < DigitAfter(u, d)
    BY <2>4, FlatBeyondAt
  <2> HIDE DEF T, p
  <2>8. /\ n \in Nat /\ n \in 0..KeyLen /\ d \in 0..KeyLen /\ d < KeyLen /\ d + 1 = n
    BY <1>1, <2>4
  <2>9. \A u \in Key : Prefix(u, n)[2] = Value(u, n) /\ Value(u, n) \in Nat
                       /\ DigitAfter(u, d) \in Int /\ u \in Nat
    BY <2>8, PrefixFacts, ValueFacts, SameFacts DEF Digit
  <2>10. \A q \in T : q[2] \in Nat
    BY <2>7, <2>9
  <2>11. p \in T /\ \A q \in T : p[2] <= q[2]
    BY <2>4, <2>10, FirstFacts DEF p
  <2>12. PICK s \in S : /\ p = Prefix(s, n) /\ Same(s, k, d)
                        /\ DigitAfter(k, d) < DigitAfter(s, d)
    BY <2>7, <2>11
  <2> HIDE DEF d
  <2>13. ASSUME NEW u \in S, Same(u, k, d), DigitAfter(k, d) < DigitAfter(u, d)
         PROVE  DigitAfter(s, d) <= DigitAfter(u, d)
    <3>1. Value(s, n) <= Value(u, n)
      <4>1. Prefix(u, n) \in T
        BY <2>7, <2>13
      <4>2. QED
        BY <2>9, <2>11, <2>12, <4>1
    <3>2. Same(u, s, d)
      BY <2>12, <2>13 DEF Same
    <3>3. ~(Value(u, d + 1) < Value(s, d + 1))
      BY <2>8, <2>9, <3>1
    <3>4. ~(DigitAfter(u, d) < DigitAfter(s, d))
      BY <2>8, <3>2, <3>3, DigitOrder
    <3>5. QED
      BY <2>9, <3>4
  <2>14. /\ \A x \in Key : Same(x, s, n) => k < x
         /\ \A u \in S, x \in Key : k <= u /\ Same(x, s, n) => Same(u, s, n) \/ x < u
    <3>1. Clear(S, k, d + 1)
      BY <2>6, <2>8
    <3>2. /\ \A x \in Key : Same(x, s, d + 1) => k < x
          /\ \A u \in S, x \in Key :
               k <= u /\ Same(x, s, d + 1) => Same(u, s, d + 1) \/ x < u
      BY <2>8, <2>12, <2>13, <3>1, NextGroup
    <3>3. QED
      BY <2>8, <3>2
  <2> DEFINE R == {u \in S : Same(u, s, n)}
  <2>15. R \subseteq Nat /\ R # {}
    BY <2>9 DEF Same
  <2>16. PICK r \in R : \A u \in R : r <= u
    <3> HIDE DEF R
    <3>1. QED
      BY <2>15, LeastElement
  <2>17. r \in S /\ r \in Key /\ Same(r, s, n) /\ r \in Nat
    BY <2>9, <2>16
  <2>18. \A u \in S : Same(u, r, n) => r <= u
    BY <2>16, <2>17 DEF Same
  <2>19. p = Prefix(r, n)
    BY <2>8, <2>12, <2>17, PrefixFacts
  <2>20. Descend(t.flat, p) = Prefix(r, TopLen + 1)
    BY <2>4, <2>17, <2>18, <2>19, DescendLeast
  <2>21. TopLen + 1 \in 0..KeyLen /\ n <= TopLen + 1
    BY <1>1, <2>4, LengthFacts
  <2>25. \A x \in Key : Same(x, r, TopLen + 1) => k <= x
    <3>1. SUFFICES ASSUME NEW x \in Key, Same(x, r, TopLen + 1)
                   PROVE  k <= x
      OBVIOUS
    <3>2. Same(x, r, n)
      BY <2>8, <2>17, <2>21, <3>1, SameShorter
    <3>3. Same(x, s, n)
      BY <2>17, <3>2 DEF Same
    <3>4. QED
      BY <2>9, <2>14, <3>3
  <2>26. k <= r
    BY <2>9, <2>14, <2>17
  <2>27. ASSUME NEW u \in S, k <= u
         PROVE  r <= u
    <3>1. Same(u, s, n) \/ r < u
      BY <2>14, <2>17, <2>27
    <3>2. Same(u, s, n) => u \in R
      OBVIOUS
    <3>3. QED
      BY <2>9, <2>16, <2>17, <3>1, <3>2
  <2>28. FlatMapping(t, k) = Lookup(Prefix(r, TopLen + 1))
    BY <2>3, <2>20
  <2>29. QED
    BY <2>17, <2>25, <2>26, <2>27, <2>28
<1>4. QED
  BY <1>2, <1>3

\* In the trie of some keys, this is the node of the next key.
LEMMA FlatMappingFacts ==
  ASSUME NEW t, NEW S, TrieOf(t, S), S \subseteq Key, NEW k \in Key,
         Clear(S, k, TopLen + 1)
  PROVE  Outcome(t, S, k, FlatMapping(t, k))
<1>1. CASE FlatMapping(t, k) = NoPromise /\ \A u \in S : u < k
  BY <1>1 DEF Outcome
<1>2. ASSUME NEW r \in S, FlatMapping(t, k) = Lookup(Prefix(r, TopLen + 1)),
             k <= r, \A u \in S : k <= u => r <= u,
             \A x \in Key : Same(x, r, TopLen + 1) => k <= x
      PROVE  Outcome(t, S, k, FlatMapping(t, k))
  <2> DEFINE w == Prefix(r, TopLen + 1)
             P == Lookup(w)
             m == t.node[w].mkey
  <2>1. /\ r \in Key /\ r \in Nat /\ k \in Nat
        /\ TopLen + 1 \in Level /\ TopLen + 1 \in 0..KeyLen
    BY SameFacts, LengthFacts DEF Level
  <2>2. w \in DOMAIN t.node /\ Node(S, r, TopLen + 1, t.node[w])
    <3>1. Branches(S, r, TopLen + 1) /\ Same(r, r, TopLen + 1)
      BY DEF Branches, Same
    <3>2. QED
      BY <2>1, <3>1, TreeAt DEF TrieOf
  <2>3. m = r
    <3>1. m \in S /\ Same(m, r, TopLen + 1) /\ m <= r
      BY <2>1, <2>2 DEF Node, Same
    <3> HIDE DEF m
    <3>2. m \in Key /\ m \in Nat
      BY <3>1, SameFacts
    <3>3. k <= m
      BY <1>2, <3>1, <3>2
    <3>4. QED
      BY <1>2, <2>1, <3>1, <3>2, <3>3
  <2>4. P.node = w /\ P.kind = "lookup" /\ Resolve(t, P) = r /\ P # NoPromise
    <3>1. P.kind = "lookup" /\ NoPromise.kind = "none" /\ P.node = w
      BY DEF Lookup, NoPromise
    <3>2. Resolve(t, P) = r
      BY <2>3, <3>1 DEF Resolve
    <3>3. QED
      BY <3>1, <3>2
  <2>5. FlatMapping(t, k) = P
    BY <1>2
  <2> HIDE DEF P, w
  <2>6. Answer(t, S, k, P)
    BY <1>2, <2>1, <2>2, <2>4 DEF Answer, w
  <2>7. QED
    BY <2>4, <2>5, <2>6 DEF Outcome
<1>3. QED
  BY <1>1, <1>2, FlatMappingFound DEF TrieOf

\* Where a key from k on parts from the path of k below the flat levels, a node
\* of the path has a child beyond k's own.
LEMMA Turn ==
  ASSUME NEW t, NEW S, Tree(t.node, S), S \subseteq Key, NEW k \in Key, NEW l \in Level,
         Prefix(k, l) \in DOMAIN t.node, Clear(S, k, l),
         NEW u \in S, ~(u < k), Same(u, k, TopLen + 1)
  PROVE  \E m \in Level :
           /\ m < l /\ Prefix(k, m) \in DOMAIN t.node /\ Beyond(t, k, m) # {}
           /\ t.node[Prefix(k, m)].dlen = LCP(u, k)
<1> DEFINE c == LCP(u, k)
<1>1. /\ u \in Key /\ u \in Nat /\ k \in Nat /\ l \in Nat /\ l \in 0..KeyLen
      /\ TopLen \in Nat /\ TopLen + 1 \in 0..KeyLen /\ KeyLen \in Nat
  BY LengthFacts, SameFacts
<1>2. c \in 0..KeyLen /\ \A i \in 0..KeyLen : Same(u, k, i) <=> i <= c
  BY <1>1, LCPFacts
<1> HIDE DEF c
<1>3. ~Same(u, k, l)
  BY DEF Clear
<1>4. c < l /\ TopLen + 1 <= c
  BY <1>1, <1>2, <1>3
<1>5. c \in Level /\ c < KeyLen /\ c \in Nat /\ c + 1 \in 0..KeyLen /\ c + 1 <= l
  BY <1>1, <1>2, <1>4 DEF Level
<1>6. Same(u, k, c) /\ ~Same(u, k, c + 1) /\ Same(k, u, c)
  <2>1. Same(u, k, c) /\ ~Same(u, k, c + 1)
    BY <1>2, <1>5
  <2>2. QED
    BY <2>1 DEF Same
<1>7. DigitAfter(u, c) # DigitAfter(k, c)
  BY <1>1, <1>2, <1>5, <1>6, SameNext
<1>8. ~(DigitAfter(u, c) < DigitAfter(k, c))
  BY <1>1, <1>2, <1>5, <1>6, DigitOrder
<1>9. DigitAfter(u, c) \in Int /\ DigitAfter(k, c) \in Int
  BY <1>1, <1>2, <1>5, ValueFacts DEF Digit
<1>10. DigitAfter(u, c) >= DigitAfter(k, c) + 1
  BY <1>7, <1>8, <1>9
<1>11. PICK s \in S : Same(s, k, l)
  BY TreeAt
<1>12. s \in Key /\ \A i \in 0..KeyLen : i <= l => Same(s, k, i)
  BY <1>1, <1>11, SameShorter
<1>13. Same(u, s, c) /\ ~Same(u, s, c + 1)
  <2>1. Same(s, k, c) /\ Same(s, k, c + 1)
    BY <1>2, <1>4, <1>5, <1>12
  <2>2. QED
    BY <1>6, <2>1 DEF Same
<1>14. PICK m \in Level : /\ m <= c /\ Prefix(s, m) \in DOMAIN t.node
                          /\ t.node[Prefix(s, m)].dlen = c
  BY <1>5, <1>13, NodeWhereKeysPart
<1>15. m \in 0..KeyLen /\ m \in Nat /\ m < l
  BY <1>1, <1>4, <1>5, <1>14, LengthFacts
<1>16. Prefix(s, m) = Prefix(k, m)
  <2>1. Same(s, k, m)
    BY <1>12, <1>15
  <2>2. QED
    BY <1>12, <1>15, <2>1, PrefixFacts
<1> DEFINE n == t.node[Prefix(k, m)]
<1>17. Node(S, k, m, n) /\ n.dlen = c
  BY <1>14, <1>16, TreeAt
<1>18. Same(u, k, m)
  BY <1>2, <1>14, <1>15
<1>19. DigitAfter(u, c) \in n.kids
  BY <1>5, <1>17, <1>18 DEF Node
<1>20. DigitAfter(u, c) \in Beyond(t, k, m)
  BY <1>10, <1>17, <1>19 DEF Beyond, Children
<1>21. QED
  BY <1>14, <1>15, <1>16, <1>17, <1>20 DEF c

\* The way up, and on in the bitmaps, finds the next key.
LEMMA ParentPathFacts ==
  ASSUME NEW t, NEW S, TrieOf(t, S), S \subseteq Key, NEW k \in Key, NEW l \in Level,
         Prefix(k, l) \in DOMAIN t.node, Clear(S, k, l)
  PROVE  Outcome(t, S, k, ParentPath(t, k, l))
<1> DEFINE up == {m \in PathLevels(t, k) : m < l /\ Beyond(t, k, m) # {}}
<1>1. \A m : m \in up <=> /\ m \in Level /\ Prefix(k, m) \in DOMAIN t.node
                          /\ m < l /\ Beyond(t, k, m) # {}
  BY DEF PathLevels, Has
<1>2. /\ TopLen \in Nat /\ TopLen + 1 \in 0..KeyLen /\ KeyLen \in Nat /\ l \in Nat
      /\ l \in 0..KeyLen
      /\ \A i \in Level : i \in Nat /\ i \in 0..KeyLen /\ i >= TopLen + 1 /\ i <= KeyLen
  BY LengthFacts
<1>3. CASE up = {}
  <2>1. Clear(S, k, TopLen + 1)
    BY <1>1, <1>3, Turn DEF Clear, TrieOf
  <2>2. ParentPath(t, k, l) = FlatMapping(t, k)
    BY <1>3 DEF ParentPath
  <2>3. QED
    BY <2>1, <2>2, FlatMappingFacts
<1>4. CASE up # {}
  <2> DEFINE m == Max(up)
             p == Prefix(k, m)
             n == t.node[p]
             d == n.dlen
             D == Beyond(t, k, m)
             P == Lookup(Child(Prefix(k, d), Min(D)))
  <2>1. ParentPath(t, k, l) = P
    BY <1>4 DEF ParentPath
  <2>2. up \subseteq Nat /\ \A i \in up : i <= KeyLen
    BY <1>1, <1>2
  <2> HIDE DEF up
  <2>3. m \in up /\ \A i \in up : i <= m
    BY <1>2, <1>4, <2>2, MaxFacts
  <2> HIDE DEF m
  <2>4. /\ m \in Level /\ p \in DOMAIN t.node /\ m < l /\ D # {} /\ m \in Nat
        /\ m \in 0..KeyLen /\ m >= TopLen + 1
    BY <1>1, <1>2, <2>3
  <2>5. Node(S, k, m, n)
    BY <2>4, TreeAt DEF TrieOf
  <2>6. d \in m..(l - 1) /\ Same(n.mkey, k, d)
    BY <2>4, NodeAbove DEF TrieOf
  <2>7. D = {e \in n.kids : e >= DigitAfter(k, d) + 1}
    BY DEF Beyond, Children
  <2> HIDE DEF n, D
  <2>8. d < KeyLen /\ d \in Nat /\ d + 1 \in 0..KeyLen /\ d >= m /\ TopLen + 1 <= d + 1
    BY <1>2, <2>4, <2>6
  <2>9. ASSUME NEW u \in S, Same(u, k, d + 1), ~(u < k)
        PROVE  FALSE
    <3>1. u \in Key /\ Same(u, k, TopLen + 1)
      BY <1>2, <2>8, <2>9, SameShorter
    <3>2. PICK i \in Level : /\ i < l /\ Prefix(k, i) \in DOMAIN t.node /\ Beyond(t, k, i) # {}
                             /\ t.node[Prefix(k, i)].dlen = LCP(u, k)
      BY <2>9, <3>1, Turn DEF TrieOf
    <3>3. i \in up /\ i <= m /\ i \in Nat
      BY <1>1, <1>2, <2>3, <3>2
    <3>4. d + 1 <= LCP(u, k) /\ LCP(u, k) \in Nat
      BY <2>8, <2>9, <3>1, LCPFacts
    <3>5. CASE i = m
      BY <2>8, <3>2, <3>4, <3>5 DEF n
    <3>6. CASE i < m
      <4>1. t.node[Prefix(k, i)].dlen \in i..(m - 1)
        BY <2>4, <3>2, <3>6, NodeAbove DEF TrieOf
      <4>2. QED
        BY <2>4, <2>8, <3>2, <3>3, <3>4, <4>1
    <3>7. QED
      BY <2>4, <3>3, <3>5, <3>6
  <2>10. Clear(S, k, d + 1)
    BY <2>9 DEF Clear
  <2>11. Answer(t, S, k, P)
    BY <2>4, <2>5, <2>6, <2>7, <2>8, <2>10, NextChild DEF TrieOf
  <2>12. P # NoPromise
    <3>1. P.kind = "lookup" /\ NoPromise.kind = "none"
      BY DEF Lookup, NoPromise
    <3>2. QED
      BY <3>1
  <2>13. QED
    BY <2>1, <2>11, <2>12 DEF Outcome
<1>5. QED
  BY <1>3, <1>4

\* LowerBound hands out a promise for the least key that is not below k, and none
\* only if there is no such key.
LEMMA LowerBoundFacts ==
  ASSUME NEW t, NEW S, TrieOf(t, S), S \subseteq Key, NEW k \in Key
  PROVE  Outcome(t, S, k, LowerBoundInternal(t, k))
<1> DEFINE q == QueryLCP(t, k)
           c == q.lcp
           l == q.ilen
           p == Prefix(k, l)
           n == t.node[p]
           m == n.mkey
           below == Children(t, p, DigitAfter(k, c))
<1>1. /\ c \in TopLen..KeyLen
      /\ \A u \in S, i \in Level : Same(u, k, i) => i <= c
      /\ c # TopLen => Deepest(t, S, k, q)
  BY QueryFacts DEF TrieOf
<1>2. /\ TopLen \in Nat /\ TopLen + 1 \in Level /\ KeyLen \in Nat /\ KeyLen # TopLen
      /\ \A i \in Level : i \in Nat /\ i \in 0..KeyLen
      /\ \A u \in Key : u \in Nat
  BY LengthFacts, SameFacts DEF Level
<1>3. CASE c = TopLen
  <2>1. LowerBoundInternal(t, k) = FlatMapping(t, k)
    BY <1>2, <1>3 DEF LowerBoundInternal
  <2> HIDE DEF q
  <2>2. Clear(S, k, TopLen + 1)
    BY <1>1, <1>2, <1>3 DEF Clear
  <2>3. QED
    BY <2>1, <2>2, FlatMappingFacts
<1>4. CASE c # TopLen
  <2>1. /\ l \in Level /\ p \in DOMAIN t.node /\ l <= c /\ c <= n.dlen
        /\ Same(m, k, c) /\ Node(S, k, l, n)
    BY <1>1, <1>4 DEF Deepest
  <2>2. /\ LowerBoundInternal(t, k) =
             IF c = KeyLen THEN Direct(p)
             ELSE IF n.dlen = c
             THEN IF below # {} THEN Lookup(Child(Prefix(k, c), Min(below)))
                  ELSE ParentPath(t, k, l)
             ELSE IF k < m THEN Direct(p) ELSE ParentPath(t, k, l)
    BY <1>4 DEF LowerBoundInternal
  <2> DEFINE P == Direct(p)
  <2>3. P.node = p /\ P.kind = "direct" /\ Resolve(t, P) = m /\ P # NoPromise
    <3>1. P.node = p /\ P.kind = "direct" /\ NoPromise.kind = "none"
      BY DEF Direct, NoPromise
    <3>2. Resolve(t, P) = m
      BY <3>1 DEF Resolve
    <3>3. QED
      BY <3>1, <3>2
  <2>4. /\ m \in S /\ m \in Key /\ m \in Nat /\ k \in Nat /\ Same(m, k, l) /\ Same(k, m, l)
        /\ n.dlen \in Nat /\ n.dlen \in 0..KeyLen
        /\ \A u \in S : Same(u, k, l) => m <= u /\ Same(u, m, n.dlen)
    <3>1. m \in S /\ Same(m, k, l) /\ n.dlen \in l..KeyLen
          /\ \A u \in S : Same(u, k, l) => m <= u /\ Same(u, m, n.dlen)
      BY <2>1 DEF Node
    <3> HIDE DEF n, q
    <3>2. QED
      BY <1>2, <2>1, <3>1 DEF Same
  <2>5. c \in Nat /\ c \in 0..KeyLen /\ c \in Level /\ l \in 0..KeyLen /\ l \in Nat
    BY <1>1, <1>2, <2>1 DEF Level
  <2> HIDE DEF P, q, n
  <2>6. ASSUME k <= m
        PROVE  Answer(t, S, k, P)
    <3>1. ASSUME NEW u \in S, k <= u
          PROVE  m <= u
      <4>1. CASE Same(u, k, l)
        BY <2>4, <4>1
      <4>2. CASE ~Same(u, k, l)
        <5>1. ~Same(k, u, l) /\ k # u /\ u \in Nat
          BY <1>2, <4>2 DEF Same
        <5>2. k < u
          BY <2>4, <3>1, <5>1
        <5>3. m < u
          BY <2>4, <2>5, <5>1, <5>2, Together
        <5>4. QED
          BY <2>4, <5>1, <5>3
      <4>3. QED
        BY <4>1, <4>2
    <3>2. P.kind # "lookup"
      BY <2>3
    <3>3. QED
      BY <2>1, <2>3, <2>4, <2>6, <3>1, <3>2 DEF Answer
  <2>7. CASE c = KeyLen
    <3>1. m = k
      BY <2>1, <2>4, <2>7, SameFacts
    <3>2. Answer(t, S, k, P)
      BY <2>4, <2>6, <3>1
    <3>3. LowerBoundInternal(t, k) = P
      BY <2>2, <2>7 DEF P
    <3>4. QED
      BY <2>3, <3>2, <3>3 DEF Outcome
  <2>8. CASE c # KeyLen /\ n.dlen = c
    <3>1. c < KeyLen /\ c + 1 \in Level /\ c + 1 \in 0..KeyLen
      BY <1>2, <2>5, <2>8 DEF Level
    <3>2. \A u \in S : ~Same(u, k, c + 1)
      BY <1>1, <2>5, <3>1
    <3>3. Clear(S, k, n.dlen + 1) /\ Same(n.mkey, k, n.dlen) /\ n.dlen < KeyLen
      BY <2>1, <2>8, <3>1, <3>2 DEF Clear
    <3>4. \A u \in Key : DigitAfter(u, c) \in Int
      BY <2>5, <3>1, ValueFacts DEF Digit
    <3>5. below = {e \in n.kids : e >= DigitAfter(k, c)}
      BY DEF Children, n
    <3>6. \A e : e \in n.kids <=> \E u \in S : Same(u, k, l) /\ e = DigitAfter(u, c)
      BY <2>1, <2>8, <3>1 DEF Node
    <3>7. \A u \in S : Same(u, k, l) => u \in Key /\ Same(u, k, c)
                                          /\ DigitAfter(u, c) # DigitAfter(k, c)
      <4>1. SUFFICES ASSUME NEW u \in S, Same(u, k, l)
                     PROVE  Same(u, k, c) /\ DigitAfter(u, c) # DigitAfter(k, c)
        OBVIOUS
      <4>2. Same(u, k, c)
        BY <2>1, <2>4, <2>8, <4>1 DEF Same
      <4>3. QED
        BY <2>5, <3>1, <3>2, <4>2, SameNext
    <3> DEFINE D == {e \in n.kids : e >= DigitAfter(k, n.dlen) + 1}
    <3>8. below = D
      <4>1. \A e \in n.kids : e \in Int /\ e # DigitAfter(k, c)
        BY <3>4, <3>6, <3>7
      <4>2. DigitAfter(k, c) \in Int
        BY <3>4
      <4>3. \A e \in n.kids : e >= DigitAfter(k, c) <=> e >= DigitAfter(k, c) + 1
        BY <4>1, <4>2
      <4>4. QED
        BY <2>8, <3>5, <4>3
    <3> HIDE DEF below
    <3>9. CASE below # {}
      <4> DEFINE L == Lookup(Child(Prefix(k, c), Min(below)))
      <4>1. LowerBoundInternal(t, k) = L
        BY <2>2, <2>8, <3>9
      <4>2. Answer(t, S, k, Lookup(Child(Prefix(k, n.dlen), Min(D))))
        <5>1. D # {}
          BY <3>8, <3>9
        <5> HIDE DEF D
        <5>2. D = {e \in n.kids : e >= DigitAfter(k, n.dlen) + 1}
          BY DEF D
        <5>3. QED
          BY <2>1, <3>3, <5>1, <5>2, NextChild DEF TrieOf
      <4>3. Answer(t, S, k, L)
        BY <2>8, <3>8, <4>2
      <4>4. L # NoPromise
        <5>1. L.kind = "lookup" /\ NoPromise.kind = "none"
          BY DEF Lookup, NoPromise
        <5>2. QED
          BY <5>1
      <4>5. QED
        BY <4>1, <4>3, <4>4 DEF Outcome
    <3>10. CASE below = {}
      <4>1. ASSUME NEW u \in S, Same(u, k, l)
            PROVE  u < k
        <5>1. u \in Key /\ Same(u, k, c) /\ DigitAfter(u, c) \in n.kids
          BY <3>6, <3>7, <4>1
        <5>2. ~(DigitAfter(u, c) >= DigitAfter(k, c))
          BY <3>5, <3>10, <5>1
        <5>3. DigitAfter(u, c) < DigitAfter(k, c)
          BY <3>4, <5>1, <5>2
        <5>4. QED
          BY <2>5, <3>1, <5>1, <5>3, DigitOrder
      <4>2. Clear(S, k, l)
        BY <4>1 DEF Clear
      <4>3. LowerBoundInternal(t, k) = ParentPath(t, k, l)
        BY <2>2, <2>8, <3>10
      <4>4. QED
        BY <2>1, <4>2, <4>3, ParentPathFacts
    <3>11. QED
      BY <3>9, <3>10
  <2>9. CASE c # KeyLen /\ n.dlen # c /\ k < m
    <3>1. LowerBoundInternal(t, k) = P
      BY <2>2, <2>9 DEF P
    <3>2. QED
      BY <2>3, <2>4, <2>6, <2>9, <3>1 DEF Outcome
  <2>10. CASE c # KeyLen /\ n.dlen # c /\ ~(k < m)
    <3>1. c < KeyLen /\ c + 1 \in Level /\ c + 1 \in 0..KeyLen /\ c + 1 <= n.dlen
      BY <1>2, <2>1, <2>4, <2>5, <2>10 DEF Level
    <3>2. ~Same(m, k, c + 1)
      BY <1>1, <2>4, <2>5, <3>1
    <3>3. m < k
      <4>1. m # k
        BY <3>2 DEF Same
      <4>2. QED
        BY <2>4, <2>10, <4>1
    <3>4. ASSUME NEW u \in S, Same(u, k, l)
          PROVE  u < k
      <4>1. u \in Key /\ Same(u, m, n.dlen)
        BY <2>4, <3>4
      <4>2. Same(u, m, c + 1)
        BY <2>4, <3>1, <4>1, SameShorter
      <4>3. Same(m, u, c + 1)
        BY <4>2 DEF Same
      <4>4. QED
        BY <2>4, <3>1, <3>2, <3>3, <4>1, <4>3, Together
    <3>5. Clear(S, k, l)
      BY <3>4 DEF Clear
    <3>6. LowerBoundInternal(t, k) = ParentPath(t, k, l)
      BY <2>2, <2>10
    <3>7. QED
      BY <2>1, <3>5, <3>6, ParentPathFacts
  <2>11. QED
    BY <2>7, <2>8, <2>9, <2>10
<1>5. QED
  BY <1>3, <1>4
=============================================================================
