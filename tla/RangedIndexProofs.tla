------------------------- MODULE RangedIndexProofs --------------------------
(* Proofs about RangedIndex: whatever ranges and single keys are inserted,   *)
(* Exist finds their keys and no others, and LowerBound answers with one of  *)
(* them, for keys of any number of digits in any base.                       *)
EXTENDS RangedIndex, TrieProofs, SequenceTheorems

Cut == INSTANCE RangeDecompositionProofs

-----------------------------------------------------------------------------
(* What a trie with ranges is: the tree of some keys, one for every subtree   *)
(* of a range among them, without the leaves of these.                        *)

\* A child without a node is on the path of k.
Under(C, k) == \E l \in Level : Prefix(k, l) \in C

\* The keys there are: the single ones, those of the ranges in the flat bitmaps
\* and those of the subtrees of the others.
Keys(S, G, C) == S \cup G \cup {k \in Key : Under(C, k)}

\* t has the tree f of the keys S without the leaves at C, and the second flat
\* bitmap knows these keys.
Pruned(t, f, S, C) ==
  /\ S \subseteq Key /\ Tree(f, S)
  /\ t.node = [p \in DOMAIN f \ C |-> f[p]]
  /\ \A p \in C : p \in DOMAIN f /\ p[1] # TopLen + 1 /\ f[p].dlen = KeyLen
  /\ \A s \in S : Prefix(s, TopLen) \in t.flat

\* A range in the flat bitmaps has all keys of its prefixes for itself.
Whole(S, G) ==
  /\ G \subseteq Key
  /\ \A k \in G, u \in Key : Same(u, k, TopLen + 1) => u \in G /\ u \notin S

\* The bits of the flat bitmaps.
Bits == {p \in (1..(TopLen + 1)) \X Nat : p[2] \in 0..(Weight[p[1]] - 1)}

\* A trie with ranges; that its bits are exactly those of its keys is said apart.
RangeTrie(t, f, S, G, C) == Pruned(t, f, S, C) /\ Whole(S, G) /\ t.flat \subseteq Bits

\* The trie before the leaves were taken out.
Full(t, f) == [flat |-> t.flat, node |-> f]

-----------------------------------------------------------------------------
(* Exist. *)

\* Below a leaf there is one key and no other node.
LEMMA LeafAlone ==
  ASSUME NEW f, NEW S, Tree(f, S), S \subseteq Key, NEW k \in Key, NEW l \in Level,
         Prefix(k, l) \in DOMAIN f, f[Prefix(k, l)].dlen = KeyLen
  PROVE  /\ \E u \in S : Same(u, k, l) /\ \A w \in S : Same(w, k, l) => w = u
         /\ \A m \in Level : Prefix(k, m) \in DOMAIN f => m <= l
<1> DEFINE n == f[Prefix(k, l)]
<1>1. Node(S, k, l, n) /\ KeyLen \in Nat /\ l \in Nat
  BY TreeAt, LengthFacts
<1> HIDE DEF n
<1>2. n.mkey \in S /\ Same(n.mkey, k, l) /\ n.dlen = KeyLen
  BY <1>1 DEF Node, n
<1>3. ASSUME NEW w \in S, Same(w, k, l)
      PROVE  w = n.mkey
  <2>1. Same(w, n.mkey, KeyLen)
    BY <1>1, <1>2, <1>3 DEF Node
  <2>2. QED
    BY <1>2, <2>1, SameFacts
<1>4. ASSUME NEW m \in Level, Prefix(k, m) \in DOMAIN f
      PROVE  m <= l
  <2>1. CASE l < m
    <3>1. n.dlen \in l..(m - 1)
      BY <1>4, <2>1, NodeAbove DEF n
    <3>2. m \in 1..KeyLen
      BY LengthFacts
    <3>3. QED
      BY <1>1, <1>2, <3>1, <3>2
  <2>2. CASE ~(l < m)
    BY <1>1, <2>2, LengthFacts
  <2>3. QED
    BY <2>1, <2>2
<1>5. QED
  BY <1>2, <1>3, <1>4

\* A key that is not in a range of the nodes is looked up as if no leaf were
\* missing.
LEMMA QueryPruned ==
  ASSUME NEW t, NEW f, NEW S, NEW C, Pruned(t, f, S, C), NEW k \in Key, ~Under(C, k)
  PROVE  /\ PathLevels(t, k) = PathLevels(Full(t, f), k)
         /\ QueryLCP(t, k) = QueryLCP(Full(t, f), k)
         /\ \A l \in Level : /\ Prefix(k, l) \in DOMAIN t.node <=> Prefix(k, l) \in DOMAIN f
                             /\ Prefix(k, l) \in DOMAIN f =>
                                  t.node[Prefix(k, l)] = f[Prefix(k, l)]
<1>1. ASSUME NEW l \in Level
      PROVE  /\ Prefix(k, l) \in DOMAIN t.node <=> Prefix(k, l) \in DOMAIN f
             /\ Prefix(k, l) \in DOMAIN f => t.node[Prefix(k, l)] = f[Prefix(k, l)]
  <2>1. Prefix(k, l) \notin C
    BY DEF Under
  <2>2. t.node = [p \in DOMAIN f \ C |-> f[p]]
    BY DEF Pruned
  <2>3. QED
    BY <2>1, <2>2
<1>2. Full(t, f).node = f
  BY DEF Full
<1>3. PathLevels(t, k) = PathLevels(Full(t, f), k)
  BY <1>1, <1>2 DEF PathLevels, Has
<1>4. CASE PathLevels(t, k) = {}
  BY <1>1, <1>3, <1>4 DEF QueryLCP
<1>5. CASE PathLevels(t, k) # {}
  <2> DEFINE l == Max(PathLevels(t, k))
  <2>1. PathLevels(t, k) \subseteq Level /\ \A m \in Level : m \in Nat /\ m <= KeyLen
    BY LengthFacts DEF PathLevels
  <2>2. l \in PathLevels(t, k)
    BY <1>5, <2>1, MaxFacts, LengthFacts
  <2>3. t.node[Prefix(k, l)] = f[Prefix(k, l)]
    BY <1>1, <2>2 DEF PathLevels, Has
  <2> HIDE DEF l
  <2>4. QueryLCP(t, k) = [ilen |-> l, lcp |-> LCP(k, t.node[Prefix(k, l)].mkey)]
    BY <1>5 DEF QueryLCP, l
  <2>5. QueryLCP(Full(t, f), k) = [ilen |-> l, lcp |-> LCP(k, f[Prefix(k, l)].mkey)]
    BY <1>2, <1>3, <1>5 DEF QueryLCP, l
  <2>6. QED
    BY <1>1, <1>3, <2>3, <2>4, <2>5
<1>6. QED
  BY <1>4, <1>5

\* The path of a key in a range of the nodes ends at the node above the leaf that
\* is missing, which has a child for the key.
LEMMA QueryUnder ==
  ASSUME NEW t, NEW f, NEW S, NEW C, Pruned(t, f, S, C), NEW k \in Key, Under(C, k),
         NEW q, q = QueryLCP(t, k)
  PROVE  LET n == t.node[Prefix(k, q.ilen)]
         IN  /\ q.ilen \in Level /\ q.lcp \in 0..KeyLen /\ q.lcp # TopLen
             /\ q.lcp >= n.dlen /\ n.dlen < KeyLen
             /\ DigitAfter(k, n.dlen) \in n.kids
             /\ q.lcp = LCP(k, n.mkey) /\ n.mkey \in S
<1>1. PICK l \in Level : Prefix(k, l) \in C
  BY DEF Under
<1> DEFINE p == Prefix(k, l)
           d == l - 1
<1>2. /\ Tree(f, S) /\ S \subseteq Key /\ t.node = [r \in DOMAIN f \ C |-> f[r]]
      /\ p \in DOMAIN f /\ p[1] # TopLen + 1 /\ f[p].dlen = KeyLen
  BY <1>1 DEF Pruned
<1>3. /\ l # TopLen + 1 /\ l \in 0..KeyLen /\ l \in Nat /\ TopLen \in Nat /\ KeyLen \in Nat
      /\ d \in Level /\ d \in 0..KeyLen /\ d < KeyLen /\ d + 1 = l /\ d > TopLen
  <2>1. l \in 1..KeyLen /\ l > TopLen /\ TopLen \in Nat /\ KeyLen \in Nat
    BY LengthFacts
  <2>2. p[1] = l
    BY <2>1, PrefixFacts
  <2>3. QED
    BY <1>2, <2>1, <2>2 DEF Level
<1> HIDE DEF d
<1>4. PICK u \in S : Same(u, k, l) /\ \A w \in S : Same(w, k, l) => w = u
  BY <1>2, LeafAlone
<1>5. \A m \in Level : Prefix(k, m) \in DOMAIN f => m <= l
  BY <1>2, LeafAlone
<1>6. u \in Key
  BY <1>2
<1>7. PICK m \in Level : m <= d /\ Prefix(u, m) \in DOMAIN f /\ f[Prefix(u, m)].dlen = d
  <2>1. Branches(S, k, l)
    BY <1>2, TreeAt
  <2>2. PICK w \in S : Same(w, k, d) /\ ~Same(w, k, l)
    BY <1>3, <2>1 DEF Branches, d
  <2>3. Same(w, u, d) /\ ~Same(w, u, d + 1)
    <3>1. Same(u, k, d)
      BY <1>3, <1>4, <1>6, SameShorter
    <3>2. QED
      BY <1>3, <1>4, <2>2, <3>1 DEF Same
  <2>4. QED
    BY <1>2, <1>3, <2>3, NodeWhereKeysPart
<1>8. Prefix(u, m) = Prefix(k, m) /\ m \in 0..KeyLen /\ m \in Nat /\ m < l
  <2>1. m \in 0..KeyLen /\ m \in Nat /\ m <= l
    BY <1>3, <1>7, LengthFacts
  <2>2. Same(u, k, m)
    BY <1>3, <1>4, <1>6, <2>1, SameShorter
  <2>3. QED
    BY <1>3, <1>6, <1>7, <2>1, <2>2, PrefixFacts
<1>9. ASSUME NEW j \in Level, Prefix(k, j) \in DOMAIN f, j # l
      PROVE  j <= m
  <2>1. j \in Nat /\ j <= l
    BY <1>5, <1>9, LengthFacts
  <2>2. CASE m < j
    <3>1. f[Prefix(k, m)].dlen \in m..(j - 1)
      BY <1>2, <1>7, <1>8, <1>9, <2>2, NodeAbove
    <3>2. QED
      BY <1>3, <1>7, <1>8, <1>9, <2>1, <3>1
  <2>3. QED
    BY <1>8, <2>1, <2>2
<1>10. Prefix(k, m) \notin C
  <2>1. f[Prefix(k, m)].dlen # KeyLen
    BY <1>3, <1>7, <1>8
  <2>2. QED
    BY <2>1 DEF Pruned
<1>11. /\ m \in PathLevels(t, k) /\ \A j \in PathLevels(t, k) : j <= m
       /\ PathLevels(t, k) \subseteq Nat
  BY <1>1, <1>2, <1>7, <1>8, <1>9, <1>10, LengthFacts DEF PathLevels, Has
<1>12. Max(PathLevels(t, k)) = m
  <2>1. /\ Max(PathLevels(t, k)) \in PathLevels(t, k)
        /\ \A j \in PathLevels(t, k) : j <= Max(PathLevels(t, k))
    BY <1>8, <1>11, MaxFacts
  <2>2. QED
    BY <1>8, <1>11, <2>1
<1> DEFINE n == f[Prefix(k, m)]
<1>13. t.node[Prefix(k, m)] = n
  BY <1>2, <1>7, <1>8, <1>10
<1>14. q = [ilen |-> m, lcp |-> LCP(k, n.mkey)]
  BY <1>11, <1>12, <1>13 DEF QueryLCP
<1>15. Node(S, k, m, n) /\ n.dlen = d
  BY <1>2, <1>7, <1>8, TreeAt
<1> HIDE DEF n
<1>16. /\ n.mkey \in S /\ n.mkey \in Key
       /\ Same(u, n.mkey, d) /\ DigitAfter(u, d) \in n.kids
  <2>1. Same(u, k, m)
    BY <1>6, <1>8, PrefixFacts
  <2>2. QED
    BY <1>2, <1>3, <1>15, <2>1 DEF Node
<1>17. Same(u, k, d) /\ DigitAfter(u, d) = DigitAfter(k, d)
  BY <1>3, <1>4, <1>6, SameNext
<1>18. Same(k, n.mkey, d)
  BY <1>16, <1>17 DEF Same
<1>19. LCP(k, n.mkey) \in 0..KeyLen /\ d <= LCP(k, n.mkey)
  BY <1>3, <1>16, <1>18, LCPFacts
<1>20. QED
  BY <1>3, <1>13, <1>14, <1>15, <1>16, <1>17, <1>19

\* Bits that are set for a key's first digits are those of a key there.
LEMMA CoveredFacts ==
  ASSUME NEW t, NEW A, t.flat = Flat(A), A \subseteq Key, NEW k \in Key
  PROVE  CoveredByTop(t, k) <=> \E u \in A : Same(u, k, TopLen + 1)
<1>1. /\ TopLen + 1 \in 1..(TopLen + 1) /\ TopLen + 1 \in 0..KeyLen
      /\ \A n \in 1..(TopLen + 1) : n \in 0..KeyLen /\ n <= TopLen + 1
  BY LengthFacts
<1>2. CoveredByTop(t, k) => \E u \in A : Same(u, k, TopLen + 1)
  BY <1>1, FlatAt DEF CoveredByTop
<1>3. ASSUME NEW u \in A, Same(u, k, TopLen + 1), NEW n \in 1..(TopLen + 1)
      PROVE  Prefix(k, n) \in t.flat
  <2>1. Same(u, k, n)
    BY <1>1, <1>3, SameShorter
  <2>2. QED
    BY <2>1, FlatAt
<1>4. QED
  BY <1>2, <1>3 DEF CoveredByTop

\* A key that is not there and parts from all keys of the nodes: it agrees with
\* the node at the end of its path in at least the flat levels, and is not in the
\* flat bitmaps' ranges.
LEMMA PartsFromNode ==
  ASSUME NEW t, NEW f, NEW S, NEW G, NEW C, RangeTrie(t, f, S, G, C),
         NEW k \in Key, ~Under(C, k), NEW q, q = QueryLCP(t, k), q.lcp # TopLen
  PROVE  /\ Deepest(Full(t, f), S, k, q) /\ q.lcp \in Level
         /\ k \notin G
         /\ t.node[Prefix(k, q.ilen)] = f[Prefix(k, q.ilen)]
<1>1. /\ Tree(f, S) /\ S \subseteq Key /\ Full(t, f).node = f
      /\ Whole(S, G) /\ Pruned(t, f, S, C)
  BY DEF RangeTrie, Pruned, Full
<1>2. q = QueryLCP(Full(t, f), k)
  BY <1>1, QueryPruned
<1>3. Deepest(Full(t, f), S, k, q) /\ q.lcp \in TopLen..KeyLen
  BY <1>1, <1>2, QueryFacts
<1>4. /\ q.lcp \in Level /\ q.lcp \in 0..KeyLen /\ TopLen + 1 \in 0..KeyLen
      /\ TopLen + 1 <= q.lcp
  BY <1>3, LengthFacts DEF Level
<1> DEFINE n == f[Prefix(k, q.ilen)]
<1>5. n.mkey \in S /\ Same(n.mkey, k, q.lcp)
  BY <1>1, <1>3 DEF Deepest, Node
<1> HIDE DEF n
<1>6. Same(n.mkey, k, TopLen + 1) /\ n.mkey \in Key
  BY <1>1, <1>4, <1>5, SameShorter
<1>7. k \notin G
  BY <1>1, <1>5, <1>6 DEF Whole
<1>8. t.node[Prefix(k, q.ilen)] = f[Prefix(k, q.ilen)]
  BY <1>1, <1>3, QueryPruned DEF Deepest
<1>9. QED
  BY <1>3, <1>4, <1>7, <1>8

\* Exist finds exactly the keys that are there.
LEMMA ExistsFacts ==
  ASSUME NEW t, NEW f, NEW S, NEW G, NEW C, RangeTrie(t, f, S, G, C),
         t.flat = Flat(S \cup G), NEW k \in Key
  PROVE  Exists(t, k) <=> k \in Keys(S, G, C)
<1> DEFINE q == QueryLCP(t, k)
<1>1. /\ Pruned(t, f, S, C) /\ Whole(S, G) /\ S \subseteq Key /\ G \subseteq Key
      /\ Tree(f, S) /\ Full(t, f).node = f
  BY DEF RangeTrie, Pruned, Whole, Full
<1>2. k \in Keys(S, G, C) <=> k \in S \/ k \in G \/ Under(C, k)
  BY DEF Keys
<1>3. TopLen \in Nat /\ KeyLen \in Nat /\ TopLen + 2 <= KeyLen
  BY LengthFacts
<1>4. CASE Under(C, k)
  <2>1. LET n == t.node[Prefix(k, q.ilen)]
        IN  /\ q.ilen \in Level /\ q.lcp \in 0..KeyLen /\ q.lcp # TopLen
            /\ q.lcp >= n.dlen /\ n.dlen < KeyLen /\ DigitAfter(k, n.dlen) \in n.kids
    BY <1>1, <1>4, QueryUnder
  <2>2. q.ilen > 0
    BY <2>1, LengthFacts
  <2>3. q.lcp < KeyLen => InRange(t, k)
    BY <2>1, <2>2 DEF InRange
  <2>4. q.lcp < KeyLen \/ q.lcp = KeyLen
    BY <1>3, <2>1
  <2>5. Exists(t, k)
    BY <2>1, <2>3, <2>4 DEF Exists
  <2>6. QED
    BY <1>2, <1>4, <2>5
<1>5. CASE ~Under(C, k)
  <2>1. /\ q = QueryLCP(Full(t, f), k) /\ q.lcp \in TopLen..KeyLen
        /\ \A u \in S, n \in Level : Same(u, k, n) => n <= q.lcp
        /\ q.lcp = KeyLen <=> k \in S
    <3>1. q = QueryLCP(Full(t, f), k)
      BY <1>1, <1>5, QueryPruned
    <3>2. Contains(Full(t, f), k) <=> k \in S
      BY <1>1, ContainsFacts
    <3> HIDE DEF q
    <3>3. q.lcp \in TopLen..KeyLen /\ \A u \in S, n \in Level : Same(u, k, n) => n <= q.lcp
      BY <1>1, <3>1, QueryFacts
    <3>4. QED
      BY <3>1, <3>2, <3>3 DEF Contains
  <2>2. CASE q.lcp = TopLen
    <3>1. \A u \in S : ~Same(u, k, TopLen + 1)
      <4>1. TopLen + 1 \in Level /\ ~(TopLen + 1 <= TopLen)
        BY <1>3 DEF Level
      <4>2. QED
        BY <2>1, <2>2, <4>1
    <3>2. CoveredByTop(t, k) <=> \E u \in S \cup G : Same(u, k, TopLen + 1)
      BY <1>1, CoveredFacts
    <3>3. CoveredByTop(t, k) <=> k \in G
      <4>1. Same(k, k, TopLen + 1) /\ \A u : Same(u, k, TopLen + 1) => Same(k, u, TopLen + 1)
        BY DEF Same
      <4>2. QED
        BY <1>1, <3>1, <3>2, <4>1 DEF Whole
    <3>4. Exists(t, k) <=> CoveredByTop(t, k)
      BY <2>2 DEF Exists
    <3>5. QED
      BY <1>2, <1>3, <1>5, <2>1, <2>2, <3>3, <3>4
  <2>3. CASE q.lcp # TopLen
    <3>1. /\ Deepest(Full(t, f), S, k, q) /\ k \notin G
          /\ t.node[Prefix(k, q.ilen)] = f[Prefix(k, q.ilen)]
      BY <1>5, <2>3, PartsFromNode
    <3> DEFINE l == q.ilen
               n == f[Prefix(k, l)]
    <3>2. /\ l \in Level /\ Node(S, k, l, n) /\ Same(n.mkey, k, q.lcp)
          /\ \A m \in PathLevels(Full(t, f), k) : m <= l
      BY <1>1, <3>1 DEF Deepest
    <3>3. ~InRange(t, k)
      <4> SUFFICES ASSUME q.lcp < KeyLen, q.lcp >= n.dlen, DigitAfter(k, n.dlen) \in n.kids
                   PROVE  FALSE
        BY <3>1 DEF InRange
      <4> HIDE DEF q, n, l
      <4>1. n.dlen \in l..KeyLen /\ l \in 0..KeyLen /\ l \in Nat
        BY <3>2, LengthFacts DEF Node
      <4>2. /\ n.dlen < KeyLen /\ n.dlen \in 0..KeyLen /\ q.lcp \in 0..KeyLen
            /\ n.dlen + 1 \in Level /\ n.dlen + 1 > l /\ n.dlen + 1 \in 0..KeyLen
        BY <1>3, <2>1, <3>2, <4>1 DEF Level
      <4>3. PICK s \in S : Same(s, k, l) /\ DigitAfter(k, n.dlen) = DigitAfter(s, n.dlen)
        BY <3>2 DEF Node
      <4>4. Same(s, k, n.dlen)
        <5>1. Same(n.mkey, k, n.dlen)
          BY <1>1, <3>2, <4>2, SameShorter DEF Node
        <5>2. Same(s, n.mkey, n.dlen)
          BY <3>2, <4>3 DEF Node
        <5>3. QED
          BY <5>1, <5>2 DEF Same
      <4>5. Same(s, k, n.dlen + 1) /\ s \in Key
        BY <1>1, <4>2, <4>3, <4>4, SameNext
      <4>6. Prefix(s, n.dlen + 1) \in DOMAIN f
        BY <1>1, <3>2, <4>2, <4>3, NodeBelow
      <4>7. Prefix(s, n.dlen + 1) = Prefix(k, n.dlen + 1)
        BY <4>2, <4>5, PrefixFacts
      <4>8. n.dlen + 1 \in PathLevels(Full(t, f), k)
        BY <1>1, <4>2, <4>6, <4>7 DEF PathLevels, Has
      <4>9. QED
        BY <3>2, <4>1, <4>2, <4>8
    <3>4. Exists(t, k) <=> q.lcp = KeyLen
      BY <2>3, <3>3 DEF Exists
    <3>5. QED
      BY <1>2, <1>5, <2>1, <3>1, <3>4
  <2>4. QED
    BY <2>2, <2>3
<1>6. QED
  BY <1>4, <1>5

-----------------------------------------------------------------------------
(* Keys put together from digits.                                             *)

\* Any n digits and any rest make a key.
LEMMA KeyOf ==
  ASSUME NEW n \in 0..KeyLen, NEW v \in 0..(Weight[n] - 1),
         NEW r \in 0..(Weight[KeyLen - n] - 1)
  PROVE  /\ v * Weight[KeyLen - n] + r \in Key
         /\ Value(v * Weight[KeyLen - n] + r, n) = v
<1> DEFINE W == Weight[KeyLen - n]
           x == v * W + r
<1>1. /\ KeyLen \in 0..KeyLen /\ n <= KeyLen /\ KeyLen - n \in 0..KeyLen
      /\ KeyLen - n <= KeyLen /\ KeyLen - (KeyLen - n) = n
  BY KeyLenAssumption
<1>2. W \in Nat \ {0} /\ Weight[n] \in Nat \ {0} /\ Weight[KeyLen] \in Nat \ {0}
  BY <1>1, WeightFacts
<1>3. Weight[KeyLen] = Weight[n] * W
  BY <1>1, WeightDivides
<1> HIDE DEF W
<1>4. v \in Nat /\ r \in Nat /\ r < W /\ v + 1 <= Weight[n] /\ v + 1 \in Nat
  BY <1>2 DEF W
<1>5. x \div W = v
  BY <1>2, <1>4, DivisionUnique
<1>6. v * W \in Nat /\ (v + 1) * W = v * W + W
  BY <1>2, <1>4
<1>7. (v + 1) * W <= Weight[n] * W
  BY <1>2, <1>4, ProductMonotonic
<1>8. x \in Nat /\ x < Weight[KeyLen]
  BY <1>2, <1>3, <1>4, <1>6, <1>7
<1>9. x \in Key
  BY <1>2, <1>8 DEF Key
<1>10. QED
  BY <1>5, <1>9 DEF Value, W

\* The first key with a prefix has it.
LEMMA FirstKeyFacts ==
  ASSUME NEW u \in Key, NEW n \in 0..KeyLen
  PROVE  FirstKey(Prefix(u, n)) \in Key /\ Same(FirstKey(Prefix(u, n)), u, n)
<1> DEFINE v == Value(u, n)
           W == Weight[KeyLen - n]
<1>1. v \in 0..(Weight[n] - 1) /\ v \in Nat
  BY ValueFacts
<1>2. W \in Nat \ {0}
  BY WeightFacts, KeyLenAssumption
<1>3. FirstKey(Prefix(u, n)) = v * W
  BY PrefixFacts DEF FirstKey
<1>4. 0 \in 0..(W - 1)
  BY <1>2
<1>5. v * W + 0 \in Key /\ Value(v * W + 0, n) = v
  BY <1>1, <1>4, KeyOf
<1> HIDE DEF v, W
<1>6. v * W + 0 = v * W
  BY <1>1, <1>2
<1>7. QED
  BY <1>3, <1>5, <1>6 DEF Same, v

\* A key with one digit replaced.
LEMMA ReplaceFacts ==
  ASSUME NEW k \in Key, NEW n \in 0..KeyLen, n < KeyLen, NEW d \in Digit
  PROVE  LET x == ReplaceDigit(k, n, d)
         IN  x \in Key /\ Same(x, k, n) /\ DigitAfter(x, n) = d
<1> DEFINE W == Weight[KeyLen - n - 1]
           e == DigitAfter(k, n)
           u == Value(k, n)
           v == u * Base + d
           r == k % W
           x == ReplaceDigit(k, n, d)
<1>1. /\ n + 1 \in 0..KeyLen /\ n \in Nat /\ KeyLen - (n + 1) = KeyLen - n - 1
      /\ KeyLen - n - 1 \in 0..KeyLen /\ n \in 0..(KeyLen - 1)
  BY KeyLenAssumption
<1>2. W \in Nat \ {0} /\ Weight[n] \in Nat \ {0} /\ Weight[n + 1] = Base * Weight[n]
  BY <1>1, WeightFacts
<1>3. Base \in Nat \ {0} /\ Base >= 2 /\ d \in Nat /\ d < Base /\ k \in Nat
  BY BaseAssumption, SameFacts DEF Digit
<1>4. /\ u \in Nat /\ u <= Weight[n] - 1 /\ e \in Nat /\ e < Base
      /\ Value(k, n + 1) = u * Base + e
  BY <1>2, <1>3, ValueFacts DEF Digit
<1>5. k = Value(k, n + 1) * W + r /\ r \in 0..(W - 1)
  BY <1>1, <1>2, <1>3, Division DEF Value
<1>6. x = k + (d - e) * W
  BY DEF ReplaceDigit
<1> HIDE DEF W, e, u, r, x
<1>7. u * Base \in Nat
  BY <1>3, <1>4
<1>8. v \in 0..(Weight[n + 1] - 1)
  <2>1. u * Base <= (Weight[n] - 1) * Base
    BY <1>2, <1>3, <1>4, ProductMonotonic
  <2>2. (Weight[n] - 1) * Base = Weight[n + 1] - Base
    BY <1>2, <1>3
  <2>3. QED
    BY <1>2, <1>3, <1>7, <2>1, <2>2
<1>9. x = v * W + r
  <2>1. k = (u * Base + e) * W + r
    BY <1>4, <1>5
  <2>2. (u * Base + e) * W + (d - e) * W = (u * Base + d) * W
    BY <1>2, <1>3, <1>4, <1>7
  <2>3. r \in Int /\ (u * Base + e) * W \in Int /\ (d - e) * W \in Int
    BY <1>2, <1>3, <1>4, <1>5, <1>7
  <2>4. QED
    BY <1>6, <2>1, <2>2, <2>3
<1>10. x \in Key /\ Value(x, n + 1) = v
  BY <1>1, <1>5, <1>8, <1>9, KeyOf DEF W
<1>11. Value(x, n) = v \div Base /\ v \div Base = u /\ DigitAfter(x, n) = v % Base /\ v % Base = d
  <2>1. Value(x, n + 1) \div Base = Value(x, n)
    BY <1>10, ValueFacts
  <2>2. DigitAfter(x, n) = Value(x, n + 1) % Base
    BY <1>1 DEF DigitAfter, Value
  <2>3. v \div Base = u /\ v % Base = d
    BY <1>3, <1>4, DivisionUnique
  <2>4. QED
    BY <1>10, <2>1, <2>2, <2>3
<1>12. QED
  BY <1>10, <1>11 DEF Same, u, x

-----------------------------------------------------------------------------
(* LowerBound.                                                                *)

\* An answer for k: a key that is there and not below k, or none, when all keys
\* are below k.
Bounds(A, k, b, none) ==
  \/ b \in A /\ k <= b
  \/ b = none /\ \A x \in A : x < k

\* If all keys of the tree are below k, so are those of the ranges.
LEMMA KeysBelow ==
  ASSUME NEW t, NEW f, NEW S, NEW G, NEW C, RangeTrie(t, f, S, G, C),
         NEW k \in Key, ~Under(C, k), \A u \in S \cup G : u < k
  PROVE  \A x \in Keys(S, G, C) : x < k
<1>1. Pruned(t, f, S, C) /\ Tree(f, S) /\ S \subseteq Key
  BY DEF RangeTrie, Pruned
<1>2. ASSUME NEW x \in Key, NEW l \in Level, Prefix(x, l) \in C
      PROVE  x < k
  <2>1. Prefix(x, l) \in DOMAIN f /\ f[Prefix(x, l)].dlen = KeyLen
    BY <1>1, <1>2 DEF Pruned
  <2>2. PICK u \in S : Same(u, x, l)
    BY <1>1, <2>1, LeafAlone
  <2>3. u \in Key /\ l \in 0..KeyLen /\ u < k
    BY <1>1, LengthFacts
  <2>4. Prefix(u, l) = Prefix(x, l) /\ Prefix(k, l) # Prefix(x, l)
    BY <1>2, <2>2, <2>3, PrefixFacts DEF Under
  <2>5. ~Same(u, k, l)
    BY <2>3, <2>4, PrefixFacts
  <2>6. QED
    BY <2>2, <2>3, <2>5, Together
<1>3. QED
  BY <1>2 DEF Keys, Under

\* A child of a node on k's path beyond k's own stands for keys beyond k.
LEMMA ChildBeyond ==
  ASSUME NEW f, NEW S, Tree(f, S), S \subseteq Key, NEW k \in Key, NEW l \in Level,
         NEW n, Node(S, k, l, n), Same(n.mkey, k, n.dlen),
         NEW d \in n.kids, DigitAfter(k, n.dlen) < d
  PROVE  /\ n.dlen \in 0..KeyLen /\ n.dlen < KeyLen /\ n.dlen + 1 \in Level /\ d \in Digit
         /\ \E s \in S : /\ Same(s, k, n.dlen) /\ DigitAfter(s, n.dlen) = d
                         /\ Prefix(s, n.dlen + 1) \in DOMAIN f
                         /\ Child(Prefix(k, n.dlen), d) = Prefix(s, n.dlen + 1)
                         /\ \A x \in Key : Same(x, s, n.dlen + 1) => k < x
<1> DEFINE m == n.dlen
<1>1. m < KeyLen /\ m \in l..KeyLen
  BY DEF Node
<1>2. PICK s \in S : Same(s, k, l) /\ d = DigitAfter(s, m)
  BY DEF Node
<1>3. /\ m \in 0..KeyLen /\ m + 1 \in Level /\ m + 1 \in 0..KeyLen /\ s \in Key
      /\ Prefix(s, m + 1) \in DOMAIN f
  <2>1. m + 1 \in Level /\ Prefix(s, m + 1) \in DOMAIN f
    BY <1>1, <1>2, NodeBelow
  <2>2. QED
    BY <1>1, <2>1, LengthFacts
<1>4. Same(s, k, m)
  <2>1. Same(s, n.mkey, m)
    BY <1>2 DEF Node
  <2>2. QED
    BY <2>1 DEF Same
<1> HIDE DEF m
<1>5. Child(Prefix(k, m), d) = Prefix(s, m + 1)
  <2>1. Value(s, m + 1) = Value(s, m) * Base + DigitAfter(s, m) /\ Value(s, m) = Value(k, m)
    BY <1>1, <1>3, <1>4, ValueFacts DEF Same
  <2>2. QED
    BY <1>2, <1>3, <2>1, PrefixFacts DEF Child
<1>6. ASSUME NEW x \in Key, Same(x, s, m + 1)
      PROVE  k < x
  <2>1. Same(x, s, m) /\ DigitAfter(x, m) = d
    BY <1>1, <1>2, <1>3, <1>6, SameNext
  <2>2. Same(k, x, m)
    BY <1>4, <2>1 DEF Same
  <2>3. QED
    BY <1>1, <1>3, <2>1, <2>2, DigitOrder DEF m
<1>7. d \in Digit
  BY <1>1, <1>2, <1>3, ValueFacts
<1>8. QED
  BY <1>1, <1>2, <1>3, <1>4, <1>5, <1>6, <1>7 DEF m

\* What LowerBound answers of a prefix that a key of the tree has at a node: the
\* smallest key below it, or, when its leaf is missing, a key with that prefix.
LEMMA NodeOrFacts ==
  ASSUME NEW t, NEW f, NEW S, NEW G, NEW C, RangeTrie(t, f, S, G, C), NEW k \in Key,
         NEW s \in S, NEW l \in Level, Prefix(s, l) \in DOMAIN f,
         \A x \in Key : Same(x, s, l) => k < x,
         NEW b \in Key, Same(b, s, l)
  PROVE  NodeOr(t, Prefix(s, l), b) \in Keys(S, G, C) /\ k <= NodeOr(t, Prefix(s, l), b)
<1> DEFINE p == Prefix(s, l)
<1>1. /\ Tree(f, S) /\ S \subseteq Key /\ t.node = [r \in DOMAIN f \ C |-> f[r]]
      /\ l \in 0..KeyLen /\ k \in Nat /\ \A x \in Key : x \in Nat
  BY LengthFacts, SameFacts DEF RangeTrie, Pruned
<1>2. CASE p \in C
  <2>1. NodeOr(t, p, b) = b
    BY <1>1, <1>2 DEF NodeOr, Has
  <2>2. Prefix(b, l) = p
    BY <1>1, PrefixFacts
  <2>3. b \in Keys(S, G, C)
    BY <1>2, <2>2 DEF Keys, Under
  <2>4. k < b /\ b \in Nat /\ k \in Nat
    BY <1>1
  <2> HIDE DEF p
  <2>5. NodeOr(t, p, b) \in Keys(S, G, C) /\ k <= NodeOr(t, p, b)
    BY <2>1, <2>3, <2>4
  <2>6. QED
    BY <2>5 DEF p
<1>3. CASE p \notin C
  <2>1. NodeOr(t, p, b) = f[p].mkey
    BY <1>1, <1>3 DEF NodeOr, Has
  <2>2. Node(S, s, l, f[p])
    BY <1>1, TreeAt
  <2>3. f[p].mkey \in S /\ Same(f[p].mkey, s, l)
    BY <2>2 DEF Node
  <2>4. f[p].mkey \in Key /\ f[p].mkey \in Nat /\ k < f[p].mkey
    BY <1>1, <2>3
  <2>5. f[p].mkey \in Keys(S, G, C)
    BY <2>3 DEF Keys
  <2>6. QED
    BY <1>1, <2>1, <2>4, <2>5
<1>4. QED
  BY <1>2, <1>3

\* The search in the flat bitmaps.
LEMMA FlatLowerBoundFacts ==
  ASSUME NEW t, NEW f, NEW S, NEW G, NEW C, RangeTrie(t, f, S, G, C),
         t.flat = Flat(S \cup G), NEW k \in Key, ~Under(C, k),
         Clear(S \cup G, k, TopLen + 1), NEW none
  PROVE  Bounds(Keys(S, G, C), k, FlatLowerBound(t, k, none), none)
<1> DEFINE A == S \cup G
<1>1. /\ Tree(f, S) /\ S \subseteq Key /\ G \subseteq Key /\ A \subseteq Key /\ Whole(S, G)
      /\ t.node = [r \in DOMAIN f \ C |-> f[r]] /\ Pruned(t, f, S, C)
      /\ TopLen + 1 \in Level /\ TopLen + 1 \in 0..KeyLen
      /\ k \in Nat /\ \A x \in Key : x \in Nat
  <2>1. Pruned(t, f, S, C) /\ Whole(S, G) /\ S \subseteq Key /\ G \subseteq Key
    BY DEF RangeTrie, Pruned, Whole
  <2>2. Tree(f, S) /\ t.node = [r \in DOMAIN f \ C |-> f[r]]
    BY <2>1 DEF Pruned
  <2>3. TopLen + 1 \in Level /\ TopLen + 1 \in 0..KeyLen
    BY LengthFacts DEF Level
  <2>4. k \in Nat /\ \A x \in Key : x \in Nat
    BY SameFacts
  <2>5. QED
    BY <2>1, <2>2, <2>3, <2>4
<1> HIDE DEF A
<1>2. CASE FlatMapping(t, k) = NoPromise /\ \A u \in A : u < k
  <2>1. FlatLowerBound(t, k, none) = none
    BY <1>2 DEF FlatLowerBound
  <2>2. \A x \in Keys(S, G, C) : x < k
    BY <1>2, KeysBelow DEF A
  <2>3. QED
    BY <2>1, <2>2 DEF Bounds
<1>3. ASSUME NEW r \in A, FlatMapping(t, k) = Lookup(Prefix(r, TopLen + 1)), k <= r,
             \A x \in Key : Same(x, r, TopLen + 1) => k <= x
      PROVE  Bounds(Keys(S, G, C), k, FlatLowerBound(t, k, none), none)
  <2> DEFINE w == Prefix(r, TopLen + 1)
             b == FirstKey(w)
  <2>1. FlatLowerBound(t, k, none) = NodeOr(t, w, b)
    <3>1. Lookup(w) # NoPromise /\ Lookup(w).node = w
      <4>1. Lookup(w).kind = "lookup" /\ NoPromise.kind = "none" /\ Lookup(w).node = w
        BY DEF Lookup, NoPromise
      <4>2. QED
        BY <4>1
    <3>2. QED
      BY <1>3, <3>1 DEF FlatLowerBound
  <2>2. r \in Key /\ b \in Key /\ Same(b, r, TopLen + 1)
    BY <1>1, FirstKeyFacts
  <2> HIDE DEF b
  <2>3. CASE w \in DOMAIN t.node
    <3>1. NodeOr(t, w, b) = f[w].mkey /\ w \in DOMAIN f
      BY <1>1, <2>3 DEF NodeOr, Has
    <3>2. Node(S, r, TopLen + 1, f[w])
      BY <1>1, <2>2, <3>1, TreeAt
    <3>3. f[w].mkey \in S /\ Same(f[w].mkey, r, TopLen + 1)
      BY <3>2 DEF Node
    <3>4. QED
      BY <1>1, <1>3, <2>1, <3>1, <3>3 DEF Bounds, Keys
  <2>4. CASE w \notin DOMAIN t.node
    <3>1. NodeOr(t, w, b) = b
      BY <2>4 DEF NodeOr, Has
    <3>2. w[1] = TopLen + 1
      BY <1>1, <2>2, PrefixFacts
    <3>3. w \notin DOMAIN f
      BY <1>1, <2>4, <3>2 DEF Pruned
    <3>4. Branches(S, r, TopLen + 1)
      BY DEF Branches
    <3>5. ~ \E s \in S : Same(s, r, TopLen + 1)
      BY <1>1, <2>2, <3>3, <3>4, TreeAt
    <3>6. r \notin S
      BY <3>5 DEF Same
    <3>7. r \in G
      BY <3>6 DEF A
    <3>8. b \in G
      BY <1>1, <2>2, <3>7 DEF Whole
    <3>9. k <= b
      BY <1>3, <2>2
    <3>10. QED
      BY <2>1, <3>1, <3>8, <3>9 DEF Bounds, Keys
  <2>5. QED
    BY <2>3, <2>4
<1>4. t.flat = Flat(A) /\ Clear(A, k, TopLen + 1)
  BY DEF A
<1>5. QED
  BY <1>1, <1>2, <1>3, <1>4, FlatMappingFound

\* The way up, and on in the flat bitmaps.
LEMMA ParentLowerBoundFacts ==
  ASSUME NEW t, NEW f, NEW S, NEW G, NEW C, RangeTrie(t, f, S, G, C),
         t.flat = Flat(S \cup G), NEW k \in Key, ~Under(C, k), NEW l \in Level,
         Prefix(k, l) \in DOMAIN f, Clear(S, k, l), NEW none
  PROVE  Bounds(Keys(S, G, C), k, ParentLowerBound(t, k, l, none), none)
<1> DEFINE F == Full(t, f)
           up == {m \in PathLevels(t, k) : m < l /\ Beyond(t, k, m) # {}}
<1>1. Pruned(t, f, S, C) /\ Whole(S, G) /\ Tree(f, S) /\ S \subseteq Key /\ F.node = f
  BY DEF RangeTrie, Pruned, Full
<1>2. /\ PathLevels(t, k) = {m \in Level : Prefix(k, m) \in DOMAIN f}
      /\ \A m \in PathLevels(t, k) : t.node[Prefix(k, m)] = f[Prefix(k, m)]
  BY <1>1, QueryPruned DEF PathLevels, Has
<1>3. CASE up = {}
  <2>1. ASSUME NEW u \in S, Same(u, k, TopLen + 1)
        PROVE  u < k
    <3>1. SUFFICES ASSUME ~(u < k)
                   PROVE  FALSE
      OBVIOUS
    <3>2. Prefix(k, l) \in DOMAIN F.node /\ Tree(F.node, S)
      BY <1>1
    <3> HIDE DEF F
    <3>3. PICK m \in Level : m < l /\ Prefix(k, m) \in DOMAIN F.node /\ Beyond(F, k, m) # {}
      BY <1>1, <2>1, <3>1, <3>2, Turn
    <3>4. m \in PathLevels(t, k) /\ t.node[Prefix(k, m)] = F.node[Prefix(k, m)]
      BY <1>1, <1>2, <3>3
    <3>5. Beyond(t, k, m) = Beyond(F, k, m)
      BY <3>4 DEF Beyond, Children
    <3>6. QED
      BY <1>3, <3>3, <3>4, <3>5
  <2>2. ASSUME NEW u \in G
        PROVE  ~Same(u, k, TopLen + 1)
    <3>1. PICK s \in S : Same(s, k, l)
      BY <1>1, TreeAt
    <3>2. s \in Key /\ Same(s, k, TopLen + 1)
      <4>1. l \in 0..KeyLen /\ TopLen + 1 \in 0..KeyLen /\ TopLen + 1 <= l /\ s \in Key
        BY <1>1, LengthFacts DEF Level
      <4>2. QED
        BY <3>1, <4>1, SameShorter
    <3>3. Same(u, k, TopLen + 1) => Same(s, u, TopLen + 1)
      BY <3>2 DEF Same
    <3>4. QED
      BY <1>1, <3>2, <3>3 DEF Whole
  <2>3. Clear(S \cup G, k, TopLen + 1)
    BY <2>1, <2>2 DEF Clear
  <2>4. ParentLowerBound(t, k, l, none) = FlatLowerBound(t, k, none)
    BY <1>3 DEF ParentLowerBound
  <2>5. QED
    BY <2>3, <2>4, FlatLowerBoundFacts
<1>4. CASE up # {}
  <2> DEFINE m == Max(up)
             n == f[Prefix(k, m)]
             D == Beyond(t, k, m)
             d == Min(D)
             key == ReplaceDigit(k, n.dlen, d)
  <2>1. m \in up
    <3>1. up \subseteq Nat /\ (\A j \in up : j <= KeyLen) /\ KeyLen \in Nat
      BY <1>2, LengthFacts
    <3> HIDE DEF up
    <3>2. QED
      BY <1>4, <3>1, MaxFacts
  <2>2. /\ m \in Level /\ m < l /\ Prefix(k, m) \in DOMAIN f /\ D # {}
        /\ t.node[Prefix(k, m)] = n
    BY <1>2, <2>1
  <2>3. ParentLowerBound(t, k, l, none) = NodeOr(t, Prefix(key, n.dlen + 1), key)
    BY <1>4, <2>2 DEF ParentLowerBound
  <2>4. D = {c \in n.kids : c >= DigitAfter(k, n.dlen) + 1}
    BY <2>2 DEF Beyond, Children
  <2> HIDE DEF m, D, up
  <2>5. Node(S, k, m, n) /\ Same(n.mkey, k, n.dlen)
    BY <1>1, <2>2, TreeAt, NodeAbove
  <2> HIDE DEF n
  <2>6. n.kids \subseteq Digit /\ n.dlen \in 0..KeyLen /\ n.dlen < KeyLen
    <3>1. n.dlen \in m..KeyLen /\ m \in 0..KeyLen /\ m \in Nat
      BY <2>2, <2>5, LengthFacts DEF Node
    <3>2. \A c \in n.kids : n.dlen < KeyLen /\ \E u \in S : c = DigitAfter(u, n.dlen)
      BY <2>5 DEF Node
    <3>3. n.dlen \in 0..KeyLen
      BY <3>1
    <3>4. \A u \in S : n.dlen < KeyLen => DigitAfter(u, n.dlen) \in Digit
      BY <1>1, <3>3, ValueFacts
    <3>5. QED
      BY <2>2, <2>4, <3>2, <3>3, <3>4
  <2>7. d \in D
    <3>1. D \subseteq Nat
      BY <2>4, <2>6 DEF Digit
    <3>2. QED
      BY <2>2, <3>1, MinFacts
  <2>8. d \in n.kids /\ DigitAfter(k, n.dlen) < d /\ d \in Digit
    <3>1. DigitAfter(k, n.dlen) \in Digit
      BY <2>6, ValueFacts
    <3>2. d \in n.kids /\ d >= DigitAfter(k, n.dlen) + 1 /\ d \in Digit
      BY <2>4, <2>6, <2>7
    <3> HIDE DEF d
    <3>3. QED
      BY <3>1, <3>2 DEF Digit
  <2> HIDE DEF d
  <2>9. PICK s \in S : /\ Same(s, k, n.dlen) /\ DigitAfter(s, n.dlen) = d
                       /\ Prefix(s, n.dlen + 1) \in DOMAIN f
                       /\ \A x \in Key : Same(x, s, n.dlen + 1) => k < x
    BY <1>1, <2>2, <2>5, <2>8, ChildBeyond
  <2>10. n.dlen + 1 \in Level /\ n.dlen + 1 \in 0..KeyLen
    <3>1. n.dlen + 1 \in Level
      BY <1>1, <2>2, <2>5, <2>8, ChildBeyond
    <3>2. QED
      BY <3>1, LengthFacts
  <2>11. key \in Key /\ Same(key, k, n.dlen) /\ DigitAfter(key, n.dlen) = d
    BY <2>6, <2>8, ReplaceFacts
  <2> HIDE DEF key
  <2>12. Same(key, s, n.dlen + 1) /\ s \in Key
    <3>1. Same(key, s, n.dlen)
      BY <2>9, <2>11 DEF Same
    <3>2. QED
      BY <1>1, <2>6, <2>9, <2>11, <3>1, SameNext
  <2>13. Prefix(key, n.dlen + 1) = Prefix(s, n.dlen + 1)
    BY <2>10, <2>11, <2>12, PrefixFacts
  <2>14. /\ NodeOr(t, Prefix(s, n.dlen + 1), key) \in Keys(S, G, C)
         /\ k <= NodeOr(t, Prefix(s, n.dlen + 1), key)
    BY <2>9, <2>10, <2>11, <2>12, NodeOrFacts
  <2>15. QED
    BY <2>3, <2>13, <2>14 DEF Bounds
<1>5. QED
  BY <1>3, <1>4

\* A key whose path ends below the flat levels, which is not there.
LEMMA OtherLowerBoundFacts ==
  ASSUME NEW t, NEW f, NEW S, NEW G, NEW C, RangeTrie(t, f, S, G, C),
         t.flat = Flat(S \cup G), NEW k \in Key, ~Under(C, k), NEW none,
         NEW q, q = QueryLCP(t, k), q.lcp # TopLen, q.lcp # KeyLen, ~InRange(t, k)
  PROVE  Bounds(Keys(S, G, C), k, RangeLowerBound(t, k, none), none)
<1> DEFINE l == q.ilen
           n == f[Prefix(k, l)]
           below == Children(t, Prefix(k, l), DigitAfter(k, q.lcp))
           child == Child(Prefix(k, q.lcp), Min(below))
<1>1. /\ Pruned(t, f, S, C) /\ Whole(S, G) /\ Tree(f, S) /\ S \subseteq Key
      /\ Full(t, f).node = f /\ k \in Nat /\ \A x \in Key : x \in Nat
  BY SameFacts DEF RangeTrie, Pruned, Full
<1>2. /\ Deepest(Full(t, f), S, k, q) /\ q.lcp \in Level /\ t.node[Prefix(k, l)] = n
  BY PartsFromNode
<1>3. /\ l \in Level /\ l \in 0..KeyLen /\ Prefix(k, l) \in DOMAIN f
      /\ q.lcp \in 0..KeyLen /\ q.lcp < KeyLen /\ l <= q.lcp /\ q.lcp <= n.dlen
      /\ Same(n.mkey, k, q.lcp) /\ Node(S, k, l, n) /\ q.lcp + 1 \in 0..KeyLen
  <2>1. /\ l \in Level /\ Prefix(k, l) \in DOMAIN f
        /\ l <= q.lcp /\ q.lcp <= n.dlen /\ Same(n.mkey, k, q.lcp) /\ Node(S, k, l, n)
    BY <1>1, <1>2 DEF Deepest
  <2>2. /\ l \in 0..KeyLen /\ q.lcp \in 0..KeyLen /\ q.lcp < KeyLen
        /\ q.lcp + 1 \in 0..KeyLen
    BY <1>2, <2>1, LengthFacts
  <2>3. QED
    BY <2>1, <2>2
<1> DEFINE parent == ParentLowerBound(t, k, l, none)
<1>4. RangeLowerBound(t, k, none) =
        IF n.dlen = q.lcp
        THEN IF below # {} THEN NodeOr(t, child, FirstKey(child)) ELSE parent
        ELSE IF k < n.mkey THEN n.mkey ELSE parent
  BY <1>2 DEF RangeLowerBound
<1>5. below = {c \in n.kids : c >= DigitAfter(k, q.lcp)}
  BY <1>2 DEF Children
<1>6. Clear(S, k, l) => Bounds(Keys(S, G, C), k, parent, none)
  BY <1>3, ParentLowerBoundFacts
<1> HIDE DEF parent, below, l
<1>7. n.mkey \in S /\ n.mkey \in Key /\ n.mkey \in Nat /\ n.dlen \in l..KeyLen
  BY <1>1, <1>3 DEF Node
<1>8. \A u \in S : Same(u, k, l) => u \in Key /\ Same(u, n.mkey, n.dlen)
  BY <1>1, <1>3 DEF Node
<1>9. l > 0
  BY <1>3, LengthFacts
<1>10. CASE n.dlen = q.lcp /\ below # {}
  <2> DEFINE d == Min(below)
  <2>1. n.kids \subseteq Digit
    <3>1. \A c \in n.kids : \E u \in S : c = DigitAfter(u, n.dlen)
      BY <1>3 DEF Node
    <3>2. QED
      BY <1>1, <1>3, <1>10, <3>1, ValueFacts
  <2>2. d \in below
    <3>1. below \subseteq Nat
      BY <1>5, <2>1 DEF Digit
    <3>2. QED
      BY <1>10, <3>1, MinFacts
  <2>3. DigitAfter(k, n.dlen) \notin n.kids
    BY <1>2, <1>3, <1>9, <1>10 DEF InRange, l
  <2>4. d \in n.kids /\ DigitAfter(k, n.dlen) < d
    <3>1. DigitAfter(k, n.dlen) \in Digit
      BY <1>3, <1>10, ValueFacts
    <3>2. d \in n.kids /\ d >= DigitAfter(k, n.dlen) /\ d \in Digit
      BY <1>5, <1>10, <2>1, <2>2
    <3> HIDE DEF d
    <3>3. QED
      BY <2>3, <3>1, <3>2 DEF Digit
  <2>5. child = Child(Prefix(k, n.dlen), d)
    BY <1>10
  <2> HIDE DEF d, child, n
  <2>6. Same(n.mkey, k, n.dlen)
    BY <1>3, <1>10
  <2>7. n.dlen + 1 \in Level
    BY <1>1, <1>3, <2>4, <2>6, ChildBeyond
  <2> DEFINE Below(s) ==
               /\ Same(s, k, n.dlen) /\ DigitAfter(s, n.dlen) = d
               /\ Prefix(s, n.dlen + 1) \in DOMAIN f
               /\ Child(Prefix(k, n.dlen), d) = Prefix(s, n.dlen + 1)
               /\ \A x \in Key : Same(x, s, n.dlen + 1) => k < x
  <2>8. PICK s \in S : Below(s)
    <3>1. Tree(f, S) /\ S \subseteq Key /\ l \in Level /\ Node(S, k, l, n)
      BY <1>1, <1>3
    <3>2. \E s \in S : Below(s)
      BY <2>4, <2>6, <3>1, ChildBeyond
    <3>3. QED
      BY <3>2
  <2>9. FirstKey(child) \in Key /\ Same(FirstKey(child), s, n.dlen + 1)
    <3>1. n.dlen + 1 \in 0..KeyLen /\ s \in Key
      BY <1>1, <2>7, LengthFacts
    <3>2. child = Prefix(s, n.dlen + 1)
      BY <2>5, <2>8
    <3>3. QED
      BY <3>1, <3>2, FirstKeyFacts
  <2>10. /\ NodeOr(t, child, FirstKey(child)) \in Keys(S, G, C)
         /\ k <= NodeOr(t, child, FirstKey(child))
    <3>1. child = Prefix(s, n.dlen + 1)
      BY <2>5, <2>8
    <3>2. QED
      BY <2>7, <2>8, <2>9, <3>1, NodeOrFacts
  <2>11. QED
    BY <1>4, <1>10, <2>10 DEF Bounds
<1>11. CASE n.dlen = q.lcp /\ below = {}
  <2>1. ASSUME NEW u \in S, Same(u, k, l)
        PROVE  u < k
    <3>1. u \in Key /\ Same(u, k, n.dlen)
      BY <1>3, <1>8, <1>11, <2>1 DEF Same
    <3>2. DigitAfter(u, n.dlen) \in n.kids
      BY <1>3, <1>11, <2>1 DEF Node
    <3>3. DigitAfter(u, n.dlen) \in Digit /\ DigitAfter(k, n.dlen) \in Digit
      BY <1>3, <1>11, <3>1, ValueFacts
    <3>4. DigitAfter(u, n.dlen) < DigitAfter(k, n.dlen)
      BY <1>5, <1>11, <3>2, <3>3 DEF Digit
    <3>5. QED
      BY <1>3, <1>11, <3>1, <3>4, DigitOrder
  <2>2. QED
    BY <1>4, <1>6, <1>11, <2>1 DEF Clear
<1>12. CASE n.dlen # q.lcp /\ k < n.mkey
  <2>1. RangeLowerBound(t, k, none) = n.mkey
    BY <1>4, <1>12
  <2>2. n.mkey \in Keys(S, G, C) /\ k <= n.mkey
    BY <1>1, <1>7, <1>12 DEF Keys
  <2>3. QED
    BY <2>1, <2>2 DEF Bounds
<1>13. CASE n.dlen # q.lcp /\ ~(k < n.mkey)
  <2>1. ~Same(n.mkey, k, q.lcp + 1)
    <3>1. q.lcp = LCP(k, n.mkey)
      <4>1. PathLevels(t, k) # {}
        BY <1>2, LengthFacts DEF QueryLCP
      <4>2. QED
        BY <1>2, <4>1 DEF QueryLCP, l
    <3>2. ~Same(k, n.mkey, q.lcp + 1)
      BY <1>3, <1>7, <3>1, LCPFacts
    <3>3. QED
      BY <3>2 DEF Same
  <2>2. q.lcp + 1 <= n.dlen /\ n.dlen \in 0..KeyLen
    BY <1>3, <1>7, <1>13
  <2>3. n.mkey < k
    <3>1. n.mkey # k
      BY <2>1 DEF Same
    <3>2. QED
      BY <1>1, <1>7, <1>13, <3>1
  <2>4. ASSUME NEW u \in S, Same(u, k, l)
        PROVE  u < k
    <3>1. u \in Key /\ Same(u, n.mkey, q.lcp + 1)
      BY <1>3, <1>7, <1>8, <2>2, <2>4, SameShorter
    <3>2. Same(n.mkey, u, q.lcp + 1)
      BY <3>1 DEF Same
    <3>3. QED
      BY <1>3, <1>7, <2>1, <2>3, <3>1, <3>2, Together
  <2>5. QED
    BY <1>4, <1>6, <1>13, <2>4 DEF Clear
<1>14. QED
  BY <1>10, <1>11, <1>12, <1>13

\* Where no node is on the path, LowerBound searches the flat bitmaps.
LEMMA LowerBoundFlat ==
  ASSUME NEW t, NEW k, NEW none, QueryLCP(t, k).lcp = TopLen, TopLen # KeyLen,
         ~InRange(t, k)
  PROVE  RangeLowerBound(t, k, none) = FlatLowerBound(t, k, none)
BY DEF RangeLowerBound

\* A key of the tree, or in a range of the nodes, is its own lower bound.
LEMMA LowerBoundSelf ==
  ASSUME NEW t, NEW k, NEW none, QueryLCP(t, k).lcp # TopLen,
         QueryLCP(t, k).lcp = KeyLen \/ InRange(t, k)
  PROVE  RangeLowerBound(t, k, none) = k
<1>1. CASE QueryLCP(t, k).lcp = KeyLen
  BY <1>1, Zenon DEF RangeLowerBound
<1>2. CASE InRange(t, k)
  BY <1>2 DEF RangeLowerBound
<1>3. QED
  BY <1>1, <1>2

\* LowerBound answers for every value but the keys of the ranges in the flat
\* bitmaps.
LEMMA LowerBoundAnswers ==
  ASSUME NEW t, NEW f, NEW S, NEW G, NEW C, RangeTrie(t, f, S, G, C),
         t.flat = Flat(S \cup G), NEW k \in Key, NEW none,
         ~(QueryLCP(t, k).lcp = TopLen /\ CoveredByTop(t, k))
  PROVE  /\ Bounds(Keys(S, G, C), k, RangeLowerBound(t, k, none), none)
         /\ k \in Keys(S, G, C) => RangeLowerBound(t, k, none) = k
<1> DEFINE q == QueryLCP(t, k)
           A == Keys(S, G, C)
           b == RangeLowerBound(t, k, none)
<1>1. k \in Nat /\ TopLen \in Nat /\ KeyLen \in Nat /\ TopLen # KeyLen
  BY SameFacts, LengthFacts
<1>2. Exists(t, k) <=> k \in A
  BY ExistsFacts
<1>3. CASE q.lcp = TopLen
  <2>1. k \notin A
    BY <1>2, <1>3 DEF Exists
  <2>2. ~Under(C, k)
    BY <2>1 DEF Keys
  <2>3. b = FlatLowerBound(t, k, none)
    <3>1. Pruned(t, f, S, C) /\ Tree(Full(t, f).node, S) /\ S \subseteq Key
      BY DEF RangeTrie, Pruned, Full
    <3>2. q.ilen = 0
      BY <1>3, <2>2, <3>1, QueryFacts, QueryPruned
    <3>3. ~InRange(t, k)
      BY <3>2 DEF InRange
    <3>4. QED
      BY <1>1, <1>3, <3>3, LowerBoundFlat
  <2>4. S \subseteq Key /\ G \subseteq Key /\ S \cup G \subseteq Key
    BY DEF RangeTrie, Pruned, Whole
  <2>5. ~ \E u \in S \cup G : Same(u, k, TopLen + 1)
    BY <1>3, <2>4, CoveredFacts
  <2>6. Clear(S \cup G, k, TopLen + 1)
    BY <2>5 DEF Clear
  <2>7. Bounds(A, k, b, none)
    BY <2>2, <2>3, <2>6, FlatLowerBoundFacts
  <2>8. QED
    BY <2>1, <2>7
<1>4. CASE q.lcp # TopLen /\ (q.lcp = KeyLen \/ InRange(t, k))
  <2>1. k \in A
    BY <1>2, <1>4 DEF Exists
  <2>2. b = k
    BY <1>4, LowerBoundSelf
  <2>3. QED
    BY <1>1, <2>1, <2>2 DEF Bounds
<1>5. CASE q.lcp # TopLen /\ q.lcp # KeyLen /\ ~InRange(t, k)
  <2>1. k \notin A
    BY <1>2, <1>5 DEF Exists
  <2>2. ~Under(C, k)
    BY <2>1 DEF Keys
  <2>3. QED
    BY <1>5, <2>1, <2>2, OtherLowerBoundFacts
<1>6. QED
  BY <1>3, <1>4, <1>5

-----------------------------------------------------------------------------
(* Insert, where leaves are missing.                                          *)

Without(f, C) == [p \in DOMAIN f \ C |-> f[p]]

\* A node that is set is missing or not as before.
LEMMA SetNodeWithout ==
  ASSUME NEW f, NEW C, NEW p, p \notin C, NEW n
  PROVE  SetNode(Without(f, C), p, n) = Without(SetNode(f, p, n), C)
BY DEF SetNode, Without

\* So it is with the child that the deepest node on a path gets.
LEMMA AddedChildWithout ==
  ASSUME NEW f, NEW C, NEW p \in DOMAIN f \ C, NEW k, f = [r \in DOMAIN f |-> f[r]]
  PROVE  AddedChild(Without(f, C), p, k) = Without(AddedChild(f, p, k), C)
<1> DEFINE g == Without(f, C)
           x == AddedChild(f, p, k)
           y == AddedChild(g, p, k)
<1>1. /\ DOMAIN g = DOMAIN f \ C /\ g = [r \in DOMAIN g |-> g[r]]
      /\ \A r \in DOMAIN g : g[r] = f[r]
  BY DEF Without
<1> HIDE DEF g
<1>2. DOMAIN x = DOMAIN f /\ DOMAIN y = DOMAIN g
  BY DEF AddedChild
<1>3. \A r \in DOMAIN g : y[r] = x[r]
  BY <1>1 DEF AddedChild
<1>4. y = [r \in DOMAIN g |-> y[r]]
  BY DEF AddedChild
<1> HIDE DEF x, y
<1>5. y = Without(x, C)
  BY <1>1, <1>2, <1>3, <1>4 DEF Without
<1>6. QED
  BY <1>5 DEF x, y, g

\* Splitting makes a node for what was there, so that must not be one that misses.
LEMMA SplitNodeWithout ==
  ASSUME NEW f, NEW C, NEW p \in DOMAIN f \ C, NEW n, NEW k,
         Prefix(f[p].mkey, n + 1) \notin C
  PROVE  SplitNode(Without(f, C), p, n, k) = Without(SplitNode(f, p, n, k), C)
<1>1. Without(f, C)[p] = f[p]
  BY DEF Without
<1> DEFINE old == f[p].mkey
           w == Prefix(old, n + 1)
           upper == [dlen |-> n, mkey |-> Lower(k, old),
                     kids |-> {DigitAfter(old, n), DigitAfter(k, n)}]
<1>2. SplitNode(f, p, n, k) = SetNode(SetNode(f, w, f[p]), p, upper)
  BY DEF SplitNode
<1>3. SplitNode(Without(f, C), p, n, k) = SetNode(SetNode(Without(f, C), w, f[p]), p, upper)
  BY <1>1 DEF SplitNode
<1> HIDE DEF upper, w
<1>4. SetNode(Without(f, C), w, f[p]) = Without(SetNode(f, w, f[p]), C)
  BY SetNodeWithout DEF w
<1>5. SetNode(Without(SetNode(f, w, f[p]), C), p, upper)
        = Without(SetNode(SetNode(f, w, f[p]), p, upper), C)
  BY SetNodeWithout
<1>6. QED
  BY <1>2, <1>3, <1>4, <1>5

\* The way up of a key with no leaf missing on its path.
LEMMA PushUpWithout ==
  ASSUME NEW f, NEW C, NEW k, ~Under(C, k), NEW l \in Level
  PROVE  PushUp(Without(f, C), k, l) = Without(PushUp(f, k, l), C)
<1> DEFINE g == Without(f, C)
<1>1. (TopLen + 1)..(l - 1) \subseteq Level
  BY LengthFacts DEF Level
<1>2. \A m \in Level : /\ Prefix(k, m) \in DOMAIN g <=> Prefix(k, m) \in DOMAIN f
                       /\ Prefix(k, m) \in DOMAIN f => g[Prefix(k, m)] = f[Prefix(k, m)]
  BY DEF Without, Under
<1>3. DOMAIN g = DOMAIN f \ C /\ \A p \in DOMAIN g : g[p] = f[p]
  BY DEF Without
<1> HIDE DEF g
<1>4. Lowered(g, k, l) = Lowered(f, k, l)
  <2>1. ASSUME NEW m \in (TopLen + 1)..(l - 1)
        PROVE  m \in Lowered(g, k, l) <=> m \in Lowered(f, k, l)
    <3>1. \A i \in m..(l - 1) : i \in Level
      BY <1>1, LengthFacts
    <3>2. m \in Level
      BY <1>1
    <3>3. QED
      BY <1>2, <3>1, <3>2 DEF Lowered
  <2>2. QED
    BY <2>1 DEF Lowered
<1> DEFINE L == Lowered(f, k, l)
           new(p, n) == IF \E m \in L : p = Prefix(k, m) THEN [n EXCEPT !.mkey = k] ELSE n
<1>5. PushUp(g, k, l) = [p \in DOMAIN g |-> new(p, g[p])]
  BY <1>4 DEF PushUp
<1>6. PushUp(f, k, l) = [p \in DOMAIN f |-> new(p, f[p])]
  BY DEF PushUp
<1> HIDE DEF L, new
<1>7. Without([p \in DOMAIN f |-> new(p, f[p])], C) = [p \in DOMAIN f \ C |-> new(p, f[p])]
  BY DEF Without
<1>8. [p \in DOMAIN g |-> new(p, g[p])] = [p \in DOMAIN f \ C |-> new(p, f[p])]
  BY <1>3
<1>9. QED
  BY <1>5, <1>6, <1>7, <1>8 DEF g

\* The path of a key that is not there, below the flat levels.
LEMMA WithPathWithout ==
  ASSUME NEW t, NEW f, NEW S, NEW C, Pruned(t, f, S, C), NEW k \in Key, ~Under(C, k),
         NEW q, q = QueryLCP(t, k), q.lcp # TopLen
  PROVE  WithPath(t.node, k, q) = Without(WithPath(f, k, q), C)
<1> DEFINE F == Full(t, f)
           p == Prefix(k, q.ilen)
           n == f[p]
<1>1. /\ Tree(f, S) /\ S \subseteq Key /\ F.node = f /\ t.node = Without(f, C)
      /\ \A r \in C : r \in DOMAIN f /\ f = [s \in DOMAIN f |-> f[s]]
  BY DEF Pruned, Full, Without, Tree
<1>2. Deepest(F, S, k, q) /\ q.lcp \in TopLen..KeyLen
  <2>1. q = QueryLCP(F, k)
    BY QueryPruned
  <2> HIDE DEF F
  <2>2. QED
    BY <1>1, <2>1, QueryFacts
<1> HIDE DEF F
<1>3. /\ q.ilen \in Level /\ p \in DOMAIN f /\ q.ilen <= q.lcp /\ q.lcp <= n.dlen
      /\ Same(n.mkey, k, q.lcp) /\ Node(S, k, q.ilen, n)
  BY <1>1, <1>2 DEF Deepest
<1>4. p \notin C
  BY <1>3 DEF Under
<1>5. t.node[p] = n
  BY <1>1, <1>3, <1>4 DEF Without
<1>6. f = [s \in DOMAIN f |-> f[s]]
  BY <1>1 DEF Tree
<1> DEFINE g == IF q.lcp = n.dlen THEN AddedChild(f, p, k) ELSE SplitNode(f, p, q.lcp, k)
           h == IF q.lcp = n.dlen THEN AddedChild(t.node, p, k)
                ELSE SplitNode(t.node, p, q.lcp, k)
<1>7. h = Without(g, C)
  <2>1. CASE q.lcp = n.dlen
    BY <1>1, <1>3, <1>4, <1>6, <2>1, AddedChildWithout
  <2>2. CASE q.lcp # n.dlen
    <3>1. Prefix(n.mkey, q.lcp + 1) \notin DOMAIN f
      <4> SUFFICES ASSUME Prefix(n.mkey, q.lcp + 1) \in DOMAIN f
                   PROVE  FALSE
        OBVIOUS
      <4> HIDE DEF n
      <4>1. /\ n.mkey \in S /\ n.mkey \in Key /\ n.dlen \in q.ilen..KeyLen
            /\ q.ilen \in 0..KeyLen /\ q.lcp \in 0..KeyLen /\ q.ilen < q.lcp + 1
        BY <1>1, <1>2, <1>3, LengthFacts DEF Node
      <4>2. q.lcp + 1 \in Level
        BY <1>2, <1>3, <2>2, <4>1, LengthFacts DEF Level
      <4>3. Prefix(n.mkey, q.ilen) = p
        <5>1. Same(n.mkey, k, q.ilen)
          BY <1>3 DEF Node
        <5>2. QED
          BY <4>1, <5>1, PrefixFacts
      <4>4. f[p].dlen \in q.ilen..(q.lcp + 1 - 1)
        BY <1>1, <1>3, <4>1, <4>2, <4>3, NodeAbove
      <4>5. QED
        BY <1>3, <2>2, <4>1, <4>4 DEF n
    <3>2. Prefix(n.mkey, q.lcp + 1) \notin C
      BY <1>1, <3>1
    <3>3. QED
      BY <1>1, <1>3, <1>4, <2>2, <3>2, SplitNodeWithout
  <2>3. QED
    BY <2>1, <2>2
<1>8. WithPath(f, k, q) = IF k < n.mkey THEN PushUp(g, k, q.ilen) ELSE g
  BY DEF WithPath
<1>9. WithPath(t.node, k, q) = IF k < n.mkey THEN PushUp(h, k, q.ilen) ELSE h
  BY <1>5 DEF WithPath
<1> HIDE DEF g, h, n, p
<1>10. QED
  BY <1>3, <1>7, <1>8, <1>9, PushUpWithout

\* Insert gives the tree a key and misses the same leaves.
LEMMA InsertPruned ==
  ASSUME NEW t, NEW f, NEW S, NEW G, NEW C, RangeTrie(t, f, S, G, C), NEW k \in Key,
         k \notin Keys(S, G, C),
         NEW q, q = QueryLCP(t, k)
  PROVE  /\ q.lcp \in TopLen..(KeyLen - 1) /\ q = QueryLCP(Full(t, f), k)
         /\ \E g : /\ Grown(f, g, S, k, q.lcp) /\ Tree(g, S \cup {k})
                  /\ InsertInto(t, k) = [flat |-> t.flat \cup FlatBits(t, k, q.lcp),
                                         node |-> Without(g, C)]
<1> DEFINE F == Full(t, f)
           f1 == IF q.lcp > TopLen THEN WithPath(f, k, q) ELSE f
           g == SetNode(f1, Prefix(k, q.lcp + 1), Leaf(k))
<1>1. /\ Pruned(t, f, S, C) /\ Tree(f, S) /\ S \subseteq Key /\ F.node = f
      /\ t.node = Without(f, C) /\ ~Under(C, k) /\ k \notin S
      /\ \A s \in S : Prefix(s, TopLen) \in t.flat
  <2>1. Pruned(t, f, S, C) /\ F.node = f
    BY DEF RangeTrie, Full
  <2>2. /\ Tree(f, S) /\ S \subseteq Key /\ t.node = Without(f, C)
        /\ \A s \in S : Prefix(s, TopLen) \in t.flat
    BY <2>1 DEF Pruned, Without
  <2>3. QED
    BY <2>1, <2>2 DEF Keys
<1>2. q = QueryLCP(F, k)
  BY <1>1, QueryPruned
<1>3. KeyLen \in Nat /\ TopLen \in Nat /\ TopLen \in 0..KeyLen
  BY LengthFacts
<1>4. /\ q.lcp \in TopLen..KeyLen
      /\ q.lcp = TopLen => q = [ilen |-> 0, lcp |-> TopLen]
      /\ q.lcp # TopLen => Deepest(F, S, k, q)
      /\ q.lcp # KeyLen
  <2>1. q.lcp = KeyLen <=> k \in S
    BY <1>1, <1>2, ContainsFacts DEF Contains
  <2> HIDE DEF F
  <2>2. QED
    BY <1>1, <1>2, <2>1, QueryFacts
<1>5. q.lcp \in TopLen..(KeyLen - 1)
  BY <1>3, <1>4
<1>6. Grown(f, g, S, k, q.lcp) /\ Tree(g, S \cup {k})
  <2> HIDE DEF F
  <2>1. f1 = IF q.lcp > TopLen THEN WithPath(F.node, k, q) ELSE F.node
    BY <1>1
  <2>2. QED
    BY <1>1, <1>2, <1>4, <2>1, InsertTree
<1>7. Prefix(k, TopLen) \notin t.flat => q = [ilen |-> 0, lcp |-> TopLen]
  <2> SUFFICES ASSUME q.lcp # TopLen
               PROVE  Prefix(k, TopLen) \in t.flat
    BY <1>4
  <2>1. PICK s \in S : Same(s, k, q.lcp)
    BY <1>4 DEF Deepest, Node
  <2>2. s \in Key /\ q.lcp \in 0..KeyLen /\ TopLen <= q.lcp
    BY <1>1, <1>3, <1>4
  <2>3. Same(s, k, TopLen)
    BY <1>3, <2>1, <2>2, SameShorter
  <2>4. Prefix(s, TopLen) = Prefix(k, TopLen)
    BY <1>3, <2>2, <2>3, PrefixFacts
  <2>5. QED
    BY <1>1, <2>4
<1> DEFINE h1 == IF q.lcp > TopLen THEN WithPath(t.node, k, q) ELSE t.node
           h == SetNode(h1, Prefix(k, q.lcp + 1), Leaf(k))
<1>8. InsertInto(t, k) = [flat |-> t.flat \cup FlatBits(t, k, q.lcp), node |-> h]
  <2>1. q = IF Prefix(k, TopLen) \in t.flat THEN QueryLCP(t, k)
            ELSE [ilen |-> 0, lcp |-> TopLen]
    BY <1>7
  <2>2. QED
    BY <1>4, <2>1 DEF InsertInto
<1>9. h = Without(g, C)
  <2>1. h1 = Without(f1, C)
    <3>1. CASE q.lcp > TopLen
      <4>1. q.lcp # TopLen
        BY <1>3, <3>1
      <4>2. QED
        BY <1>1, <3>1, <4>1, WithPathWithout
    <3>2. CASE ~(q.lcp > TopLen)
      BY <1>1, <3>2
    <3>3. QED
      BY <3>1, <3>2
  <2> HIDE DEF h1
  <2>2. q.lcp + 1 \in Level
    BY <1>3, <1>5 DEF Level
  <2>3. Prefix(k, q.lcp + 1) \notin C
    BY <1>1, <2>2 DEF Under
  <2>4. QED
    BY <2>1, <2>3, SetNodeWithout
<1>10. QED
  BY <1>2, <1>5, <1>6, <1>8, <1>9

\* Insert of k makes the tree g of f: the trie is one of ranges again, and the bits
\* are those of the keys if they were.
InsertMakes(t, f, S, G, C, k, g) ==
  /\ Grown(f, g, S, k, QueryLCP(t, k).lcp)
  /\ RangeTrie(InsertInto(t, k), g, S \cup {k}, G, C)
  /\ InsertInto(t, k) = [flat |-> InsertInto(t, k).flat, node |-> InsertInto(t, k).node]
  /\ t.flat = Flat(S \cup G) => InsertInto(t, k).flat = Flat(S \cup {k} \cup G)

\* With it the trie is one of ranges again, and the bits are those of the keys as
\* long as they were.
LEMMA InsertKeepsRangeTrie ==
  ASSUME NEW t, NEW f, NEW S, NEW G, NEW C, RangeTrie(t, f, S, G, C), NEW k \in Key,
         k \notin Keys(S, G, C)
  PROVE  \E g : InsertMakes(t, f, S, G, C, k, g)
<1> DEFINE u == InsertInto(t, k)
<1>0. PICK q : q = QueryLCP(t, k)
  OBVIOUS
<1>1. /\ q.lcp \in TopLen..(KeyLen - 1) /\ q = QueryLCP(Full(t, f), k)
      /\ \E g : /\ Grown(f, g, S, k, q.lcp) /\ Tree(g, S \cup {k})
               /\ u = [flat |-> t.flat \cup FlatBits(t, k, q.lcp), node |-> Without(g, C)]
  BY <1>0, InsertPruned
<1> HIDE DEF u
<1>2. PICK g : /\ Grown(f, g, S, k, q.lcp) /\ Tree(g, S \cup {k})
               /\ u = [flat |-> t.flat \cup FlatBits(t, k, q.lcp), node |-> Without(g, C)]
  BY <1>1
<1>3. /\ Pruned(t, f, S, C) /\ Whole(S, G) /\ t.flat \subseteq Bits
      /\ Tree(f, S) /\ S \subseteq Key /\ G \subseteq Key
      /\ ~Under(C, k) /\ k \notin S /\ k \notin G
      /\ u.flat = t.flat \cup FlatBits(t, k, q.lcp) /\ u.node = Without(g, C)
  BY <1>1, <1>2 DEF RangeTrie, Pruned, Whole, Keys
<1>4. /\ TopLen \in Nat /\ KeyLen \in Nat /\ TopLen + 2 <= KeyLen /\ TopLen \in 1..(TopLen + 1)
      /\ \A n \in 1..(TopLen + 1) : n \in 0..KeyLen
  BY LengthFacts
<1>5. ASSUME NEW p \in C
      PROVE  p \in DOMAIN g /\ p[1] # TopLen + 1 /\ g[p].dlen = KeyLen
  <2>1. p \in DOMAIN f /\ p[1] # TopLen + 1 /\ f[p].dlen = KeyLen
    BY <1>3 DEF Pruned
  <2>2. p \in Nodes(S)
    BY <1>3, <2>1 DEF Tree
  <2>3. PICK s \in S, l \in Level : Branches(S, s, l) /\ p = Prefix(s, l)
    BY <2>2 DEF Nodes
  <2>4. ~Same(s, k, l)
    <3>1. l \in 0..KeyLen /\ s \in Key /\ Prefix(k, l) # p
      BY <1>3, LengthFacts DEF Under
    <3>2. QED
      BY <2>3, <3>1, PrefixFacts
  <2>5. g[p] = f[p] /\ DOMAIN f \subseteq DOMAIN g
    BY <1>1, <1>2, <2>3, <2>4 DEF Grown
  <2>6. QED
    BY <2>1, <2>5
<1>6. FlatBits(t, k, q.lcp) \subseteq {Prefix(k, n) : n \in 1..(TopLen + 1)}
  <2>1. 1..TopLen \subseteq 1..(TopLen + 1) /\ TopLen + 1 \in 1..(TopLen + 1)
    BY <1>4
  <2>2. QED
    BY <2>1 DEF FlatBits
<1>7. \A n \in 1..(TopLen + 1) : Prefix(k, n) \in Bits
  <2>1. TAKE n \in 1..(TopLen + 1)
  <2>2. Prefix(k, n) = <<n, Value(k, n)>> /\ Value(k, n) \in 0..(Weight[n] - 1)
    BY <1>4, PrefixFacts, ValueFacts
  <2>3. Value(k, n) \in Nat
    BY <1>4, ValueFacts
  <2>4. QED
    BY <2>2, <2>3 DEF Bits
<1>8. u.flat \subseteq Bits
  BY <1>3, <1>6, <1>7
<1>9. \A s \in S \cup {k} : Prefix(s, TopLen) \in u.flat
  <2>1. \A s \in S : Prefix(s, TopLen) \in u.flat
    BY <1>3 DEF Pruned
  <2>2. Prefix(k, TopLen) \in u.flat
    <3>1. TopLen \in 1..TopLen
      BY LengthFacts
    <3>2. QED
      BY <1>3, <3>1 DEF FlatBits
  <2>3. QED
    BY <2>1, <2>2
<1>10. Pruned(u, g, S \cup {k}, C)
  BY <1>1, <1>2, <1>3, <1>5, <1>9 DEF Pruned, Without
<1>11. Whole(S \cup {k}, G)
  BY <1>3 DEF Whole
<1>12. ASSUME t.flat = Flat(S \cup G)
       PROVE  u.flat = Flat(S \cup {k} \cup G)
  <2>1. ASSUME q.lcp # TopLen, NEW n \in 1..(TopLen + 1)
        PROVE  Prefix(k, n) \in t.flat
    <3>1. PICK s \in S : Same(s, k, q.lcp)
      BY <1>1, <1>2, <2>1 DEF Grown
    <3>2. s \in Key /\ q.lcp \in 0..KeyLen /\ n <= q.lcp
      BY <1>1, <1>2, <1>3, <1>4, <2>1
    <3>3. Same(s, k, n)
      BY <1>4, <3>1, <3>2, SameShorter
    <3>4. S \cup G \subseteq Key /\ s \in S \cup G
      BY <1>3
    <3>5. QED
      BY <1>12, <3>3, <3>4, FlatAt
  <2>2. t.flat \cup FlatBits(t, k, q.lcp) = Flat((S \cup G) \cup {k})
    <3> DEFINE A == S \cup G
               lcp == q.lcp
    <3>1. t.flat = Flat(A) /\ A \subseteq Key
      BY <1>3, <1>12
    <3>2. lcp # TopLen => \A n \in 1..(TopLen + 1) : Prefix(k, n) \in t.flat
      BY <2>1
    <3> HIDE DEF A, lcp
    <3>3. t.flat \cup FlatBits(t, k, lcp) = Flat(A \cup {k})
      BY <3>1, <3>2, FlatInserted
    <3>4. QED
      BY <3>3 DEF A, lcp
  <2>3. (S \cup G) \cup {k} = S \cup {k} \cup G
    OBVIOUS
  <2>4. QED
    BY <1>3, <2>2, <2>3
<1>13. u = [flat |-> u.flat, node |-> u.node]
  BY <1>2
<1>14. QED
  BY <1>0, <1>1, <1>2, <1>8, <1>10, <1>11, <1>12, <1>13 DEF RangeTrie, u, InsertMakes

-----------------------------------------------------------------------------
(* Perfect ranges. *)

\* lo..hi is a run of whole children of the prefix of s digits.
Run(lo, hi, s) ==
  /\ lo \in Key /\ hi \in Key /\ lo < hi
  /\ s \in 0..(KeyLen - 1) /\ s = LCP(lo, hi)
  /\ \E i \in Nat : lo = i * Weight[KeyLen - s - 1]
  /\ \E i \in Nat : hi + 1 = i * Weight[KeyLen - s - 1]

\* RangeDecomposition counts the same digits.
LEMMA SameWeights ==
  /\ Cut!Weight = Weight /\ Cut!Key = Key
  /\ \A s : Cut!Unit(s) = Weight[KeyLen - s - 1]
BY DEF Cut!Weight, Weight, Cut!Power, Power, Cut!Key, Key, Cut!Unit

\* The ranges it puts out are such runs.
LEMMA PerfectRun ==
  ASSUME NEW r \in Cut!OutRange, Cut!Perfect(r)
  PROVE  Run(r.lo, r.hi, SplitIndex(r.lo, r.hi))
<1> DEFINE x == r.lo
           y == r.hi
           u == r.sb
           s == Cut!SplitIndex(x, y)
<1>1. x \in Key /\ y \in Key /\ u \in 0..(KeyLen - 1) /\ x < y
  BY SameWeights DEF Cut!OutRange, Cut!Perfect
<1>2. /\ s >= u
      /\ \E m \in Nat : x = m * Weight[KeyLen - u - 1]
      /\ \E m \in Nat : y + 1 = m * Weight[KeyLen - u - 1]
  BY SameWeights DEF Cut!Perfect
<1>3. /\ s \in 0..(KeyLen - 1)
      /\ x \div Weight[KeyLen - s] = y \div Weight[KeyLen - s]
      /\ x \div Weight[KeyLen - s - 1] < y \div Weight[KeyLen - s - 1]
  <2>1. x \in Cut!Key /\ y \in Cut!Key
    BY <1>1, SameWeights
  <2>2. /\ s \in 0..(KeyLen - 1)
        /\ x \div Cut!Weight[KeyLen - s] = y \div Cut!Weight[KeyLen - s]
        /\ x \div Cut!Unit(s) < y \div Cut!Unit(s)
    BY <1>1, <2>1, Cut!SplitIndexFacts, BaseAssumption, KeyLenAssumption
  <2> HIDE DEF s
  <2>3. QED
    BY <2>2, SameWeights
<1> HIDE DEF s
<1>4. /\ s \in 0..KeyLen /\ s + 1 \in 0..KeyLen /\ KeyLen - (s + 1) = KeyLen - s - 1
      /\ KeyLen - s - 1 \in 0..KeyLen /\ KeyLen - u - 1 \in 0..KeyLen
      /\ KeyLen - s - 1 <= KeyLen - u - 1
  BY <1>1, <1>2, <1>3, KeyLenAssumption
<1> DEFINE W == Weight[KeyLen - s - 1]
           V == Weight[KeyLen - u - 1]
<1>5. LCP(x, y) = s
  <2>1. Same(x, y, s)
    BY <1>3 DEF Same, Value
  <2>2. ~Same(x, y, s + 1)
    <3>1. W \in Nat \ {0} /\ x \in Nat /\ y \in Nat
      BY <1>1, <1>4, WeightFacts, SameFacts
    <3>2. x \div W \in Nat
      BY <3>1, Division
    <3>3. Value(x, s + 1) = x \div W /\ Value(y, s + 1) = y \div W
      BY <1>4 DEF Value
    <3> HIDE DEF W
    <3>4. Value(x, s + 1) < Value(y, s + 1)
      BY <1>3, <3>3 DEF W
    <3>5. QED
      BY <3>2, <3>3, <3>4 DEF Same
  <2>3. LCP(x, y) \in 0..KeyLen /\ s <= LCP(x, y) /\ ~(s + 1 <= LCP(x, y))
    BY <1>1, <1>4, <2>1, <2>2, LCPFacts
  <2>4. QED
    BY <1>4, <2>3
<1>6. PICK m \in Nat : V = m * W
  BY <1>4, WeightDivides, WeightFacts
<1>7. W \in Nat
  BY <1>4, WeightFacts
<1>8. \A i \in Nat : i * V = (i * m) * W /\ i * m \in Nat
  <2> HIDE DEF W, V
  <2>1. QED
    BY <1>6, <1>7
<1>9. (\E i \in Nat : x = i * W) /\ (\E i \in Nat : y + 1 = i * W)
  <2>1. PICK i \in Nat, j \in Nat : x = i * V /\ y + 1 = j * V
    BY <1>2
  <2> HIDE DEF V, W, x, y
  <2>2. QED
    BY <1>8, <2>1
<1>10. QED
  BY <1>1, <1>3, <1>5, <1>9 DEF Run, SplitIndex

\* Its keys are those with these digits.
LEMMA RunKeys ==
  ASSUME NEW lo, NEW hi, NEW s, Run(lo, hi, s)
  PROVE  LET a == DigitAfter(lo, s)
             b == DigitAfter(hi, s)
         IN  /\ Same(hi, lo, s) /\ ~Same(hi, lo, s + 1) /\ a \in Digit /\ b \in Digit /\ a < b
             /\ \A x \in Key : x \in lo..hi <=> Same(x, lo, s) /\ DigitAfter(x, s) \in a..b
<1> DEFINE a == DigitAfter(lo, s)
           b == DigitAfter(hi, s)
           W == Weight[KeyLen - s - 1]
           v == Value(lo, s)
<1>1. /\ lo \in Key /\ hi \in Key /\ lo < hi /\ lo \in Nat /\ hi \in Nat
      /\ s \in 0..KeyLen /\ s < KeyLen /\ s + 1 \in 0..KeyLen /\ s = LCP(lo, hi)
      /\ KeyLen - s - 1 \in 0..KeyLen /\ KeyLen - (s + 1) = KeyLen - s - 1 /\ ~(s + 1 <= s)
  BY KeyLenAssumption, SameFacts DEF Run
<1>2. Same(lo, hi, s) /\ ~Same(lo, hi, s + 1)
  BY <1>1, LCPFacts
<1>3. W \in Nat \ {0} /\ Base \in Nat \ {0}
  BY <1>1, WeightFacts, BaseAssumption
<1>4. PICK i \in Nat, j \in Nat : lo = i * W /\ hi + 1 = j * W
  BY DEF Run
<1>5. \A x \in Key : /\ x \in Nat /\ Value(x, s) \in Nat /\ DigitAfter(x, s) \in Digit
                     /\ Value(x, s + 1) = x \div W
                     /\ Value(x, s + 1) = Value(x, s) * Base + DigitAfter(x, s)
                     /\ Value(x, s + 1) \in Nat
  <2>1. TAKE x \in Key
  <2>2. Value(x, s + 1) = x \div W
    BY <1>1 DEF Value
  <2>3. QED
    BY <1>1, <2>2, ValueFacts, SameFacts
<1> HIDE DEF W
<1>6. Digit = 0..(Base - 1)
  BY DEF Digit
<1>7. Value(lo, s + 1) = i
  <2>1. (i * W + 0) \div W = i
    BY <1>3, DivisionUnique
  <2>2. QED
    BY <1>1, <1>3, <1>4, <1>5, <2>1
<1>8. j # 0 /\ j - 1 \in Nat /\ hi = (j - 1) * W + (W - 1)
  <2>1. j # 0
    BY <1>1, <1>3, <1>4
  <2>2. (j - 1) * W = j * W - W
    BY <1>3
  <2>3. QED
    BY <1>1, <1>3, <1>4, <2>1, <2>2
<1>9. Value(hi, s + 1) = j - 1
  <2>1. W - 1 \in Nat /\ W - 1 < W
    BY <1>3
  <2>2. ((j - 1) * W + (W - 1)) \div W = j - 1
    BY <1>3, <1>8, <2>1, DivisionUnique
  <2>3. QED
    BY <1>1, <1>5, <1>8, <2>2
<1>10. ASSUME NEW x \in Key
       PROVE  x \in lo..hi <=> Value(x, s + 1) \in i..(j - 1)
  <2> DEFINE y == Value(x, s + 1)
  <2>1. y \in Nat /\ x \in Nat /\ y = x \div W
    BY <1>5
  <2>2. x = y * W + (x % W) /\ x % W \in 0..(W - 1)
    BY <1>3, <2>1, Division
  <2> HIDE DEF y
  <2>3. CASE y \in i..(j - 1)
    <3>1. i * W <= y * W
      BY <1>3, <2>1, <2>3, ProductMonotonic
    <3>2. (y + 1) * W <= j * W
      BY <1>3, <2>1, <2>3, ProductMonotonic
    <3>3. (y + 1) * W = y * W + W /\ y * W \in Nat /\ j * W \in Nat /\ i * W \in Nat
      BY <1>3, <2>1
    <3>4. QED
      BY <1>1, <1>3, <1>4, <2>1, <2>2, <2>3, <3>1, <3>2, <3>3 DEF y
  <2>4. CASE x \in lo..hi
    <3>1. Value(lo, s + 1) <= y /\ y <= Value(hi, s + 1)
      BY <1>1, <2>4, ValueOrder DEF y
    <3>2. QED
      BY <1>7, <1>8, <1>9, <2>1, <2>4, <3>1 DEF y
  <2>5. QED
    BY <2>3, <2>4 DEF y
<1>11. /\ i = v * Base + a /\ j - 1 = v * Base + b
       /\ v \in Nat /\ a \in Nat /\ b \in Nat /\ a < Base /\ b < Base
  <2>1. Value(hi, s) = v
    BY <1>2 DEF Same
  <2>2. /\ v \in Nat /\ a \in Digit /\ Value(lo, s + 1) = v * Base + a
        /\ b \in Digit /\ Value(hi, s + 1) = v * Base + b
    BY <1>1, <1>5, <2>1
  <2> HIDE DEF a, b, v
  <2>3. a \in Nat /\ b \in Nat /\ a < Base /\ b < Base
    BY <1>3, <1>6, <2>2
  <2>4. QED
    BY <1>7, <1>9, <2>2, <2>3
<1>12. v * Base \in Nat
  BY <1>3, <1>11
<1>13. a < b
  <2>1. a # b
    BY <1>1, <1>2, SameNext
  <2>2. Value(lo, s + 1) <= Value(hi, s + 1)
    BY <1>1, ValueOrder
  <2> HIDE DEF a, b, v
  <2>3. QED
    BY <1>7, <1>9, <1>11, <1>12, <2>1, <2>2
<1>14. ASSUME NEW x \in Key
       PROVE  x \in lo..hi <=> Same(x, lo, s) /\ DigitAfter(x, s) \in a..b
  <2> DEFINE w == Value(x, s)
             d == DigitAfter(x, s)
  <2>1. w \in Nat /\ d \in Nat /\ d < Base /\ Value(x, s + 1) = w * Base + d
    BY <1>3, <1>5, <1>6
  <2>2. Same(x, lo, s) <=> w = v
    BY DEF Same
  <2> HIDE DEF w, d, v, a, b
  <2>3. CASE w = v
    BY <1>10, <1>11, <1>12, <2>1, <2>2, <2>3 DEF d
  <2>4. CASE w # v
    <3>1. SUFFICES ASSUME x \in lo..hi
                   PROVE  FALSE
      BY <2>2, <2>4
    <3>2. w * Base + d \in (v * Base + a)..(v * Base + b)
      BY <1>10, <1>11, <2>1, <3>1
    <3>3. w * Base \in Nat
      BY <1>3, <2>1
    <3>4. CASE w < v
      <4>1. (w + 1) * Base <= v * Base /\ (w + 1) * Base = w * Base + Base
        BY <1>3, <1>11, <2>1, <3>4, ProductMonotonic
      <4>2. QED
        BY <1>3, <1>11, <1>12, <2>1, <3>2, <3>3, <4>1
    <3>5. CASE v < w
      <4>1. (v + 1) * Base <= w * Base /\ (v + 1) * Base = v * Base + Base
        BY <1>3, <1>11, <2>1, <3>5, ProductMonotonic
      <4>2. QED
        BY <1>3, <1>11, <1>12, <2>1, <3>2, <3>3, <4>1
    <3>6. QED
      BY <1>11, <2>1, <2>4, <3>4, <3>5
  <2>5. QED
    BY <2>3, <2>4
<1>15. QED
  BY <1>1, <1>2, <1>5, <1>13, <1>14 DEF Same

\* The keys that a prefix and one digit more stand for.
LEMMA ChildKey ==
  ASSUME NEW k \in Key, NEW n \in 0..KeyLen, n < KeyLen, NEW d \in Digit
  PROVE  LET p == Child(Prefix(k, n), d)
             x == FirstKey(p)
         IN  /\ x \in Key /\ p = Prefix(x, n + 1) /\ Same(x, k, n) /\ DigitAfter(x, n) = d
             /\ \A y \in Key : Prefix(y, n + 1) = p <=> Same(y, k, n) /\ DigitAfter(y, n) = d
<1> DEFINE p == Child(Prefix(k, n), d)
           x == FirstKey(p)
           z == ReplaceDigit(k, n, d)
<1>1. n + 1 \in 0..KeyLen
  BY KeyLenAssumption
<1>2. z \in Key /\ Same(z, k, n) /\ DigitAfter(z, n) = d
  BY ReplaceFacts
<1> HIDE DEF z
<1>3. p = Prefix(z, n + 1)
  <2>1. Value(z, n + 1) = Value(z, n) * Base + DigitAfter(z, n) /\ Value(z, n) = Value(k, n)
    BY <1>2, ValueFacts DEF Same
  <2>2. QED
    BY <1>1, <1>2, <2>1, PrefixFacts DEF Child
<1> HIDE DEF p
<1>4. x \in Key /\ Same(x, z, n + 1)
  BY <1>1, <1>2, <1>3, FirstKeyFacts
<1> HIDE DEF x
<1>5. \A y \in Key : Prefix(y, n + 1) = p <=> Same(y, k, n) /\ DigitAfter(y, n) = d
  <2>1. TAKE y \in Key
  <2>2. Prefix(y, n + 1) = p <=> Same(y, z, n + 1)
    BY <1>1, <1>2, <1>3, PrefixFacts
  <2>3. Same(y, z, n + 1) <=> Same(y, z, n) /\ DigitAfter(y, n) = d
    BY <1>2, SameNext
  <2>4. Same(y, z, n) <=> Same(y, k, n)
    BY <1>2 DEF Same
  <2>5. QED
    BY <2>2, <2>3, <2>4
<1>6. p = Prefix(x, n + 1)
  BY <1>1, <1>2, <1>3, <1>4, PrefixFacts
<1>7. QED
  BY <1>4, <1>5, <1>6 DEF x, p

\* The children between those of the bounds of a run, and a key for each.
Inner(lo, hi, s) ==
  {Child(Prefix(lo, s), d) : d \in (DigitAfter(lo, s) + 1)..(DigitAfter(hi, s) - 1)}
InnerKeys(lo, hi, s) == {FirstKey(p) : p \in Inner(lo, hi, s)}

\* They are keys of the run.
LEMMA InnerFacts ==
  ASSUME NEW lo, NEW hi, NEW s, Run(lo, hi, s)
  PROVE  /\ \A x \in InnerKeys(lo, hi, s) :
              /\ x \in Key /\ x \in lo..hi /\ x # lo /\ x # hi
              /\ Same(x, lo, s) /\ Same(x, hi, s)
              /\ Prefix(x, s + 1) \in Inner(lo, hi, s) /\ FirstKey(Prefix(x, s + 1)) = x
              /\ \A y \in Key : Same(y, x, s + 1) => y \in lo..hi /\ y # lo /\ y # hi
              /\ \A y \in InnerKeys(lo, hi, s) : Same(y, x, s + 1) => y = x
              /\ DigitAfter(x, s) \in DigitAfter(lo, s)..DigitAfter(hi, s)
         /\ \A p \in Inner(lo, hi, s) :
              FirstKey(p) \in InnerKeys(lo, hi, s) /\ p = Prefix(FirstKey(p), s + 1)
         /\ \A d \in DigitAfter(lo, s)..DigitAfter(hi, s) :
              \/ d = DigitAfter(lo, s) \/ d = DigitAfter(hi, s)
              \/ \E x \in InnerKeys(lo, hi, s) : DigitAfter(x, s) = d
<1> DEFINE a == DigitAfter(lo, s)
           b == DigitAfter(hi, s)
           M == InnerKeys(lo, hi, s)
           L == Inner(lo, hi, s)
<1>1. /\ lo \in Key /\ hi \in Key /\ s \in 0..KeyLen /\ s < KeyLen /\ s + 1 \in 0..KeyLen
  BY KeyLenAssumption DEF Run
<1>2. /\ Same(hi, lo, s) /\ a \in Digit /\ b \in Digit
      /\ \A x \in Key : x \in lo..hi <=> Same(x, lo, s) /\ DigitAfter(x, s) \in a..b
  BY RunKeys
<1>3. /\ \A d \in (a + 1)..(b - 1) : d \in Digit /\ d \in a..b /\ d # a /\ d # b
      /\ \A d \in a..b : d = a \/ d = b \/ d \in (a + 1)..(b - 1)
  <2>1. a \in Digit /\ b \in Digit
    BY <1>2
  <2> HIDE DEF a, b
  <2>2. a \in Nat /\ b \in Nat /\ b < Base /\ Base \in Nat
    BY <2>1, BaseAssumption DEF Digit
  <2>3. \A d \in (a + 1)..(b - 1) : d \in Nat /\ d < Base /\ d \in a..b /\ d # a /\ d # b
    BY <2>2
  <2>4. \A d \in a..b : d = a \/ d = b \/ d \in (a + 1)..(b - 1)
    BY <2>2
  <2>5. QED
    BY <2>2, <2>3, <2>4 DEF Digit
<1>4. /\ L = {Child(Prefix(lo, s), d) : d \in (a + 1)..(b - 1)}
      /\ M = {FirstKey(p) : p \in L}
  BY DEF Inner, InnerKeys
<1> HIDE DEF L, M, a, b
<1>5. ASSUME NEW d \in (a + 1)..(b - 1)
      PROVE  LET p == Child(Prefix(lo, s), d)
                 x == FirstKey(p)
             IN  /\ x \in Key /\ p = Prefix(x, s + 1) /\ Same(x, lo, s) /\ DigitAfter(x, s) = d
                 /\ p \in L /\ x \in M
  BY <1>1, <1>3, <1>4, ChildKey
<1>6. \A p \in L : FirstKey(p) \in M /\ p = Prefix(FirstKey(p), s + 1)
  BY <1>4, <1>5
<1>7. ASSUME NEW x \in M
      PROVE  /\ x \in Key /\ Prefix(x, s + 1) \in L /\ FirstKey(Prefix(x, s + 1)) = x
             /\ Same(x, lo, s) /\ DigitAfter(x, s) \in (a + 1)..(b - 1)
  <2>1. PICK d \in (a + 1)..(b - 1) : x = FirstKey(Child(Prefix(lo, s), d))
    BY <1>4
  <2>2. QED
    BY <1>5, <2>1
<1>8. ASSUME NEW x \in M
      PROVE  /\ x \in lo..hi /\ x # lo /\ x # hi /\ Same(x, hi, s)
             /\ \A y \in Key : Same(y, x, s + 1) => y \in lo..hi /\ y # lo /\ y # hi
             /\ \A y \in M : Same(y, x, s + 1) => y = x
             /\ DigitAfter(x, s) \in a..b
  <2>1. /\ x \in Key /\ Same(x, lo, s)
        /\ DigitAfter(x, s) \in a..b /\ DigitAfter(x, s) # a /\ DigitAfter(x, s) # b
    BY <1>3, <1>7
  <2>2. x \in lo..hi /\ x # lo /\ x # hi
    BY <1>2, <2>1 DEF a, b
  <2>3. Same(x, hi, s)
    BY <1>2, <2>1 DEF Same
  <2>4. ASSUME NEW y \in Key, Same(y, x, s + 1)
        PROVE  y \in lo..hi /\ y # lo /\ y # hi
    <3>1. Same(y, x, s) /\ DigitAfter(y, s) = DigitAfter(x, s)
      BY <1>1, <2>1, <2>4, SameNext
    <3>2. Same(y, lo, s)
      BY <2>1, <3>1 DEF Same
    <3>3. QED
      BY <1>2, <2>1, <3>1, <3>2 DEF a, b
  <2>5. ASSUME NEW y \in M, Same(y, x, s + 1)
        PROVE  y = x
    <3>1. y \in Key /\ Prefix(y, s + 1) = Prefix(x, s + 1)
      BY <1>1, <1>7, <2>1, <2>5, PrefixFacts
    <3>2. QED
      BY <1>7, <3>1
  <2>6. QED
    BY <2>1, <2>2, <2>3, <2>4, <2>5
<1>9. \A d \in a..b : d = a \/ d = b \/ \E x \in M : DigitAfter(x, s) = d
  BY <1>3, <1>5
<1>10. QED
  BY <1>6, <1>7, <1>8, <1>9 DEF L, M, a, b

\* A key that no other agrees with has a leaf.
LEMMA AloneLeaf ==
  ASSUME NEW f, NEW S, Tree(f, S), S \subseteq Key, NEW k \in S, NEW l \in Level,
         Branches(S, k, l), \A u \in S : Same(u, k, l) => u = k
  PROVE  Prefix(k, l) \in DOMAIN f /\ f[Prefix(k, l)].dlen = KeyLen
<1> DEFINE n == f[Prefix(k, l)]
<1>1. Prefix(k, l) \in DOMAIN f /\ Node(S, k, l, n) /\ KeyLen \in Nat /\ l \in Nat
  <2>1. k \in Key /\ Same(k, k, l)
    BY DEF Same
  <2>2. QED
    BY <2>1, TreeAt, LengthFacts
<1> HIDE DEF n
<1>2. n.dlen \in l..KeyLen /\ n.mkey \in S /\ Same(n.mkey, k, l)
  BY <1>1 DEF Node
<1>3. ~(n.dlen < KeyLen)
  <2>1. SUFFICES ASSUME n.dlen < KeyLen
                 PROVE  FALSE
    OBVIOUS
  <2>2. PICK u \in S : Same(u, k, l) /\ ~Same(u, n.mkey, n.dlen + 1)
    BY <1>1, <2>1 DEF Node
  <2>3. u = n.mkey
    BY <1>2, <2>2
  <2>4. QED
    BY <2>2, <2>3 DEF Same
<1>4. QED
  BY <1>1, <1>2, <1>3 DEF n

\* The tree g with the run from lo to hi below its node at p, each child a leaf.
Filled(g, lo, hi, s, p) ==
  [r \in DOMAIN g \cup Inner(lo, hi, s) |->
     IF r \in Inner(lo, hi, s) THEN Leaf(FirstKey(r))
     ELSE IF r = p
     THEN [g[r] EXCEPT !.kids = @ \cup (DigitAfter(lo, s)..DigitAfter(hi, s))]
     ELSE g[r]]

\* A node is that of each of its keys.
LEMMA NodeOfSame ==
  ASSUME NEW S, NEW k, NEW j, NEW l, Same(j, k, l), NEW n, Node(S, k, l, n)
  PROVE  Node(S, j, l, n)
BY SameTransitive DEF Node

\* The nodes of a set of keys, one by one.
LEMMA NodesFacts ==
  ASSUME NEW S
  PROVE  /\ \A w \in S, l \in Level : Branches(S, w, l) => Prefix(w, l) \in Nodes(S)
         /\ \A r \in Nodes(S) : \E w \in S, l \in Level : Branches(S, w, l) /\ r = Prefix(w, l)
<1>1. ASSUME NEW w \in S, NEW l \in Level, Branches(S, w, l)
      PROVE  Prefix(w, l) \in Nodes(S)
  <2>1. <<w, l>> \in {v \in S \X Level : Branches(S, v[1], v[2])}
    BY <1>1
  <2>2. Prefix(<<w, l>>[1], <<w, l>>[2]) \in Nodes(S)
    BY <2>1 DEF Nodes
  <2>3. QED
    BY <2>2
<1>2. ASSUME NEW r \in Nodes(S)
      PROVE  \E w \in S, l \in Level : Branches(S, w, l) /\ r = Prefix(w, l)
  BY <1>2 DEF Nodes
<1>3. QED
  BY <1>1, <1>2

\* A node with more children.
LEMMA KidsAdded ==
  ASSUME NEW n, n = [dlen |-> n.dlen, mkey |-> n.mkey, kids |-> n.kids], NEW R
  PROVE  [n EXCEPT !.kids = @ \cup R]
           = [dlen |-> n.dlen, mkey |-> n.mkey, kids |-> n.kids \cup R]
OBVIOUS

\* It is the tree of the keys and one for each child between lo's and hi's.
LEMMA FilledTree ==
  ASSUME NEW g, NEW S, Tree(g, S), S \subseteq Key,
         NEW lo \in S, NEW hi \in S, NEW s, Run(lo, hi, s), s > TopLen,
         \A u \in S : u \in lo..hi => u = lo \/ u = hi,
         NEW m \in Level, m <= s, Prefix(hi, m) \in DOMAIN g, g[Prefix(hi, m)].dlen = s
  PROVE  /\ Tree(Filled(g, lo, hi, s, Prefix(hi, m)), S \cup InnerKeys(lo, hi, s))
         /\ DOMAIN g \cap Inner(lo, hi, s) = {}
<1> DEFINE p == Prefix(hi, m)
           M == InnerKeys(lo, hi, s)
           L == Inner(lo, hi, s)
           T == S \cup M
           a == DigitAfter(lo, s)
           b == DigitAfter(hi, s)
           h == Filled(g, lo, hi, s, p)
<1>1. /\ lo \in Key /\ hi \in Key /\ lo < hi /\ lo \in Nat /\ hi \in Nat
      /\ s \in Nat /\ s \in 0..KeyLen /\ s < KeyLen /\ s + 1 \in 0..KeyLen /\ s + 1 \in Level
      /\ s \in Level /\ KeyLen \in Nat /\ (s + 1) - 1 = s
      /\ \A l \in Level : l \in Nat /\ l \in 0..KeyLen /\ l - 1 \in 0..KeyLen /\ l <= KeyLen
  <2>1. /\ lo \in Key /\ hi \in Key /\ lo < hi /\ s \in 0..(KeyLen - 1)
    BY DEF Run
  <2>2. lo \in Nat /\ hi \in Nat
    BY <2>1, SameFacts
  <2>3. QED
    BY <2>1, <2>2, LengthFacts DEF Level
<1>2. /\ Same(hi, lo, s) /\ Same(lo, hi, s) /\ ~Same(hi, lo, s + 1)
  BY RunKeys DEF Same
<1>3. ASSUME NEW x \in M
      PROVE  /\ x \in Key /\ x \in lo..hi /\ x \in Nat /\ lo <= x
             /\ Same(x, hi, s) /\ Same(hi, x, s)
             /\ Prefix(x, s + 1) \in L /\ FirstKey(Prefix(x, s + 1)) = x
             /\ \A y \in S : ~Same(y, x, s + 1) /\ ~Same(x, y, s + 1)
             /\ \A y \in M : Same(y, x, s + 1) => y = x
             /\ DigitAfter(x, s) \in a..b
             /\ \A l \in Level : l <= s => Same(x, hi, l) /\ Same(hi, x, l)
  <2>1. /\ x \in Key /\ x \in lo..hi /\ Same(x, hi, s)
        /\ Prefix(x, s + 1) \in L /\ FirstKey(Prefix(x, s + 1)) = x
        /\ \A y \in Key : Same(y, x, s + 1) => y \in lo..hi /\ y # lo /\ y # hi
        /\ \A y \in M : Same(y, x, s + 1) => y = x
        /\ DigitAfter(x, s) \in a..b
    BY InnerFacts
  <2>2. \A y \in S : ~Same(y, x, s + 1) /\ ~Same(x, y, s + 1)
    BY <2>1 DEF Same
  <2>3. \A l \in Level : l <= s => Same(x, hi, l) /\ Same(hi, x, l)
    <3>1. \A l \in Level : l <= s => Same(x, hi, l)
      BY <1>1, <2>1, SameShorter
    <3>2. QED
      BY <3>1 DEF Same
  <2>4. QED
    BY <1>1, <2>1, <2>2, <2>3 DEF Same
<1>4. /\ \A r \in L : FirstKey(r) \in M /\ r = Prefix(FirstKey(r), s + 1)
      /\ \A d \in a..b : d = a \/ d = b \/ \E x \in M : DigitAfter(x, s) = d
  BY InnerFacts
<1>5. T \subseteq Key /\ S \subseteq T /\ M \subseteq T
  BY <1>3
<1> HIDE DEF M, L, a, b
<1>6. DOMAIN g \cap L = {}
  <2>1. SUFFICES ASSUME NEW r \in L, r \in DOMAIN g
                 PROVE  FALSE
    OBVIOUS
  <2>2. FirstKey(r) \in M /\ r = Prefix(FirstKey(r), s + 1)
    BY <1>4
  <2> DEFINE x == FirstKey(r)
  <2>3. x \in M /\ x \in Key /\ Prefix(x, s + 1) \in DOMAIN g
    BY <1>3, <2>1, <2>2
  <2> HIDE DEF x
  <2>4. PICK u \in S : Same(u, x, s + 1)
    BY <1>1, <2>3, TreeAt
  <2>5. QED
    BY <1>3, <2>3, <2>4
<1>7. /\ DOMAIN h = DOMAIN g \cup L /\ h = [r \in DOMAIN h |-> h[r]]
      /\ \A r \in L : h[r] = Leaf(FirstKey(r))
      /\ \A r \in DOMAIN g : r # p => h[r] = g[r]
      /\ h[p] = [g[p] EXCEPT !.kids = @ \cup (a..b)]
  <2>1. p \notin L /\ \A r \in DOMAIN g : r \notin L
    BY <1>6
  <2> HIDE DEF p
  <2>2. h = [r \in DOMAIN g \cup L |->
               IF r \in L THEN Leaf(FirstKey(r))
               ELSE IF r = p THEN [g[r] EXCEPT !.kids = @ \cup (a..b)]
               ELSE g[r]]
    BY DEF Filled, L, a, b
  <2>3. p \in DOMAIN g
    BY DEF p
  <2> HIDE DEF h
  <2>4. QED
    BY <2>1, <2>2, <2>3
<1> HIDE DEF h
<1>8. ASSUME NEW w \in S, NEW l \in Level, Branches(T, w, l)
      PROVE  Branches(S, w, l)
  <2>1. CASE l = TopLen + 1
    BY <2>1 DEF Branches
  <2>2. ASSUME NEW x \in M, Same(x, w, l - 1), ~Same(x, w, l)
        PROVE  Branches(S, w, l)
    <3>1. CASE l <= s
      <4>1. Same(x, hi, l) /\ Same(x, hi, l - 1)
        BY <1>1, <1>3, <3>1, SameShorter
      <4>2. Same(hi, w, l - 1) /\ ~Same(hi, w, l)
        BY <2>2, <4>1 DEF Same
      <4>3. QED
        BY <4>2 DEF Branches
    <3>2. CASE l = s + 1
      <4>1. Same(x, w, s) /\ Same(x, hi, s)
        BY <1>1, <1>3, <2>2, <3>2
      <4>2. Same(hi, w, s) /\ Same(lo, w, s)
        BY <1>2, <4>1 DEF Same
      <4>3. ~Same(hi, w, s + 1) \/ ~Same(lo, w, s + 1)
        BY <1>2 DEF Same
      <4>4. QED
        BY <1>1, <3>2, <4>2, <4>3 DEF Branches
    <3>3. CASE s + 1 <= l - 1
      <4>1. Same(x, w, s + 1)
        BY <1>1, <1>3, <2>2, <3>3, SameShorter
      <4>2. QED
        BY <1>3, <4>1
    <3>4. QED
      BY <1>1, <3>1, <3>2, <3>3
  <2>3. QED
    BY <1>8, <2>1, <2>2 DEF Branches
<1>9. \A w \in S, l \in Level : Branches(S, w, l) => Branches(T, w, l)
  BY <1>5 DEF Branches
<1>10. ASSUME NEW x \in M, NEW l \in Level
       PROVE  /\ l <= s => (Branches(T, x, l) <=> Branches(S, hi, l))
              /\ l = s + 1 => Branches(T, x, l)
              /\ l > s + 1 => ~Branches(T, x, l)
  <2>1. ASSUME l <= s
        PROVE  Branches(T, x, l) <=> Branches(S, hi, l)
    <3>1. Same(x, hi, l) /\ Same(x, hi, l - 1)
      BY <1>1, <1>3, <2>1, SameShorter
    <3>2. Branches(T, x, l) <=> Branches(T, hi, l)
      BY <3>1 DEF Branches, Same
    <3>3. QED
      BY <1>8, <1>9, <3>2
  <2>2. ASSUME l = s + 1
        PROVE  Branches(T, x, l)
    BY <1>1, <1>3, <1>5, <2>2 DEF Branches
  <2>3. ASSUME l > s + 1, Branches(T, x, l)
        PROVE  FALSE
    <3>1. l # TopLen + 1 /\ s + 1 <= l - 1
      BY <1>1, <2>3, LengthFacts
    <3>2. PICK u \in T : Same(u, x, l - 1) /\ ~Same(u, x, l)
      BY <2>3, <3>1 DEF Branches
    <3>3. Same(u, x, s + 1)
      BY <1>1, <1>3, <1>5, <3>1, <3>2, SameShorter
    <3>4. u = x
      BY <1>3, <3>3
    <3>5. QED
      BY <3>2, <3>4 DEF Same
  <2>4. QED
    BY <2>1, <2>2, <2>3
<1>11. DOMAIN g = Nodes(S)
  BY DEF Tree
<1>12. Nodes(T) = Nodes(S) \cup L
  <2>1. ASSUME NEW w \in T, NEW l \in Level, Branches(T, w, l)
        PROVE  Prefix(w, l) \in Nodes(S) \cup L
    <3>1. CASE w \in S
      BY <1>8, <2>1, <3>1, NodesFacts
    <3>2. CASE w \in M /\ l <= s
      <4>1. Branches(S, hi, l) /\ Prefix(w, l) = Prefix(hi, l)
        BY <1>1, <1>3, <1>10, <2>1, <3>2, PrefixFacts
      <4>2. QED
        BY <4>1, NodesFacts
    <3>3. CASE w \in M /\ l = s + 1
      BY <1>3, <3>3
    <3>4. QED
      BY <1>1, <1>10, <2>1, <3>1, <3>2, <3>3
  <2>2. \A r \in Nodes(S) : r \in Nodes(T)
    <3>1. TAKE r \in Nodes(S)
    <3>2. PICK w \in S, l \in Level : Branches(S, w, l) /\ r = Prefix(w, l)
      BY NodesFacts
    <3>3. w \in T /\ Branches(T, w, l)
      BY <1>5, <1>9, <3>2
    <3>4. QED
      BY <3>2, <3>3, NodesFacts
  <2>3. \A r \in L : r \in Nodes(T)
    <3>1. TAKE r \in L
    <3>2. FirstKey(r) \in M /\ r = Prefix(FirstKey(r), s + 1)
      BY <1>4
    <3>3. Branches(T, FirstKey(r), s + 1)
      BY <1>1, <1>10, <3>2
    <3>4. QED
      BY <1>1, <1>5, <3>2, <3>3, NodesFacts
  <2>4. \A r \in Nodes(T) : r \in Nodes(S) \cup L
    <3> HIDE DEF T
    <3>1. TAKE r \in Nodes(T)
    <3>2. PICK w \in T, l \in Level : Branches(T, w, l) /\ r = Prefix(w, l)
      BY NodesFacts
    <3>3. QED
      BY <2>1, <3>2
  <2>5. QED
    BY <2>2, <2>3, <2>4
<1>13. ASSUME NEW l \in Level, l <= m, Prefix(hi, l) \in DOMAIN g
       PROVE  Node(T, hi, l, h[Prefix(hi, l)])
  <2> DEFINE n == g[Prefix(hi, l)]
  <2>1. Node(S, hi, l, n)
    BY <1>1, <1>13, TreeAt
  <2>2. IF l = m THEN n.dlen = s ELSE n.dlen + 1 <= m /\ n.dlen \in Nat
    <3>1. CASE l = m
      BY <3>1
    <3>2. CASE l # m
      <4>1. l < m /\ l \in Nat /\ m \in Nat
        BY <1>1, <1>13, <3>2
      <4>2. n.dlen \in l..(m - 1)
        BY <1>1, <1>13, <4>1, NodeAbove
      <4>3. QED
        BY <3>2, <4>1, <4>2
    <3>3. QED
      BY <3>1, <3>2
  <2>3. h[Prefix(hi, l)] = IF l = m THEN [n EXCEPT !.kids = @ \cup (a..b)] ELSE n
    <3>1. l # m => Prefix(hi, l) # p
      BY <1>1, PrefixFacts
    <3>2. QED
      BY <1>7, <1>13, <3>1
  <2> HIDE DEF n, p
  <2>4. /\ n = [dlen |-> n.dlen, mkey |-> n.mkey, kids |-> n.kids]
        /\ n.dlen \in l..KeyLen /\ n.mkey \in S /\ Same(n.mkey, hi, l)
        /\ \A u \in S : Same(u, hi, l) => n.mkey <= u /\ Same(u, n.mkey, n.dlen)
        /\ n.dlen < KeyLen => \E u \in S : Same(u, hi, l) /\ ~Same(u, n.mkey, n.dlen + 1)
        /\ \A d : d \in n.kids <=>
                  n.dlen < KeyLen /\ \E u \in S : Same(u, hi, l) /\ d = DigitAfter(u, n.dlen)
    BY <2>1 DEF Node
  <2>5. /\ n.dlen \in Nat /\ n.dlen <= s /\ n.dlen \in 0..KeyLen /\ n.dlen < KeyLen
        /\ l <= s /\ l \in Nat /\ l \in 0..KeyLen /\ m \in Nat
        /\ n.mkey \in Key /\ n.mkey \in Nat
    <3>1. m \in Nat /\ l \in Nat
      BY <1>1
    <3>2. n.mkey \in Nat
      BY <2>4, SameFacts
    <3>3. QED
      BY <1>1, <1>13, <2>2, <2>4, <3>1, <3>2
  <2>6. Same(hi, hi, l) /\ Same(lo, hi, l) /\ Same(hi, n.mkey, n.dlen) /\ n.mkey <= lo
    <3>1. Same(hi, hi, l) /\ Same(lo, hi, l)
      BY <1>1, <1>2, <2>5, SameShorter DEF Same
    <3>2. QED
      BY <2>4, <3>1
  <2>7. ASSUME NEW u \in T, Same(u, hi, l)
        PROVE  n.mkey <= u /\ Same(u, n.mkey, n.dlen)
    <3>1. CASE u \in S
      BY <2>4, <2>7, <3>1
    <3>2. CASE u \in M
      <4>1. u \in Key /\ u \in Nat /\ lo <= u /\ Same(u, hi, s)
        BY <1>3, <3>2
      <4>2. Same(u, hi, n.dlen)
        BY <1>1, <2>5, <4>1, SameShorter
      <4>3. QED
        BY <1>1, <2>5, <2>6, <4>1, <4>2 DEF Same
    <3>3. QED
      BY <3>1, <3>2
  <2>8. CASE l # m
    <3>1. \A u \in M : DigitAfter(u, n.dlen) = DigitAfter(hi, n.dlen)
      <4>1. TAKE u \in M
      <4>2. u \in Key /\ Same(u, hi, s)
        BY <1>3
      <4>3. n.dlen + 1 \in 0..KeyLen /\ n.dlen + 1 <= s
        BY <1>1, <2>2, <2>5, <2>8
      <4>4. Same(u, hi, n.dlen + 1)
        BY <1>1, <4>2, <4>3, SameShorter
      <4>5. QED
        BY <1>1, <2>5, <4>2, <4>4, SameNext
    <3>2. \A d : d \in n.kids <=>
                 n.dlen < KeyLen /\ \E u \in T : Same(u, hi, l) /\ d = DigitAfter(u, n.dlen)
      BY <2>4, <2>6, <3>1
    <3>3. Node(T, hi, l, n)
      BY <1>5, <2>4, <2>7, <3>2 DEF Node
    <3>4. QED
      BY <2>3, <2>8, <3>3
  <2>9. CASE l = m
    <3> DEFINE K == n.kids \cup (a..b)
               N == [dlen |-> n.dlen, mkey |-> n.mkey, kids |-> K]
    <3>1. n.dlen = s
      BY <2>2, <2>9
    <3>2. \A u \in M : Same(u, hi, l)
      BY <1>3, <2>5
    <3>3. ASSUME NEW d
          PROVE  d \in K <=> s < KeyLen /\ \E u \in T : Same(u, hi, l) /\ d = DigitAfter(u, s)
      <4>1. ASSUME d \in a..b
            PROVE  \E u \in T : Same(u, hi, l) /\ d = DigitAfter(u, s)
        <5>1. CASE d = a
          BY <1>5, <2>6, <5>1 DEF a
        <5>2. CASE d = b
          BY <1>5, <2>6, <5>2 DEF b
        <5>3. CASE \E x \in M : DigitAfter(x, s) = d
          BY <1>5, <3>2, <5>3
        <5>4. QED
          BY <1>4, <4>1, <5>1, <5>2, <5>3
      <4>2. ASSUME NEW u \in T, Same(u, hi, l), d = DigitAfter(u, s)
            PROVE  d \in K
        <5>1. CASE u \in S
          BY <1>1, <2>4, <3>1, <4>2, <5>1
        <5>2. CASE u \in M
          BY <1>3, <4>2, <5>2
        <5>3. QED
          BY <5>1, <5>2
      <4>3. d \in n.kids => \E u \in T : Same(u, hi, l) /\ d = DigitAfter(u, s)
        BY <1>5, <2>4, <3>1
      <4>4. QED
        BY <1>1, <4>1, <4>2, <4>3
    <3>4. h[Prefix(hi, l)] = N
      <4> DEFINE R == a..b
      <4>1. h[Prefix(hi, l)] = [n EXCEPT !.kids = @ \cup R]
        BY <2>3, <2>9
      <4> HIDE DEF R
      <4>2. [n EXCEPT !.kids = @ \cup R]
              = [dlen |-> n.dlen, mkey |-> n.mkey, kids |-> n.kids \cup R]
        BY <2>4, KidsAdded
      <4>3. QED
        BY <4>1, <4>2 DEF R
    <3>5. N.dlen = n.dlen /\ N.mkey = n.mkey /\ N.kids = K
      OBVIOUS
    <3>6. N = [dlen |-> N.dlen, mkey |-> N.mkey, kids |-> N.kids]
      OBVIOUS
    <3> HIDE DEF N, K
    <3>7. Node(T, hi, l, N)
      BY <1>5, <2>4, <2>7, <3>1, <3>3, <3>5, <3>6 DEF Node
    <3>8. QED
      BY <3>4, <3>7
  <2>10. QED
    BY <2>8, <2>9
<1>14. ASSUME NEW w \in S, NEW l \in Level, Branches(S, w, l),
              \A x \in M : ~Same(x, w, l), Prefix(w, l) # p
       PROVE  Node(T, w, l, h[Prefix(w, l)])
  <2>1. Node(S, w, l, g[Prefix(w, l)]) /\ Prefix(w, l) \in DOMAIN g
    BY <1>11, <1>14, NodesFacts DEF Tree
  <2>2. h[Prefix(w, l)] = g[Prefix(w, l)]
    BY <1>7, <1>14, <2>1
  <2> DEFINE n == g[Prefix(w, l)]
  <2> HIDE DEF n
  <2>3. Node(T, w, l, n)
    BY <1>5, <1>14, <2>1 DEF Node, n
  <2>4. QED
    BY <2>2, <2>3 DEF n
<1>15. ASSUME NEW x \in M
       PROVE  Node(T, x, s + 1, h[Prefix(x, s + 1)])
  <2>1. h[Prefix(x, s + 1)] = Leaf(x)
    BY <1>3, <1>7
  <2>2. /\ \A u \in T : Same(u, x, s + 1) => u = x
        /\ x \in Nat
    BY <1>3
  <2>3. Same(x, x, s + 1) /\ \A n : Same(x, x, n)
    BY DEF Same
  <2>4. Node(T, x, s + 1, Leaf(x))
    BY <1>1, <1>5, <2>2, <2>3 DEF Node, Leaf
  <2>5. QED
    BY <2>1, <2>4
<1>16. ASSUME NEW w \in T, NEW l \in Level, Branches(T, w, l)
       PROVE  Node(T, w, l, h[Prefix(w, l)])
  <2>1. CASE Same(w, hi, l) /\ l <= s
    <3>1. Prefix(w, l) = Prefix(hi, l)
      BY <1>1, <1>5, <2>1, PrefixFacts
    <3>2. Prefix(hi, l) \in DOMAIN g
      <4>1. CASE w \in S
        <5>1. Branches(S, w, l)
          BY <1>8, <1>16, <4>1
        <5>2. QED
          BY <1>11, <3>1, <4>1, <5>1, NodesFacts
      <4>2. CASE w \in M
        <5>1. Branches(S, hi, l)
          BY <1>10, <1>16, <2>1, <4>2
        <5>2. QED
          BY <1>11, <5>1, NodesFacts
      <4>3. QED
        BY <4>1, <4>2
    <3>3. l <= m
      <4>1. SUFFICES ASSUME m < l
                     PROVE  FALSE
        BY <1>1
      <4>2. g[Prefix(hi, m)].dlen \in m..(l - 1)
        BY <1>1, <3>2, <4>1, NodeAbove
      <4>3. QED
        BY <1>1, <2>1, <4>2
    <3>4. Node(T, hi, l, h[Prefix(hi, l)])
      BY <1>13, <3>2, <3>3
    <3>5. QED
      BY <2>1, <3>1, <3>4, NodeOfSame
  <2>2. CASE w \in S /\ ~(Same(w, hi, l) /\ l <= s)
    <3>1. Branches(S, w, l) /\ w \in Key
      BY <1>8, <1>16, <2>2
    <3>2. ASSUME NEW x \in M, Same(x, w, l)
          PROVE  FALSE
      <4>1. CASE l <= s
        <5>1. Same(x, hi, l)
          BY <1>3, <4>1
        <5>2. QED
          BY <2>2, <3>2, <4>1, <5>1 DEF Same
      <4>2. CASE ~(l <= s)
        <5>1. s + 1 <= l
          BY <1>1, <4>2
        <5>2. Same(x, w, s + 1)
          BY <1>1, <1>3, <3>1, <3>2, <5>1, SameShorter
        <5>3. QED
          BY <1>3, <2>2, <5>2
      <4>3. QED
        BY <4>1, <4>2
    <3>3. Prefix(w, l) # p
      <4>1. SUFFICES ASSUME Prefix(w, l) = p
                     PROVE  FALSE
        OBVIOUS
      <4>2. l = m
        BY <1>1, <3>1, <4>1, PrefixFacts
      <4>3. Same(w, hi, l)
        BY <1>1, <3>1, <4>1, <4>2, PrefixFacts
      <4>4. QED
        BY <2>2, <4>2, <4>3
    <3>4. QED
      BY <1>14, <2>2, <3>1, <3>2, <3>3
  <2>3. CASE w \in M /\ ~(Same(w, hi, l) /\ l <= s)
    <3>1. l = s + 1
      <4>1. ~(l <= s)
        BY <1>3, <2>3
      <4>2. ~(l > s + 1)
        BY <1>10, <1>16, <2>3
      <4>3. QED
        BY <1>1, <4>1, <4>2
    <3>2. QED
      BY <1>15, <2>3, <3>1
  <2>4. QED
    BY <2>1, <2>2, <2>3
<1>17. Tree(h, T)
  BY <1>7, <1>11, <1>12, <1>16 DEF Tree
<1>18. QED
  BY <1>6, <1>17 DEF M, L, h

-----------------------------------------------------------------------------
(* InsertPerfectRange. *)

\* The bounds of a run are inserted, which makes g: they part where the run is, at
\* the deepest node that the upper bound found.
BoundsMake(t, S, G, C, lo, hi, s, g) ==
  LET half == InsertInto(t, lo)
      both == InsertInto(half, hi)
      q == QueryLCP(half, hi)
  IN  /\ RangeTrie(both, g, S \cup {lo, hi}, G, C)
      /\ both = [flat |-> both.flat, node |-> both.node]
      /\ q.lcp = s /\ q.ilen \in Level /\ q.ilen <= s
      /\ Prefix(hi, q.ilen) \in DOMAIN g /\ g[Prefix(hi, q.ilen)].dlen = s
      /\ t.flat = Flat(S \cup G) => both.flat = Flat(S \cup {lo, hi} \cup G)

\* So it is when InsertPerfectRange inserts them.
LEMMA BothInserted ==
  ASSUME NEW t, NEW f, NEW S, NEW G, NEW C, RangeTrie(t, f, S, G, C),
         NEW lo, NEW hi, NEW s, Run(lo, hi, s), s > TopLen,
         \A x \in lo..hi : x \notin Keys(S, G, C)
  PROVE  \E g : BoundsMake(t, S, G, C, lo, hi, s, g)
<1> PICK half : half = InsertInto(t, lo)
  OBVIOUS
<1> PICK q : q = QueryLCP(half, hi)
  OBVIOUS
<1>1. /\ lo \in Key /\ hi \in Key /\ lo < hi /\ lo \in Nat /\ hi \in Nat
      /\ lo \in lo..hi /\ hi \in lo..hi /\ lo # hi
      /\ s \in Nat /\ s \in 0..KeyLen /\ s < KeyLen /\ s + 1 \in 0..KeyLen /\ s + 1 \in Level
      /\ s \in Level /\ KeyLen \in Nat /\ TopLen \in Nat
      /\ \A l \in Level : l \in Nat /\ l \in 0..KeyLen
  <2>1. /\ lo \in Key /\ hi \in Key /\ lo < hi /\ s \in 0..(KeyLen - 1)
    BY DEF Run
  <2>2. lo \in Nat /\ hi \in Nat
    BY <2>1, SameFacts
  <2>3. QED
    BY <2>1, <2>2, LengthFacts DEF Level
<1>2. /\ Same(hi, lo, s) /\ Same(lo, hi, s) /\ ~Same(lo, hi, s + 1)
      /\ DigitAfter(hi, s) \in DigitAfter(lo, s)..DigitAfter(hi, s)
      /\ \A x \in Key : x \in lo..hi <=>
                        Same(x, lo, s) /\ DigitAfter(x, s) \in DigitAfter(lo, s)..DigitAfter(hi, s)
  BY <1>1, RunKeys DEF Same
<1>3. PICK g1 : /\ RangeTrie(half, g1, S \cup {lo}, G, C)
                /\ t.flat = Flat(S \cup G) => half.flat = Flat(S \cup {lo} \cup G)
  <2>1. lo \in Key /\ lo \notin Keys(S, G, C)
    BY <1>1
  <2>2. \E g : InsertMakes(t, f, S, G, C, lo, g)
    BY <2>1, InsertKeepsRangeTrie
  <2>3. QED
    BY <2>2 DEF InsertMakes
<1> DEFINE S1 == S \cup {lo}
           S2 == S1 \cup {hi}
           both == InsertInto(half, hi)
<1>4. hi \notin Keys(S1, G, C)
  <2>1. hi \notin Keys(S, G, C)
    BY <1>1
  <2>2. QED
    BY <1>1, <2>1 DEF Keys
<1>5. PICK g : /\ Grown(g1, g, S1, hi, q.lcp)
               /\ RangeTrie(both, g, S2, G, C)
               /\ both = [flat |-> both.flat, node |-> both.node]
               /\ half.flat = Flat(S1 \cup G) => both.flat = Flat(S2 \cup G)
  <2>1. RangeTrie(half, g1, S1, G, C) /\ hi \in Key
    BY <1>1, <1>3
  <2> HIDE DEF S1
  <2>2. \E g : InsertMakes(half, g1, S1, G, C, hi, g)
    BY <1>4, <2>1, InsertKeepsRangeTrie
  <2>3. QED
    BY <2>2 DEF InsertMakes
<1>6. S2 = S \cup {lo, hi}
  OBVIOUS
<1>7. /\ S \subseteq Key /\ Tree(g1, S1) /\ S1 \subseteq Key /\ Tree(g, S2) /\ S2 \subseteq Key
      /\ \A w \in S : w \notin lo..hi
  <2>1. S \subseteq Key /\ Tree(g1, S1) /\ Tree(g, S2)
    BY <1>3, <1>5 DEF RangeTrie, Pruned
  <2>2. \A w \in S : w \in Keys(S, G, C)
    BY DEF Keys
  <2>3. QED
    BY <1>1, <2>1, <2>2
<1> HIDE DEF S1, S2, both
<1>8. /\ q.lcp \in TopLen..(KeyLen - 1) /\ \A u \in S1, n \in Level : Same(u, hi, n) => n <= q.lcp
      /\ q.lcp # TopLen => \E w \in S1 : Same(w, hi, q.lcp)
      /\ DOMAIN g1 \subseteq DOMAIN g
      /\ \A p \in DOMAIN g : \/ p \in DOMAIN g1 \cup {Prefix(hi, q.lcp + 1)}
                             \/ \E w \in S1 : Same(w, hi, q.lcp) /\ p = Prefix(w, q.lcp + 1)
  BY <1>5 DEF Grown
<1>9. q.lcp = s
  <2>1. s <= q.lcp
    BY <1>1, <1>2, <1>8 DEF S1
  <2>2. SUFFICES ASSUME s + 1 <= q.lcp
                 PROVE  FALSE
    BY <1>1, <1>8, <2>1
  <2>3. PICK w \in S1 : Same(w, hi, q.lcp)
    BY <1>1, <1>8, <2>1
  <2>4. w \in Key /\ Same(w, hi, s + 1)
    BY <1>1, <1>7, <1>8, <2>2, <2>3, SameShorter
  <2>5. Same(w, hi, s) /\ DigitAfter(w, s) = DigitAfter(hi, s)
    BY <1>1, <2>4, SameNext
  <2>6. Same(w, lo, s)
    BY <1>2, <2>5 DEF Same
  <2>7. w \in lo..hi
    BY <1>2, <2>4, <2>5, <2>6
  <2>8. w = lo
    BY <1>7, <2>7 DEF S1
  <2>9. QED
    BY <1>2, <2>4, <2>8
<1> DEFINE F == Full(half, g1)
<1>10. /\ q.ilen \in Level /\ q.ilen <= s /\ Prefix(hi, q.ilen) \in DOMAIN g1
       /\ \A l \in Level : Prefix(hi, l) \in DOMAIN g1 => l <= q.ilen
  <2>1. Pruned(half, g1, S1, C)
    BY <1>3 DEF RangeTrie, S1
  <2>2. ~Under(C, hi)
    BY <1>1, <1>4 DEF Keys
  <2>3. q = QueryLCP(F, hi) /\ F.node = g1
    BY <1>1, <2>1, <2>2, QueryPruned DEF Full
  <2> HIDE DEF F
  <2>4. Deepest(F, S1, hi, q)
    <3>1. Tree(F.node, S1) /\ S1 \subseteq Key /\ hi \in Key
      BY <1>1, <1>7, <2>3
    <3>2. q.lcp # TopLen
      BY <1>1, <1>9
    <3>3. q.lcp # TopLen => Deepest(F, S1, hi, q)
      BY <2>3, <3>1, QueryFacts
    <3>4. QED
      BY <3>2, <3>3
  <2>5. /\ q.ilen \in Level /\ Prefix(hi, q.ilen) \in DOMAIN F.node
        /\ \A l \in PathLevels(F, hi) : l <= q.ilen
        /\ q.ilen <= q.lcp
    BY <2>4 DEF Deepest
  <2>6. QED
    BY <1>9, <2>3, <2>5 DEF PathLevels, Has
<1>11. PICK m \in Level : m <= s /\ Prefix(hi, m) \in DOMAIN g /\ g[Prefix(hi, m)].dlen = s
  <2>1. lo \in S2 /\ hi \in S2
    BY DEF S1, S2
  <2>2. \E m \in Level : /\ m <= s /\ Prefix(hi, m) \in DOMAIN g
                         /\ g[Prefix(hi, m)].dlen = s
    <3>1. Tree(g, S2) /\ S2 \subseteq Key /\ s \in Level /\ s < KeyLen
      BY <1>1, <1>7
    <3>2. Same(lo, hi, s) /\ ~Same(lo, hi, s + 1)
      BY <1>2
    <3>3. QED
      BY <2>1, <3>1, <3>2, NodeWhereKeysPart
  <2>3. QED
    BY <2>2
<1>12. m <= q.ilen
  <2>1. \A w \in Key : Prefix(hi, m) # Prefix(w, s + 1)
    <3>1. TAKE w \in Key
    <3>2. Prefix(hi, m)[1] = m /\ Prefix(w, s + 1)[1] = s + 1
      BY <1>1, PrefixFacts
    <3>3. m \in Nat /\ m <= s /\ s \in Nat
      BY <1>1, <1>11
    <3>4. m # s + 1
      BY <3>3
    <3>5. QED
      BY <3>2, <3>4
  <2>2. Prefix(hi, m) \in DOMAIN g1
    <3>1. \A w \in S1 : Prefix(hi, m) # Prefix(w, s + 1)
      BY <1>7, <2>1
    <3>2. Prefix(hi, m) # Prefix(hi, s + 1)
      BY <1>1, <2>1
    <3>3. Prefix(hi, m) \in DOMAIN g
      BY <1>11
    <3>4. QED
      BY <1>8, <1>9, <3>1, <3>2, <3>3
  <2>3. QED
    BY <1>10, <2>2
<1>13. m = q.ilen
  <2> HIDE DEF F
  <2>0. m \in Nat /\ q.ilen \in Nat /\ m \in Level /\ q.ilen \in Level
    BY <1>1, <1>10, <1>11
  <2>1. SUFFICES ASSUME m < q.ilen
                 PROVE  FALSE
    BY <1>12, <2>0
  <2>2. Prefix(hi, q.ilen) \in DOMAIN g
    BY <1>8, <1>10
  <2>3. g[Prefix(hi, m)].dlen \in m..(q.ilen - 1)
    <3>1. Tree(g, S2) /\ S2 \subseteq Key /\ hi \in Key /\ Prefix(hi, m) \in DOMAIN g
      BY <1>1, <1>7, <1>11
    <3>2. QED
      BY <2>0, <2>1, <2>2, <3>1, NodeAbove
  <2>4. s \in m..(q.ilen - 1) /\ q.ilen <= s /\ s \in Nat
    BY <1>1, <1>10, <1>11, <2>3
  <2>5. QED
    BY <2>0, <2>4
<1>14. t.flat = Flat(S \cup G) => both.flat = Flat(S2 \cup G)
  BY <1>3, <1>5 DEF S1
<1>15. QED
  BY <1>5, <1>6, <1>9, <1>10, <1>11, <1>13, <1>14 DEF both, BoundsMake

\* What is between two keys is a key.
LEMMA KeyBetween ==
  ASSUME NEW lo \in Key, NEW hi \in Key
  PROVE  \A x \in lo..hi : x \in Key
<1>1. Weight[KeyLen] \in Nat
  BY KeyLenAssumption, WeightFacts
<1>2. QED
  BY <1>1 DEF Key

\* A key for each child of a run.
Tops(lo, hi, s) == InnerKeys(lo, hi, s) \cup {lo, hi}

\* No two of them have the same child, and the keys of the run are those of these
\* children.
LEMMA TopsFacts ==
  ASSUME NEW lo, NEW hi, NEW s, Run(lo, hi, s)
  PROVE  /\ \A x \in Tops(lo, hi, s) : x \in Key /\ x \in lo..hi /\ Same(x, lo, s)
         /\ \A x \in Tops(lo, hi, s), y \in Tops(lo, hi, s) : Same(y, x, s + 1) => y = x
         /\ \A k \in Key : k \in lo..hi <=> \E x \in Tops(lo, hi, s) : Same(k, x, s + 1)
         /\ {Prefix(x, s + 1) : x \in Tops(lo, hi, s)}
              = Inner(lo, hi, s) \cup {Prefix(lo, s + 1), Prefix(hi, s + 1)}
<1> DEFINE a == DigitAfter(lo, s)
           b == DigitAfter(hi, s)
           M == InnerKeys(lo, hi, s)
           L == Inner(lo, hi, s)
<1>1. /\ lo \in Key /\ hi \in Key /\ lo < hi /\ s \in 0..KeyLen /\ s < KeyLen
      /\ lo \in Nat /\ hi \in Nat /\ lo \in lo..hi /\ hi \in lo..hi
  <2>1. lo \in Key /\ hi \in Key /\ lo < hi /\ s \in 0..KeyLen /\ s < KeyLen
    BY KeyLenAssumption DEF Run
  <2>2. lo \in Nat /\ hi \in Nat
    BY <2>1, SameFacts
  <2>3. QED
    BY <2>1, <2>2
<1>2. /\ Same(hi, lo, s) /\ ~Same(hi, lo, s + 1) /\ Same(lo, lo, s)
      /\ \A x \in Key : x \in lo..hi <=> Same(x, lo, s) /\ DigitAfter(x, s) \in a..b
  BY RunKeys DEF Same
<1>3. /\ \A x \in M :
           /\ x \in Key /\ x \in lo..hi /\ Same(x, lo, s) /\ Prefix(x, s + 1) \in L
           /\ \A y \in Key : Same(y, x, s + 1) => y \in lo..hi /\ y # lo /\ y # hi
           /\ \A y \in M : Same(y, x, s + 1) => y = x
      /\ \A p \in L : FirstKey(p) \in M /\ p = Prefix(FirstKey(p), s + 1)
      /\ \A d \in a..b : d = a \/ d = b \/ \E x \in M : DigitAfter(x, s) = d
  BY InnerFacts
<1>4. Tops(lo, hi, s) = M \cup {lo, hi}
  BY DEF Tops
<1> HIDE DEF M, L, a, b
<1>5. \A x \in M \cup {lo, hi} : x \in Key /\ x \in lo..hi /\ Same(x, lo, s)
  BY <1>1, <1>2, <1>3
<1>6. ASSUME NEW x \in M \cup {lo, hi}, NEW y \in M \cup {lo, hi}, Same(y, x, s + 1)
      PROVE  y = x
  <2>1. Same(x, y, s + 1)
    BY <1>6 DEF Same
  <2>2. CASE x \in M
    BY <1>3, <1>5, <1>6, <2>2
  <2>3. CASE y \in M
    BY <1>3, <1>5, <2>1, <2>3
  <2>4. CASE x \in {lo, hi} /\ y \in {lo, hi}
    <3>1. ~Same(lo, hi, s + 1)
      BY <1>2 DEF Same
    <3>2. QED
      BY <1>2, <1>6, <2>4, <3>1
  <2>5. QED
    BY <2>2, <2>3, <2>4
<1>7. ASSUME NEW k \in Key
      PROVE  k \in lo..hi <=> \E x \in M \cup {lo, hi} : Same(k, x, s + 1)
  <2>1. \A x \in M \cup {lo, hi} : Same(k, x, s + 1) <=>
                                   Same(k, x, s) /\ DigitAfter(k, s) = DigitAfter(x, s)
    BY <1>1, <1>5, SameNext
  <2>2. \A x \in M \cup {lo, hi} : Same(k, x, s) <=> Same(k, lo, s)
    BY <1>5 DEF Same
  <2>3. \A x \in M \cup {lo, hi} : DigitAfter(x, s) \in a..b
    BY <1>2, <1>5
  <2>4. \A d \in a..b : \E x \in M \cup {lo, hi} : DigitAfter(x, s) = d
    <3>1. TAKE d \in a..b
    <3>2. CASE d = a
      BY <3>2 DEF a
    <3>3. CASE d = b
      BY <3>3 DEF b
    <3>4. CASE \E x \in M : DigitAfter(x, s) = d
      BY <3>4
    <3>5. QED
      BY <1>3, <3>2, <3>3, <3>4
  <2>5. QED
    BY <1>2, <2>1, <2>2, <2>3, <2>4
<1>8. {Prefix(x, s + 1) : x \in M \cup {lo, hi}} = L \cup {Prefix(lo, s + 1), Prefix(hi, s + 1)}
  <2>1. \A p \in L : \E x \in M : p = Prefix(x, s + 1)
    BY <1>3
  <2>2. \A x \in M : Prefix(x, s + 1) \in L
    BY <1>3
  <2>3. QED
    BY <2>1, <2>2
<1>9. QED
  BY <1>4, <1>5, <1>6, <1>7, <1>8 DEF L

\* The leaves of a run.
Leaves(lo, hi, s) == Inner(lo, hi, s) \cup {Prefix(lo, s + 1), Prefix(hi, s + 1)}

\* What InsertPerfectRange makes of the trie with both bounds.
LEMMA WithRangeNode ==
  ASSUME NEW t, NEW lo, NEW hi, NEW s, Run(lo, hi, s),
         NEW half, half = InsertInto(t, lo), NEW both, both = InsertInto(half, hi),
         NEW q, q = QueryLCP(half, hi), q.lcp = s,
         NEW g, NEW C, both.node = Without(g, C), both = [flat |-> both.flat, node |-> both.node],
         DOMAIN g \cap Inner(lo, hi, s) = {},
         NEW p, p = Prefix(hi, q.ilen), p \in DOMAIN g \ C, p \notin Leaves(lo, hi, s)
  PROVE  WithRange(t, lo, hi)
           = [flat |-> both.flat,
              node |-> Without(Filled(g, lo, hi, s, p), C \cup Leaves(lo, hi, s))]
<1> DEFINE L == Inner(lo, hi, s)
           run == DigitAfter(lo, s)..DigitAfter(hi, s)
           left == DOMAIN both.node \ {Prefix(lo, s + 1), Prefix(hi, s + 1)}
           new == [r \in left |-> IF r = p THEN [both.node[r] EXCEPT !.kids = @ \cup run]
                                  ELSE both.node[r]]
           h == Filled(g, lo, hi, s, p)
           D == C \cup Leaves(lo, hi, s)
<1>1. SplitIndex(lo, hi) = s
  BY DEF Run, SplitIndex
<1>2. WithRange(t, lo, hi) = [both EXCEPT !.node = new]
  BY <1>1, Zenon DEF WithRange
<1>3. [both EXCEPT !.node = new] = [flat |-> both.flat, node |-> new]
  <2> HIDE DEF new
  <2>1. QED
    OBVIOUS
<1>4. /\ DOMAIN both.node = DOMAIN g \ C
      /\ \A r \in DOMAIN g \ C : both.node[r] = g[r]
  BY DEF Without
<1>5. /\ DOMAIN h = DOMAIN g \cup L
      /\ \A r \in DOMAIN g \ L : h[r] = IF r = p THEN [g[r] EXCEPT !.kids = @ \cup run] ELSE g[r]
  BY DEF Filled
<1>6. Without(h, D) = [r \in DOMAIN h \ D |-> h[r]]
  BY DEF Without
<1>7. D = C \cup (L \cup {Prefix(lo, s + 1), Prefix(hi, s + 1)})
  BY DEF Leaves
<1> HIDE DEF h, D, L, run
<1>8. DOMAIN h \ D = left
  BY <1>4, <1>5, <1>7 DEF L
<1>9. \A r \in left : h[r] = new[r]
  <2>1. TAKE r \in left
  <2>2. r \in DOMAIN g \ C /\ r \notin L
    BY <1>4 DEF L
  <2>3. QED
    BY <1>4, <1>5, <2>2
<1>10. new = Without(h, D)
  BY <1>6, <1>8, <1>9
<1>11. QED
  BY <1>2, <1>3, <1>10 DEF h, D

\* The trie u has the keys of t, which are those of S, G and C, and those of lo..hi
\* besides.
RunMakes(t, u, S, G, C, lo, hi, f, T, H, D) ==
  /\ RangeTrie(u, f, T, H, D)
  /\ Keys(T, H, D) = Keys(S, G, C) \cup lo..hi
  /\ t.flat = Flat(S \cup G) /\ ZeroBefore(lo, hi) => u.flat = Flat(T \cup H)

\* A run below the flat levels is put in.
LEMMA WithRangeKeepsRangeTrie ==
  ASSUME NEW t, NEW f, NEW S, NEW G, NEW C, RangeTrie(t, f, S, G, C),
         NEW lo, NEW hi, NEW s, Run(lo, hi, s), s > TopLen,
         \A x \in lo..hi : x \notin Keys(S, G, C)
  PROVE  \E h, T, H, D : RunMakes(t, WithRange(t, lo, hi), S, G, C, lo, hi, h, T, H, D)
<1> PICK half : half = InsertInto(t, lo)
  OBVIOUS
<1> PICK both : both = InsertInto(half, hi)
  OBVIOUS
<1> PICK q : q = QueryLCP(half, hi)
  OBVIOUS
<1>1. PICK g : /\ RangeTrie(both, g, S \cup {lo, hi}, G, C)
               /\ both = [flat |-> both.flat, node |-> both.node]
               /\ q.lcp = s /\ q.ilen \in Level /\ q.ilen <= s
               /\ Prefix(hi, q.ilen) \in DOMAIN g /\ g[Prefix(hi, q.ilen)].dlen = s
               /\ t.flat = Flat(S \cup G) => both.flat = Flat(S \cup {lo, hi} \cup G)
  <2>1. \E g : BoundsMake(t, S, G, C, lo, hi, s, g)
    BY BothInserted
  <2>2. QED
    BY <2>1 DEF BoundsMake
<1> DEFINE S2 == S \cup {lo, hi}
           M == Tops(lo, hi, s)
           L == Leaves(lo, hi, s)
           T == S \cup M
           D == C \cup L
           p == Prefix(hi, q.ilen)
           h == Filled(g, lo, hi, s, p)
           u == WithRange(t, lo, hi)
<1>2. /\ lo \in Key /\ hi \in Key /\ s \in Nat /\ s \in 0..KeyLen /\ s < KeyLen
      /\ s + 1 \in 0..KeyLen /\ s + 1 \in Level /\ s \in Level
      /\ TopLen \in Nat /\ TopLen \in 0..KeyLen /\ TopLen + 1 \in 0..KeyLen /\ TopLen + 1 <= s
      /\ \A n \in 1..(TopLen + 1) : n \in 0..KeyLen /\ n <= s
      /\ \A l \in Level : l \in 0..KeyLen
  <2>1. lo \in Key /\ hi \in Key /\ s \in 0..(KeyLen - 1)
    BY DEF Run
  <2>2. QED
    BY <2>1, LengthFacts DEF Level
<1>3. /\ \A x \in M : x \in Key /\ x \in lo..hi /\ Same(x, lo, s)
      /\ \A x \in M, y \in M : Same(y, x, s + 1) => y = x
      /\ \A k \in Key : k \in lo..hi <=> \E x \in M : Same(k, x, s + 1)
      /\ {Prefix(x, s + 1) : x \in M} = L
      /\ lo \in M /\ hi \in M /\ lo # hi /\ M = InnerKeys(lo, hi, s) \cup {lo, hi}
  <2>1. lo # hi
    BY <1>2, SameFacts DEF Run
  <2>2. QED
    BY <2>1, TopsFacts DEF Leaves, Tops
<1>4. /\ Pruned(both, g, S2, C) /\ Whole(S2, G) /\ both.flat \subseteq Bits
      /\ S2 \subseteq Key /\ G \subseteq Key /\ S \subseteq Key /\ Tree(g, S2)
      /\ both.node = Without(g, C)
      /\ \A r \in C : r \in DOMAIN g /\ r[1] # TopLen + 1 /\ g[r].dlen = KeyLen
      /\ \A x \in S2 : Prefix(x, TopLen) \in both.flat
  BY <1>1 DEF RangeTrie, Pruned, Whole, Without
<1>5. \A w \in S : w \notin lo..hi
  BY DEF Keys
<1>6. /\ Tree(Filled(g, lo, hi, s, Prefix(hi, q.ilen)), S2 \cup InnerKeys(lo, hi, s))
      /\ DOMAIN g \cap Inner(lo, hi, s) = {}
  <2>1. lo \in S2 /\ hi \in S2 /\ \A w \in S2 : w \in lo..hi => w = lo \/ w = hi
    BY <1>5
  <2> HIDE DEF S2
  <2>2. QED
    BY <1>1, <1>4, <2>1, FilledTree
<1>7. /\ Tree(h, T) /\ T \subseteq Key
      /\ S2 \subseteq T /\ T = S2 \cup InnerKeys(lo, hi, s)
  BY <1>3, <1>4, <1>6
<1> HIDE DEF S2, M, L, T, h
<1>8. \A r \in L : r[1] = s + 1 /\ \E x \in M : r = Prefix(x, s + 1)
  <2>1. \A x \in M : Prefix(x, s + 1)[1] = s + 1
    BY <1>2, <1>3, PrefixFacts
  <2>2. QED
    BY <1>3, <2>1
<1>9. p \in DOMAIN g \ C /\ p \notin L
  <2>1. p[1] = q.ilen
    BY <1>1, <1>2, PrefixFacts
  <2>2. q.ilen # s + 1 /\ s # KeyLen
    BY <1>1, <1>2, LengthFacts
  <2>3. QED
    BY <1>1, <1>4, <1>8, <2>1, <2>2
<1>10. u = [flat |-> both.flat, node |-> Without(h, D)]
  <2>1. QED
    BY <1>1, <1>4, <1>6, <1>9, WithRangeNode DEF L, h
<1>11. \A r \in C : r \in DOMAIN h /\ r[1] # TopLen + 1 /\ h[r].dlen = KeyLen
  <2>1. TAKE r \in C
  <2>2. r \in DOMAIN g /\ r # p /\ r \notin Inner(lo, hi, s)
    BY <1>4, <1>6, <1>9
  <2>3. r \in DOMAIN h /\ h[r] = g[r]
    BY <2>2 DEF h, Filled
  <2>4. QED
    BY <1>4, <2>3
<1>12. ASSUME NEW x \in M
       PROVE  Prefix(x, s + 1) \in DOMAIN h /\ h[Prefix(x, s + 1)].dlen = KeyLen
  <2>1. x \in T /\ x \in Key /\ lo \in T /\ hi \in T
    BY <1>3 DEF T
  <2>2. \A w \in T : Same(w, x, s + 1) => w = x
    <3>1. SUFFICES ASSUME NEW w \in T, Same(w, x, s + 1)
                   PROVE  w = x
      OBVIOUS
    <3>2. w \in lo..hi
      BY <1>3, <1>7, <3>1
    <3>3. w \in M
      BY <1>5, <3>2 DEF T
    <3>4. QED
      BY <1>3, <3>1, <3>3
  <2>3. \E w \in T : Same(w, x, s) /\ ~Same(w, x, s + 1)
    <3>1. Same(lo, x, s) /\ Same(hi, x, s)
      BY <1>3 DEF Same
    <3>2. x # lo \/ x # hi
      BY <1>3
    <3>3. QED
      BY <2>1, <2>2, <3>1, <3>2
  <2>4. Branches(T, x, s + 1)
    <3>1. s = (s + 1) - 1
      BY <1>2
    <3>2. \E w \in T : Same(w, x, (s + 1) - 1) /\ ~Same(w, x, s + 1)
      BY <2>3, <3>1, Zenon
    <3>3. QED
      BY <3>2, Zenon DEF Branches
  <2>5. QED
    BY <1>2, <1>7, <2>1, <2>2, <2>4, AloneLeaf
<1>13. \A r \in D : r \in DOMAIN h /\ r[1] # TopLen + 1 /\ h[r].dlen = KeyLen
  <2>1. \A r \in L : r \in DOMAIN h /\ r[1] # TopLen + 1 /\ h[r].dlen = KeyLen
    <3>1. s + 1 # TopLen + 1
      BY <1>2
    <3>2. QED
      BY <1>8, <1>12, <3>1
  <2>2. QED
    BY <1>11, <2>1
<1>14. \A x \in M, n \in 0..KeyLen : n <= s => Prefix(x, n) = Prefix(lo, n)
  <2>1. SUFFICES ASSUME NEW x \in M, NEW n \in 0..KeyLen, n <= s
                 PROVE  Prefix(x, n) = Prefix(lo, n)
    OBVIOUS
  <2>2. x \in Key /\ Same(x, lo, n)
    BY <1>2, <1>3, <2>1, SameShorter
  <2>3. QED
    BY <1>2, <2>2, PrefixFacts
<1>15. \A x \in T : Prefix(x, TopLen) \in both.flat
  <2>1. \A x \in M : Prefix(x, TopLen) = Prefix(lo, TopLen)
    BY <1>2, <1>14
  <2>2. \A x \in S \cup {lo} : Prefix(x, TopLen) \in both.flat
    BY <1>4 DEF S2
  <2>3. QED
    BY <2>1, <2>2 DEF T
<1>16. u.flat = both.flat /\ u.node = [r \in DOMAIN h \ D |-> h[r]]
  BY <1>10 DEF Without
<1> HIDE DEF D, u, p
<1>17. Pruned(u, h, T, D)
  BY <1>7, <1>13, <1>15, <1>16 DEF Pruned
<1>18. Whole(T, G)
  <2>1. \A k \in G, w \in Key : Same(w, k, TopLen + 1) => w \in G /\ w \notin S2
    BY <1>4 DEF Whole
  <2>2. ASSUME NEW k \in G, NEW w \in M, Same(w, k, TopLen + 1)
        PROVE  FALSE
    <3>1. Same(w, lo, TopLen + 1)
      BY <1>2, <1>3, SameShorter
    <3>2. Same(lo, k, TopLen + 1)
      BY <2>2, <3>1 DEF Same
    <3>3. QED
      BY <1>2, <2>1, <3>2 DEF S2
  <2>3. QED
    BY <1>4, <2>1, <2>2 DEF Whole, T, S2
<1>19. Flat(T \cup G) = Flat(S2 \cup G)
  <2>1. \A x \in M, n \in 1..(TopLen + 1) : Prefix(x, n) = Prefix(lo, n)
    BY <1>2, <1>14
  <2>2. \A x \in T \cup G : x \in S2 \cup G \/ x \in M
    BY DEF T, S2
  <2>3. S2 \cup G \subseteq T \cup G /\ lo \in S2 \cup G
    BY <1>7 DEF S2
  <2>4. QED
    BY <2>1, <2>2, <2>3 DEF Flat
<1>20. Keys(T, G, D) = Keys(S, G, C) \cup lo..hi
  <2>1. \A k \in Key, l \in Level : Prefix(k, l) \in L <=> l = s + 1 /\ k \in lo..hi
    <3>1. SUFFICES ASSUME NEW k \in Key, NEW l \in Level
                   PROVE  Prefix(k, l) \in L <=> l = s + 1 /\ k \in lo..hi
      OBVIOUS
    <3>2. ASSUME NEW x \in M
          PROVE  Prefix(k, l) = Prefix(x, s + 1) <=> l = s + 1 /\ Same(k, x, s + 1)
      <4>1. x \in Key /\ l \in 0..KeyLen
        BY <1>2, <1>3
      <4>2. Prefix(k, l) = Prefix(x, s + 1) => l = s + 1
        BY <1>2, <4>1, PrefixFacts
      <4>3. Prefix(k, s + 1) = Prefix(x, s + 1) <=> Same(k, x, s + 1)
        BY <1>2, <4>1, PrefixFacts
      <4>4. QED
        BY <4>2, <4>3
    <3>3. QED
      BY <1>3, <3>2
  <2>2. \A k \in Key : Under(D, k) <=> Under(C, k) \/ k \in lo..hi
    BY <1>2, <2>1 DEF Under, D
  <2>3. \A k \in lo..hi : k \in Key
    BY <1>2, KeyBetween
  <2>4. \A x \in M : x \in lo..hi
    BY <1>3
  <2>5. QED
    BY <2>2, <2>3, <2>4 DEF Keys, T
<1>21. t.flat = Flat(S \cup G) => u.flat = Flat(T \cup G)
  BY <1>1, <1>16, <1>19 DEF S2
<1>22. RangeTrie(u, h, T, G, D)
  BY <1>4, <1>16, <1>17, <1>18 DEF RangeTrie
<1>23. RunMakes(t, u, S, G, C, lo, hi, h, T, G, D)
  BY <1>20, <1>21, <1>22 DEF RunMakes
<1>24. QED
  BY <1>23 DEF u

\* The first digits of a key are the first of its first digits.
LEMMA ValueOfValue ==
  ASSUME NEW k \in Key, NEW n \in 0..KeyLen, NEW m \in 0..KeyLen, m <= n
  PROVE  Value(k, m) = Value(k, n) \div Weight[n - m]
<1>1. /\ KeyLen - n \in 0..KeyLen /\ KeyLen - m \in 0..KeyLen /\ n - m \in 0..KeyLen
      /\ KeyLen - n <= KeyLen - m /\ (KeyLen - m) - (KeyLen - n) = n - m
  BY KeyLenAssumption
<1>2. Weight[KeyLen - m] = Weight[n - m] * Weight[KeyLen - n]
  BY <1>1, WeightDivides
<1>3. Weight[n - m] \in Nat \ {0} /\ Weight[KeyLen - n] \in Nat \ {0} /\ k \in Nat
  BY <1>1, WeightFacts, SameFacts
<1> DEFINE U == Weight[n - m]
           V == Weight[KeyLen - n]
<1> HIDE DEF U, V
<1>4. Weight[KeyLen - m] = V * U
  BY <1>2, <1>3 DEF U, V
<1>5. k \div (V * U) = (k \div V) \div U
  BY <1>3, DivisionTwice DEF U, V
<1>6. QED
  BY <1>4, <1>5 DEF Value, U, V

\* More digits have more values.
LEMMA WeightGrows ==
  ASSUME NEW n \in 0..KeyLen, NEW m \in 0..KeyLen, m <= n
  PROVE  Weight[m] <= Weight[n]
<1>1. Weight[n] = Weight[n - m] * Weight[m] /\ n - m \in 0..KeyLen
  BY WeightDivides
<1>2. Weight[n - m] \in Nat \ {0} /\ Weight[m] \in Nat \ {0}
  BY <1>1, WeightFacts
<1>3. 1 * Weight[m] <= Weight[n - m] * Weight[m]
  BY <1>2, ProductMonotonic
<1>4. QED
  BY <1>1, <1>2, <1>3

\* What TopBits names are bits of the flat bitmaps.
LEMMA TopBitsAreBits ==
  ASSUME NEW lo, NEW hi, NEW s, Run(lo, hi, s)
  PROVE  TopBits(lo, hi) \subseteq Bits
<1>1. /\ lo \in Key /\ hi \in Key /\ s \in Nat /\ s < KeyLen /\ SplitIndex(lo, hi) = s
      /\ s \in 0..KeyLen
  BY KeyLenAssumption DEF Run, SplitIndex
<1>2. SUFFICES ASSUME NEW n \in 1..(TopLen + 1), NEW v \in FlatRun(lo, hi, s, n)
               PROVE  v \in Nat /\ v \in 0..(Weight[n] - 1)
  BY <1>1 DEF TopBits, Bits
<1>3. n \in 1..KeyLen /\ n \in Nat /\ n \in 0..KeyLen /\ KeyLen \in Nat /\ n - 1 \in 0..KeyLen
      /\ n - 1 < KeyLen
  BY LengthFacts
<1>4. Weight[n] \in Nat \ {0} /\ Base \in Nat \ {0} /\ Digit = 0..(Base - 1)
  BY <1>3, WeightFacts, BaseAssumption DEF Digit
<1>5. CASE n <= s
  <2>1. v \in Digit
    BY <1>1, <1>2, <1>3, <1>5, ValueFacts DEF FlatRun
  <2>2. Weight[1] <= Weight[n] /\ Weight[1] = Base
    <3>1. 1 \in 0..KeyLen /\ 0 \in 0..(KeyLen - 1) /\ 0 + 1 = 1
      BY <1>3
    <3>2. Weight[0 + 1] = Base * Weight[0] /\ Weight[0] = 1
      BY <3>1, WeightFacts
    <3>3. QED
      BY <1>3, <1>4, <3>1, <3>2, WeightGrows
  <2>3. QED
    BY <1>4, <2>1, <2>2
<1>6. CASE ~(n <= s)
  <2> DEFINE a == DigitAfter(lo, s)
             b == DigitAfter(hi, s)
             W == Weight[n - s - 1]
  <2>1. v \in (a * W)..((b + 1) * W - 1)
    BY <1>2, <1>6 DEF FlatRun, Width
  <2>2. a \in Digit /\ b \in Digit
    BY <1>1, ValueFacts
  <2>3. /\ n - s - 1 \in 0..(KeyLen - 1) /\ n - s - 1 \in 0..KeyLen /\ n - s \in 0..KeyLen
        /\ (n - s - 1) + 1 = n - s /\ n - s <= n
    BY <1>1, <1>3, <1>6
  <2>4. W \in Nat \ {0} /\ Weight[n - s] = Base * W /\ Weight[n - s] <= Weight[n]
    BY <1>3, <2>3, WeightFacts, WeightGrows
  <2> HIDE DEF a, b, W
  <2>5. a \in Nat /\ b + 1 \in Nat /\ b + 1 <= Base
    BY <1>4, <2>2
  <2>6. (b + 1) * W <= Base * W /\ (b + 1) * W \in Nat /\ Base * W \in Nat /\ a * W \in Nat
    BY <1>4, <2>4, <2>5, ProductMonotonic
  <2>7. v \in Int /\ v >= a * W /\ v < (b + 1) * W
    BY <2>1, <2>6
  <2>8. QED
    BY <1>4, <2>4, <2>6, <2>7
<1>7. QED
  BY <1>5, <1>6

\* Where the digits before the split are zeros, they are those of the keys.
LEMMA LevelBits ==
  ASSUME NEW lo, NEW hi, NEW s, Run(lo, hi, s), s <= TopLen, lo < Weight[KeyLen - s],
         NEW n \in 1..(TopLen + 1), NEW v
  PROVE  v \in FlatRun(lo, hi, s, n) <=> \E x \in lo..hi : v = Value(x, n)
<1> DEFINE a == DigitAfter(lo, s)
           b == DigitAfter(hi, s)
<1>1. /\ lo \in Key /\ hi \in Key /\ lo < hi /\ s \in Nat /\ s < KeyLen /\ s \in 0..KeyLen
      /\ s + 1 \in 0..KeyLen /\ KeyLen - s \in 0..KeyLen
      /\ lo \in Nat /\ hi \in Nat /\ lo \in lo..hi
  <2>1. lo \in Key /\ hi \in Key /\ lo < hi /\ s \in 0..(KeyLen - 1)
    BY DEF Run
  <2>2. lo \in Nat /\ hi \in Nat
    BY <2>1, SameFacts
  <2>3. QED
    BY <2>1, <2>2, KeyLenAssumption
<1>2. /\ n \in 1..KeyLen /\ n \in Nat /\ n \in 0..KeyLen /\ KeyLen \in Nat
      /\ n - 1 \in 0..KeyLen /\ n - 1 < KeyLen /\ (n - 1) + 1 = n
  BY LengthFacts
<1>3. /\ Same(hi, lo, s) /\ a \in Digit /\ b \in Digit
      /\ \A x \in Key : x \in lo..hi <=> Same(x, lo, s) /\ DigitAfter(x, s) \in a..b
  BY RunKeys
<1>4. \A x \in lo..hi : x \in Key
  BY <1>1, KeyBetween
<1>5. Value(lo, s) = 0
  <2>1. Weight[KeyLen - s] \in Nat \ {0}
    BY <1>1, WeightFacts
  <2> DEFINE W == Weight[KeyLen - s]
  <2> HIDE DEF W
  <2>2. (0 * W + lo) \div W = 0
    BY <1>1, <2>1, DivisionUnique DEF W
  <2>3. 0 * W + lo = lo
    BY <1>1, <2>1 DEF W
  <2>4. QED
    BY <2>2, <2>3 DEF Value, W
<1> HIDE DEF a, b
<1>6. Base \in Nat \ {0} /\ Digit = 0..(Base - 1)
  BY BaseAssumption DEF Digit
<1>7. CASE n <= s
  <2>1. \A m \in 0..KeyLen : m <= s => Value(lo, m) = 0
    <3>1. SUFFICES ASSUME NEW m \in 0..KeyLen, m <= s
                   PROVE  Value(lo, m) = 0
      OBVIOUS
    <3>2. s - m \in 0..KeyLen
      BY <1>1, <1>2, <3>1
    <3>3. Weight[s - m] \in Nat \ {0}
      BY <3>2, WeightFacts
    <3>4. Value(lo, m) = 0 \div Weight[s - m]
      BY <1>1, <1>5, <3>1, ValueOfValue
    <3> DEFINE W == Weight[s - m]
    <3> HIDE DEF W
    <3>5. (0 * W + 0) \div W = 0
      BY <3>3, DivisionUnique DEF W
    <3>6. 0 * W + 0 = 0
      BY <3>3 DEF W
    <3>7. QED
      BY <3>4, <3>5, <3>6 DEF W
  <2>2. Value(lo, n) = 0 /\ Value(lo, n - 1) = 0
    BY <1>1, <1>2, <1>7, <2>1
  <2>3. DigitAfter(lo, n - 1) = 0
    <3>1. Value(lo, n) = Value(lo, n - 1) * Base + DigitAfter(lo, n - 1)
      BY <1>1, <1>2, ValueFacts
    <3>2. DigitAfter(lo, n - 1) \in Nat
      <4>1. DigitAfter(lo, n - 1) \in Digit
        BY <1>1, <1>2, ValueFacts
      <4>2. QED
        BY <1>6, <4>1
    <3>3. QED
      BY <1>6, <2>2, <3>1, <3>2
  <2>4. FlatRun(lo, hi, s, n) = {0}
    BY <1>7, <2>3 DEF FlatRun
  <2>5. \A x \in lo..hi : Value(x, n) = 0
    <3>1. TAKE x \in lo..hi
    <3>2. x \in Key /\ Same(x, lo, n)
      BY <1>1, <1>2, <1>3, <1>4, <1>7, SameShorter
    <3>3. QED
      BY <2>2, <3>2 DEF Same
  <2>6. QED
    BY <1>1, <2>4, <2>5
<1>8. CASE ~(n <= s)
  <2> DEFINE W == Weight[n - (s + 1)]
             R == Weight[KeyLen - n]
  <2>1. /\ s + 1 <= n /\ n - (s + 1) \in 0..KeyLen /\ n - (s + 1) = n - s - 1
        /\ KeyLen - n \in 0..KeyLen
    BY <1>1, <1>2, <1>8
  <2>2. W \in Nat \ {0} /\ R \in Nat \ {0}
    BY <2>1, WeightFacts
  <2>3. FlatRun(lo, hi, s, n) = (a * W)..((b + 1) * W - 1)
    BY <1>8, <2>1 DEF FlatRun, Width, a, b
  <2>4. \A x \in Key : /\ Value(x, n) \in Nat /\ Value(x, s + 1) = Value(x, n) \div W
                       /\ Value(x, s + 1) = Value(x, s) * Base + DigitAfter(x, s)
                       /\ Value(x, s) \in Nat /\ DigitAfter(x, s) \in 0..(Base - 1)
    <3>1. TAKE x \in Key
    <3>2. Value(x, s + 1) = Value(x, n) \div W
      BY <1>1, <1>2, <2>1, ValueOfValue
    <3>3. QED
      BY <1>1, <1>2, <1>6, <3>2, ValueFacts
  <2> HIDE DEF W, R
  <2>5. a \in Nat /\ b \in Nat /\ a < Base /\ b < Base
    BY <1>3, <1>6
  <2>6. ASSUME NEW x \in Key
        PROVE  x \in lo..hi <=> Value(x, n) \in (a * W)..((b + 1) * W - 1)
    <3> DEFINE y == Value(x, n)
               d == Value(x, s + 1)
               w == Value(x, s)
               e == DigitAfter(x, s)
    <3>1. /\ y \in Nat /\ d = y \div W /\ d = w * Base + e /\ w \in Nat /\ e \in 0..(Base - 1)
      BY <2>4
    <3>2. x \in lo..hi <=> w = 0 /\ e \in a..b
      BY <1>3, <1>5 DEF Same
    <3> HIDE DEF y, d, w, e
    <3>3. w = 0 /\ e \in a..b <=> d \in a..b
      <4>1. CASE w = 0
        BY <1>6, <3>1, <4>1
      <4>2. CASE w # 0
        <5>1. 1 * Base <= w * Base /\ w * Base \in Nat
          BY <1>6, <3>1, <4>2, ProductMonotonic
        <5>2. d >= Base
          BY <1>6, <3>1, <5>1
        <5>3. QED
          BY <1>6, <2>5, <4>2, <5>2
      <4>3. QED
        BY <4>1, <4>2
    <3>4. y = d * W + (y % W) /\ y % W \in 0..(W - 1) /\ d \in Nat
      BY <2>2, <3>1, Division
    <3>5. d \in a..b <=> y \in (a * W)..((b + 1) * W - 1)
      <4>1. CASE a <= d /\ d <= b
        <5>1. a * W <= d * W /\ (d + 1) * W <= (b + 1) * W
          BY <2>2, <2>5, <3>4, <4>1, ProductMonotonic
        <5>2. (d + 1) * W = d * W + W /\ d * W \in Nat /\ a * W \in Nat /\ (b + 1) * W \in Nat
          BY <2>2, <2>5, <3>4
        <5>3. QED
          BY <2>2, <2>5, <3>1, <3>4, <4>1, <5>1, <5>2
      <4>2. CASE d < a
        <5>1. (d + 1) * W <= a * W
          BY <2>2, <2>5, <3>4, <4>2, ProductMonotonic
        <5>2. (d + 1) * W = d * W + W /\ d * W \in Nat /\ a * W \in Nat
          BY <2>2, <2>5, <3>4
        <5>3. QED
          BY <2>2, <2>5, <3>1, <3>4, <4>2, <5>1, <5>2
      <4>3. CASE b < d
        <5>1. (b + 1) * W <= d * W
          BY <2>2, <2>5, <3>4, <4>3, ProductMonotonic
        <5>2. d * W \in Nat /\ (b + 1) * W \in Nat
          BY <2>2, <2>5, <3>4
        <5>3. QED
          BY <2>2, <2>5, <3>1, <3>4, <4>3, <5>1, <5>2
      <4>4. QED
        BY <2>5, <3>4, <4>1, <4>2, <4>3
    <3>6. QED
      BY <3>2, <3>3, <3>5 DEF y
  <2>7. ASSUME v \in (a * W)..((b + 1) * W - 1)
        PROVE  \E x \in lo..hi : v = Value(x, n)
    <3>1. Weight[n] = Weight[n - (s + 1)] * Weight[s + 1] /\ Weight[s + 1] \in Nat \ {0}
          /\ Base <= Weight[s + 1] /\ Weight[n] \in Nat
      <4>1. 1 \in 0..KeyLen /\ 0 \in 0..(KeyLen - 1) /\ 0 + 1 = 1
        BY <1>2
      <4>2. Weight[0 + 1] = Base * Weight[0] /\ Weight[0] = 1
        BY <4>1, WeightFacts
      <4>3. Weight[1] = Base
        BY <1>6, <4>1, <4>2
      <4>4. QED
        BY <1>1, <1>2, <2>1, <4>1, <4>3, WeightDivides, WeightFacts, WeightGrows
    <3>2. (b + 1) * W <= Weight[s + 1] * W /\ Weight[s + 1] * W = Weight[n]
          /\ (b + 1) * W \in Nat /\ a * W \in Nat
      <4> DEFINE Z == Weight[s + 1]
      <4>1. Z \in Nat /\ Base <= Z /\ Weight[n] = W * Z
        BY <3>1 DEF W
      <4> HIDE DEF Z
      <4>2. b + 1 \in Nat /\ b + 1 <= Z
        BY <1>6, <2>5, <4>1
      <4>3. (b + 1) * W <= Z * W
        BY <2>2, <4>1, <4>2, ProductMonotonic
      <4>4. Z * W = W * Z /\ (b + 1) * W \in Nat /\ a * W \in Nat
        BY <2>2, <2>5, <4>1
      <4>5. QED
        BY <4>1, <4>3, <4>4 DEF Z
    <3>3. v \in 0..(Weight[n] - 1) /\ v \in Nat /\ 0 \in 0..(R - 1)
      BY <2>2, <2>7, <3>1, <3>2
    <3>4. v * R + 0 \in Key /\ Value(v * R + 0, n) = v
      BY <1>2, <3>3, KeyOf DEF R
    <3>5. v * R + 0 \in lo..hi
      BY <2>6, <2>7, <3>4
    <3>6. QED
      BY <3>4, <3>5
  <2>8. QED
    BY <1>4, <2>3, <2>6, <2>7
<1>9. QED
  BY <1>7, <1>8

\* A run in the flat levels is put in.
LEMMA TopBitsKeepRangeTrie ==
  ASSUME NEW t, NEW f, NEW S, NEW G, NEW C, RangeTrie(t, f, S, G, C),
         NEW lo, NEW hi, NEW s, Run(lo, hi, s), s <= TopLen,
         \A x \in lo..hi : x \notin Keys(S, G, C),
         NEW u, u.node = t.node, u.flat = t.flat \cup TopBits(lo, hi)
  PROVE  RunMakes(t, u, S, G, C, lo, hi, f, S, G \cup lo..hi, C)
<1> DEFINE H == G \cup lo..hi
<1>1. /\ lo \in Key /\ hi \in Key /\ s \in Nat /\ s < KeyLen /\ SplitIndex(lo, hi) = s
      /\ s \in 0..KeyLen /\ s + 1 \in 0..KeyLen /\ TopLen + 1 \in 0..KeyLen
      /\ s + 1 <= TopLen + 1
      /\ \A n \in 1..(TopLen + 1) : n \in 0..KeyLen
  <2>1. lo \in Key /\ hi \in Key /\ s \in 0..(KeyLen - 1) /\ SplitIndex(lo, hi) = s
    BY DEF Run, SplitIndex
  <2>2. QED
    BY <2>1, LengthFacts
<1>2. /\ Pruned(t, f, S, C) /\ Whole(S, G) /\ t.flat \subseteq Bits
      /\ S \subseteq Key /\ G \subseteq Key
  BY DEF RangeTrie, Pruned, Whole
<1>3. /\ \A x \in lo..hi : x \in Key
      /\ \A x \in Key : x \in lo..hi <=>
                        Same(x, lo, s) /\ DigitAfter(x, s) \in DigitAfter(lo, s)..DigitAfter(hi, s)
  BY <1>1, KeyBetween, RunKeys
<1>4. Whole(S, H)
  <2>1. ASSUME NEW k \in lo..hi, NEW w \in Key, Same(w, k, TopLen + 1)
        PROVE  w \in lo..hi
    <3>1. k \in Key /\ Same(w, k, s + 1)
      BY <1>1, <1>3, <2>1, SameShorter
    <3>2. Same(w, k, s) /\ DigitAfter(w, s) = DigitAfter(k, s)
      BY <1>1, <3>1, SameNext
    <3>3. Same(k, lo, s)
      BY <1>3, <2>1, <3>1
    <3>4. Same(w, lo, s)
      BY <3>2, <3>3 DEF Same
    <3>5. QED
      BY <1>3, <2>1, <3>1, <3>2, <3>4
  <2>2. \A w \in lo..hi : w \notin S
    BY DEF Keys
  <2>3. QED
    BY <1>2, <1>3, <2>1, <2>2 DEF Whole
<1>5. u.flat \subseteq Bits
  BY <1>2, TopBitsAreBits
<1>6. Pruned(u, f, S, C)
  BY <1>2 DEF Pruned
<1>7. Keys(S, H, C) = Keys(S, G, C) \cup lo..hi
  BY DEF Keys
<1>8. ASSUME t.flat = Flat(S \cup G), ZeroBefore(lo, hi)
      PROVE  u.flat = Flat(S \cup H)
  <2>1. lo < Weight[KeyLen - s]
    BY <1>1, <1>8 DEF ZeroBefore
  <2>2. Flat(lo..hi) = TopBits(lo, hi)
    <3>1. Flat(lo..hi) = UNION {{<<n, v>> : v \in {Value(x, n) : x \in lo..hi}} : n \in 1..(TopLen + 1)}
      <4>1. \A x \in lo..hi, n \in 1..(TopLen + 1) : Prefix(x, n) = <<n, Value(x, n)>>
        BY <1>1, <1>3, PrefixFacts
      <4>2. QED
        BY <4>1 DEF Flat
    <3>2. \A n \in 1..(TopLen + 1) : {Value(x, n) : x \in lo..hi} = FlatRun(lo, hi, s, n)
      <4>1. TAKE n \in 1..(TopLen + 1)
      <4>2. \A v : v \in FlatRun(lo, hi, s, n) <=> \E x \in lo..hi : v = Value(x, n)
        BY <2>1, LevelBits
      <4>3. QED
        BY <4>2
    <3>3. QED
      BY <1>1, <3>1, <3>2 DEF TopBits
  <2>3. Flat(S \cup H) = Flat(S \cup G) \cup Flat(lo..hi)
    BY DEF Flat
  <2>4. QED
    BY <1>8, <2>2, <2>3
<1>9. QED
  BY <1>4, <1>5, <1>6, <1>7, <1>8 DEF RunMakes, RangeTrie

\* Either way InsertPerfectRange adds the keys of the run.
LEMMA InsertPerfectKeepsRangeTrie ==
  ASSUME NEW t, NEW f, NEW S, NEW G, NEW C, RangeTrie(t, f, S, G, C),
         t = [flat |-> t.flat, node |-> t.node],
         NEW lo, NEW hi, Run(lo, hi, SplitIndex(lo, hi)),
         \A x \in lo..hi : x \notin Keys(S, G, C)
  PROVE  \E h, T, H, D : RunMakes(t, InsertPerfect(t, lo, hi), S, G, C, lo, hi, h, T, H, D)
<1> DEFINE s == SplitIndex(lo, hi)
           u == InsertPerfect(t, lo, hi)
<1>1. s \in Nat /\ TopLen \in Nat /\ Run(lo, hi, s)
  BY LengthFacts DEF Run
<1>2. CASE s <= TopLen
  <2>1. u = [t EXCEPT !.flat = @ \cup TopBits(lo, hi)]
    BY <1>2 DEF InsertPerfect
  <2>2. u.node = t.node /\ u.flat = t.flat \cup TopBits(lo, hi)
    BY <2>1
  <2> HIDE DEF s, u
  <2>3. RunMakes(t, u, S, G, C, lo, hi, f, S, G \cup lo..hi, C)
    BY <1>1, <1>2, <2>2, TopBitsKeepRangeTrie
  <2>4. QED
    BY <2>3 DEF u
<1>3. CASE s > TopLen
  <2>1. u = WithRange(t, lo, hi)
    BY <1>1, <1>3 DEF InsertPerfect
  <2> HIDE DEF s, u
  <2>2. \E h, T, H, D : RunMakes(t, WithRange(t, lo, hi), S, G, C, lo, hi, h, T, H, D)
    BY <1>1, <1>3, WithRangeKeepsRangeTrie
  <2>3. QED
    BY <2>1, <2>2 DEF u
<1>4. QED
  BY <1>1, <1>2, <1>3

-----------------------------------------------------------------------------
(* The sets of keys that the trie stands for. *)

\* t has the keys A, and z tells that its bits are exactly those of them.
Stands(t, A, z) ==
  \E f, S, G, C : /\ RangeTrie(t, f, S, G, C) /\ Keys(S, G, C) = A
                  /\ z => t.flat = Flat(S \cup G)

\* The empty trie has no keys.
LEMMA EmptyStands ==
  ASSUME NEW t, t.flat = {}, t.node = <<>>, NEW z
  PROVE  Stands(t, {}, z)
<1>1. DOMAIN <<>> = {}
  OBVIOUS
<1>2. <<>> = [p \in {} |-> <<>>[p]]
  OBVIOUS
<1> DEFINE f == t.node
<1>3. DOMAIN f = {} /\ f = [p \in {} |-> f[p]]
  BY <1>1, <1>2
<1>4. DOMAIN f \ {} = {}
  BY <1>3
<1>5. Tree(f, {})
  <2>1. Nodes({}) = {}
    BY DEF Nodes
  <2>2. QED
    BY <1>3, <2>1 DEF Tree
<1>6. t.node = [p \in DOMAIN f \ {} |-> f[p]]
  BY <1>3, <1>4
<1> HIDE DEF f
<1>7. Pruned(t, f, {}, {})
  BY <1>5, <1>6 DEF Pruned
<1>8. RangeTrie(t, f, {}, {}, {})
  BY <1>7 DEF RangeTrie, Whole
<1>9. Keys({}, {}, {}) = {}
  BY DEF Keys, Under
<1>10. Flat({} \cup {}) = {}
  BY DEF Flat
<1>11. RangeTrie(t, f, {}, {}, {}) /\ Keys({}, {}, {}) = {} /\ (z => t.flat = Flat({} \cup {}))
  BY <1>8, <1>9, <1>10
<1>12. QED
  BY <1>11 DEF Stands

\* Insert adds its key.
LEMMA InsertStands ==
  ASSUME NEW t, NEW A, NEW z \in BOOLEAN, Stands(t, A, z), NEW k \in Key, k \notin A
  PROVE  Stands(InsertInto(t, k), A \cup {k}, z)
<1>1. PICK f, S, G, C : /\ RangeTrie(t, f, S, G, C) /\ Keys(S, G, C) = A
                        /\ z => t.flat = Flat(S \cup G)
  BY DEF Stands
<1>2. k \notin Keys(S, G, C)
  BY <1>1
<1>3. PICK g : InsertMakes(t, f, S, G, C, k, g)
  BY <1>1, <1>2, InsertKeepsRangeTrie
<1>4. Keys(S \cup {k}, G, C) = A \cup {k}
  BY <1>1 DEF Keys
<1> DEFINE u == InsertInto(t, k)
           T == S \cup {k}
<1>5. RangeTrie(u, g, T, G, C) /\ (z => u.flat = Flat(T \cup G))
  BY <1>1, <1>3 DEF InsertMakes
<1> HIDE DEF u, T
<1>6. RangeTrie(u, g, T, G, C) /\ Keys(T, G, C) = A \cup {k} /\ (z => u.flat = Flat(T \cup G))
  BY <1>4, <1>5 DEF T
<1>7. Stands(u, A \cup {k}, z)
  BY <1>6 DEF Stands
<1>8. QED
  BY <1>7 DEF u

\* InsertPerfectRange adds its keys.
LEMMA InsertPerfectStands ==
  ASSUME NEW t, NEW A, NEW z \in BOOLEAN, Stands(t, A, z), t = [flat |-> t.flat, node |-> t.node],
         NEW lo, NEW hi, Run(lo, hi, SplitIndex(lo, hi)), \A x \in lo..hi : x \notin A,
         z => ZeroBefore(lo, hi)
  PROVE  Stands(InsertPerfect(t, lo, hi), A \cup lo..hi, z)
<1>1. PICK f, S, G, C : /\ RangeTrie(t, f, S, G, C) /\ Keys(S, G, C) = A
                        /\ z => t.flat = Flat(S \cup G)
  BY DEF Stands
<1>2. \A x \in lo..hi : x \notin Keys(S, G, C)
  BY <1>1
<1>3. PICK h, T, H, D : RunMakes(t, InsertPerfect(t, lo, hi), S, G, C, lo, hi, h, T, H, D)
  BY <1>1, <1>2, InsertPerfectKeepsRangeTrie
<1> DEFINE u == InsertPerfect(t, lo, hi)
<1>4. RangeTrie(u, h, T, H, D) /\ Keys(T, H, D) = A \cup lo..hi /\ (z => u.flat = Flat(T \cup H))
  BY <1>1, <1>3 DEF RunMakes
<1> HIDE DEF u
<1>5. Stands(u, A \cup lo..hi, z)
  BY <1>4 DEF Stands
<1>6. QED
  BY <1>5 DEF u

-----------------------------------------------------------------------------
(* The cutting implements RangeDecomposition. *)

\* The two instances of it are the same.
LEMMA SameCutting ==
  /\ RD!Split <=> Cut!Split
  /\ RD!End <=> Cut!End
  /\ \A l, h : RD!Begin(l, h) <=> Cut!Begin(l, h)
<1>1. RD!Split <=> Cut!Split
  BY Zenon DEF RD!Split, Cut!Split, RD!SplitIndex, Cut!SplitIndex, RD!PerfectLower,
               Cut!PerfectLower, RD!PerfectUpper, Cut!PerfectUpper, RD!Leftover, Cut!Leftover,
               RD!Byte, Cut!Byte, RD!Unit, Cut!Unit, RD!Wrap, Cut!Wrap, RD!KeyCount,
               Cut!KeyCount, RD!Weight, Cut!Weight, RD!Power, Cut!Power
<1>2. RD!End <=> Cut!End
  BY DEF RD!End, Cut!End
<1>3. \A l, h : RD!Begin(l, h) <=> Cut!Begin(l, h)
  BY DEF RD!Begin, Cut!Begin
<1>4. QED
  BY <1>1, <1>2, <1>3

\* A step of the index is a step of the cutting or leaves it as it is.
LEMMA CutStep ==
  ASSUME [Next]_vars
  PROVE  [Cut!Next]_Cut!vars
<1>1. CASE \E r \in Ranges : InsertRange(r)
  <2>1. PICK r \in Ranges : InsertRange(r)
    BY <1>1
  <2>2. r[1] \in Key /\ r[2] \in Key
    BY RangesAssumption
  <2>3. CASE InsertKey(r[1])
    BY <2>3 DEF InsertKey, cutting, Cut!vars
  <2>4. CASE BeginRange(r[1], r[2])
    <3>1. Cut!Begin(r[1], r[2])
      BY <2>4, SameCutting DEF BeginRange
    <3>2. r[1] \in Cut!Key /\ r[2] \in Cut!Key
      BY <2>2, SameWeights
    <3>3. QED
      BY <3>1, <3>2 DEF Cut!Next
  <2>5. QED
    BY <2>1, <2>3, <2>4 DEF InsertRange
<1>2. CASE HandleRange
  BY <1>2, SameCutting DEF HandleRange, Cut!Next
<1>3. CASE InsertPerfectRange
  BY <1>3 DEF InsertPerfectRange, cutting, Cut!vars
<1>4. CASE UNCHANGED vars
  BY <1>4 DEF vars, cutting, Cut!vars
<1>5. QED
  BY <1>1, <1>2, <1>3, <1>4 DEF Next

\* The index cuts its ranges as RangeDecomposition does, whatever else it does.
THEOREM CutsAsSpecified == Spec => Cut!Spec
<1>1. Init => Cut!Init
  BY DEF Init, RD!Init, Cut!Init
<1>2. [Next]_vars => [Cut!Next]_Cut!vars
  BY CutStep
<1>3. QED
  BY <1>1, <1>2, PTL DEF Spec, Cut!Spec

-----------------------------------------------------------------------------
(* The inductive invariant. *)

\* The trie has exactly the keys that have been put in, and what is still to come
\* is part of what was given.
Inv(z) ==
  /\ Cut!IInv
  /\ next \in 1..(Len(out) + 1)
  /\ phase = "split" => next = 1
  /\ ~Idle => low < high /\ low..high \subseteq given
  /\ given \subseteq Key
  /\ Stands(trie, There, z)

\* The trie is a record of its two parts.
LEMMA TrieRecord == trie = [flat |-> trie.flat, node |-> trie.node]
BY DEF trie

\* A trie that is set is the next one.
LEMMA NextTrie ==
  ASSUME NEW t, SetTrie(t), t = [flat |-> t.flat, node |-> t.node]
  PROVE  trie' = t
BY DEF SetTrie, trie

\* What has been cut are runs within the range, none with a key of another, and in
\* the end every key of the range is in one of them.
CutDone ==
  /\ phase \in {"idle", "split"} /\ Len(out) \in Nat /\ low \in Nat /\ high \in Nat
  /\ \A i \in 1..Len(out) :
       /\ Run(out[i].lo, out[i].hi, SplitIndex(out[i].lo, out[i].hi))
       /\ out[i].lo \in Nat /\ out[i].hi \in Nat
  /\ low < high =>
       /\ \A i \in 1..Len(out), x \in Nat : x \in out[i].lo..out[i].hi => x \in low..high
       /\ \A i \in 1..Len(out), j \in 1..Len(out), x \in Nat :
            i # j /\ x \in out[i].lo..out[i].hi => x \notin out[j].lo..out[j].hi
  /\ low < high /\ job = <<>> =>
       \A x \in low..high : \E i \in 1..Len(out) : x \in out[i].lo..out[i].hi

\* RangeDecomposition's invariant says so.
LEMMA CutFacts == Cut!IInv => CutDone
<1> SUFFICES ASSUME Cut!IInv
             PROVE  CutDone
  OBVIOUS
<1>1. /\ phase \in {"idle", "split"} /\ low \in Key /\ high \in Key /\ out \in Seq(Cut!OutRange)
      /\ \A i \in 1..Len(out) : Cut!Perfect(out[i])
      /\ Cut!Called => Cut!Covered /\ Cut!Inside /\ Cut!Disjoint
  BY SameWeights DEF Cut!IInv, Cut!TypeOK
<1>2. low \in Nat /\ high \in Nat /\ Len(out) \in Nat
  BY <1>1, SameFacts, LenProperties
<1>3. ASSUME NEW i \in 1..Len(out)
      PROVE  /\ Run(out[i].lo, out[i].hi, SplitIndex(out[i].lo, out[i].hi))
             /\ out[i].lo \in Nat /\ out[i].hi \in Nat
  <2>1. out[i] \in Cut!OutRange
    BY <1>1, <1>3, ElementOfSeq
  <2>2. Run(out[i].lo, out[i].hi, SplitIndex(out[i].lo, out[i].hi))
    BY <1>1, <2>1, PerfectRun
  <2>3. out[i].lo \in Key /\ out[i].hi \in Key
    BY <2>2 DEF Run
  <2>4. QED
    BY <2>2, <2>3, SameFacts
<1>4. ASSUME low < high
      PROVE  Cut!Covered /\ Cut!Inside /\ Cut!Disjoint
  BY <1>1, <1>2, <1>4 DEF Cut!Called
<1>5. ASSUME low < high, NEW i \in 1..Len(out), NEW x \in Nat, x \in out[i].lo..out[i].hi
      PROVE  x \in low..high
  <2>1. low <= out[i].lo /\ out[i].hi <= high
    BY <1>4, <1>5 DEF Cut!Inside
  <2>2. QED
    BY <1>2, <1>3, <1>5, <2>1
<1>6. ASSUME low < high, NEW i \in 1..Len(out), NEW j \in 1..Len(out), NEW x \in Nat,
             i # j, x \in out[i].lo..out[i].hi
      PROVE  x \notin out[j].lo..out[j].hi
  <2>1. out[i].hi < out[j].lo \/ out[j].hi < out[i].lo
    BY <1>4, <1>6 DEF Cut!Disjoint, Cut!Apart
  <2>2. QED
    BY <1>3, <1>6, <2>1
<1>7. ASSUME low < high, job = <<>>, NEW x \in low..high
      PROVE  \E i \in 1..Len(out) : x \in out[i].lo..out[i].hi
  <2>1. Len(job) = 0
    BY <1>7
  <2>2. PICK i \in 1..Len(out) : out[i].lo <= x /\ x <= out[i].hi
    BY <1>4, <1>7, <2>1 DEF Cut!Covered, Cut!In
  <2>3. x \in out[i].lo..out[i].hi
    BY <1>2, <1>3, <1>7, <2>2
  <2>4. QED
    BY <2>3
<1>8. QED
  BY <1>1, <1>2, <1>3, <1>5, <1>6, <1>7 DEF CutDone

\* Once the cutting is done, the keys still to come are those of the ranges that
\* are.
LEMMA PendingFacts ==
  phase = "idle" /\ Len(out) \in Nat /\ next \in 1..(Len(out) + 1)
    => Pending = UNION {out[i].lo..out[i].hi : i \in next..Len(out)}
<1> SUFFICES ASSUME phase = "idle", Len(out) \in Nat, next \in 1..(Len(out) + 1)
             PROVE  Pending = UNION {out[i].lo..out[i].hi : i \in next..Len(out)}
  OBVIOUS
<1>1. CASE Idle
  <2>1. next..Len(out) = {}
    BY <1>1 DEF Idle
  <2>2. QED
    BY <1>1, <2>1 DEF Pending
<1>2. CASE ~Idle
  BY <1>2 DEF Pending
<1>3. QED
  BY <1>1, <1>2

\* The first states.
LEMMA InitInv ==
  ASSUME Init, NEW z
  PROVE  Inv(z)
<1>1. /\ phase = "idle" /\ out = <<>> /\ next = 1 /\ given = {} /\ flat = {} /\ node = <<>>
      /\ Cut!Init
  BY DEF Init, RD!Init, Cut!Init
<1>2. Cut!IInv
  BY <1>1, Cut!InitInvariant, BaseAssumption, KeyLenAssumption
<1>3. Idle /\ Len(out) = 0
  BY <1>1 DEF Idle
<1>4. There = {}
  BY <1>1 DEF There
<1>5. Stands(trie, {}, z)
  <2>1. trie.flat = {} /\ trie.node = <<>>
    BY <1>1 DEF trie
  <2>2. QED
    BY <2>1, EmptyStands
<1>6. QED
  BY <1>1, <1>2, <1>3, <1>4, <1>5 DEF Inv

\* A step of the cutting.
LEMMA CutKeeps ==
  ASSUME Cut!IInv, [Next]_vars
  PROVE  Cut!IInv'
<1>1. [Cut!Next]_Cut!vars
  BY CutStep
<1>2. CASE \E l, h \in Cut!Key : Cut!Begin(l, h)
  <2>1. PICK l \in Cut!Key, h \in Cut!Key : Cut!Begin(l, h)
    BY <1>2
  <2>2. QED
    BY <2>1, Cut!BeginKeepsInvariant, BaseAssumption, KeyLenAssumption
<1>3. CASE Cut!Split
  BY <1>3, Cut!SplitKeepsInvariant, BaseAssumption, KeyLenAssumption
<1>4. CASE Cut!End
  BY <1>4, Cut!EndKeepsInvariant, BaseAssumption, KeyLenAssumption
<1>5. CASE UNCHANGED Cut!vars
  BY <1>5 DEF Cut!vars, Cut!IInv, Cut!TypeOK, Cut!Called, Cut!Covered, Cut!Inside, Cut!Disjoint,
              Cut!Whole, Cut!Flagged
<1>6. QED
  BY <1>1, <1>2, <1>3, <1>4, <1>5 DEF Cut!Next

\* Insert gives a record again, and so does InsertPerfectRange.
LEMMA InsertRecord ==
  ASSUME NEW t, t = [flat |-> t.flat, node |-> t.node], NEW k
  PROVE  InsertInto(t, k) = [flat |-> InsertInto(t, k).flat, node |-> InsertInto(t, k).node]
<1> DEFINE u == InsertInto(t, k)
<1>1. u = t \/ \E F, N : u = [flat |-> F, node |-> N]
  BY DEF InsertInto
<1> HIDE DEF u
<1>2. u = [flat |-> u.flat, node |-> u.node]
  BY <1>1
<1>3. QED
  BY <1>2 DEF u

\* So it is with a run below the flat levels.
LEMMA WithRangeRecord ==
  ASSUME NEW t, t = [flat |-> t.flat, node |-> t.node], NEW lo, NEW hi
  PROVE  WithRange(t, lo, hi) = [flat |-> WithRange(t, lo, hi).flat,
                                 node |-> WithRange(t, lo, hi).node]
<1> DEFINE u == WithRange(t, lo, hi)
           both == InsertInto(InsertInto(t, lo), hi)
<1>1. both = [flat |-> both.flat, node |-> both.node]
  BY InsertRecord
<1>2. \E N : u = [both EXCEPT !.node = N]
  BY DEF WithRange
<1> HIDE DEF u, both
<1>3. u = [flat |-> u.flat, node |-> u.node]
  BY <1>1, <1>2
<1>4. QED
  BY <1>3 DEF u

\* InsertRange of a single key.
LEMMA InsertKeyKeeps ==
  ASSUME NEW z \in BOOLEAN, Inv(z), Cut!IInv', NEW k \in Key, k \notin given, InsertKey(k)
  PROVE  Inv(z)' /\ There \subseteq There'
<1>1. /\ Idle /\ SetTrie(InsertInto(trie, k)) /\ given' = given \cup {k}
      /\ UNCHANGED <<phase, low, high, job, out, rootExists>> /\ UNCHANGED next
  BY DEF InsertKey, cutting
<1>2. There = given /\ Idle' /\ There' = given \cup {k}
  BY <1>1 DEF There, Pending, Idle
<1>3. Stands(trie, given, z)
  BY <1>2 DEF Inv
<1>4. Stands(InsertInto(trie, k), given \cup {k}, z)
  BY <1>3, InsertStands
<1>5. trie' = InsertInto(trie, k)
  <2>1. InsertInto(trie, k) = [flat |-> InsertInto(trie, k).flat, node |-> InsertInto(trie, k).node]
    BY TrieRecord, InsertRecord
  <2> DEFINE t == InsertInto(trie, k)
  <2>2. SetTrie(t) /\ t = [flat |-> t.flat, node |-> t.node]
    BY <1>1, <2>1
  <2> HIDE DEF t
  <2>3. trie' = t
    BY <2>2, NextTrie
  <2>4. QED
    BY <2>3 DEF t
<1>6. Stands(trie', There', z)
  BY <1>2, <1>4, <1>5
<1>7. /\ next \in 1..(Len(out) + 1) /\ (phase = "split" => next = 1) /\ given \subseteq Key
  BY DEF Inv
<1>8. QED
  BY <1>1, <1>2, <1>6, <1>7 DEF Inv

\* InsertRange of a range begins: all its keys are still to come.
LEMMA BeginRangeKeeps ==
  ASSUME NEW z \in BOOLEAN, Inv(z), Cut!IInv', NEW l \in Key, NEW h \in Key,
         l..h \cap given = {}, BeginRange(l, h)
  PROVE  Inv(z)' /\ There \subseteq There'
<1>1. /\ Idle /\ l < h /\ phase' = "split" /\ low' = l /\ high' = h /\ out' = <<>>
      /\ next' = 1 /\ given' = given \cup l..h /\ flat' = flat /\ node' = node
  BY DEF BeginRange, RD!Begin
<1>2. There = given
  BY <1>1 DEF There, Pending
<1>3. ~Idle' /\ Pending' = l..h
  <2>1. ~Idle'
    BY <1>1 DEF Idle
  <2>2. QED
    BY <1>1, <2>1 DEF Pending
<1>4. There' = given
  BY <1>1, <1>3 DEF There
<1>5. trie' = trie
  BY <1>1 DEF trie
<1>6. Stands(trie', There', z)
  BY <1>2, <1>4, <1>5 DEF Inv
<1>7. \A x \in l..h : x \in Key
  BY KeyBetween
<1>8. given' \subseteq Key
  BY <1>1, <1>7 DEF Inv
<1>9. next' \in 1..(Len(out') + 1)
  BY <1>1
<1>10. QED
  BY <1>1, <1>2, <1>4, <1>6, <1>8, <1>9 DEF Inv

\* handle_range: the keys still to come are the same, cut or not.
LEMMA HandleRangeKeeps ==
  ASSUME NEW z \in BOOLEAN, Inv(z), Cut!IInv', HandleRange
  PROVE  Inv(z)' /\ There \subseteq There'
<1>1. /\ phase = "split" /\ low' = low /\ high' = high /\ UNCHANGED <<flat, node, next, given>>
      /\ phase' = "split" \/ (phase' = "idle" /\ job' = <<>>)
  <2>1. (RD!Split \/ RD!End) /\ UNCHANGED <<flat, node, next, given>>
    BY DEF HandleRange
  <2>2. CASE RD!Split
    <3>1. phase = "split" /\ UNCHANGED <<phase, low, high>>
      BY <2>2, Zenon DEF RD!Split
    <3>2. QED
      BY <2>1, <3>1
  <2>3. CASE RD!End
    BY <2>1, <2>3 DEF RD!End
  <2>4. QED
    BY <2>1, <2>2, <2>3
<1>2. ~Idle /\ next = 1 /\ low < high /\ low..high \subseteq given /\ given \subseteq Key
  BY <1>1 DEF Inv, Idle
<1>3. Pending = low..high
  BY <1>1, <1>2 DEF Pending
<1>4. Len(out') \in Nat /\ next' \in 1..(Len(out') + 1)
  <2>1. (Cut!IInv => CutDone)'
    BY CutFacts, PTL
  <2>2. QED
    BY <1>1, <1>2, <2>1 DEF CutDone
<1>5. Pending' = low..high
  <2>1. CASE phase' = "split"
    <3>1. ~Idle'
      BY <2>1 DEF Idle
    <3>2. QED
      BY <1>1, <2>1, <3>1 DEF Pending
  <2>2. CASE phase' = "idle"
    <3>1. job' = <<>>
      BY <1>1, <2>2
    <3>2. Pending' = UNION {out'[i].lo..out'[i].hi : i \in next'..Len(out')}
      <4>1. (phase = "idle" /\ Len(out) \in Nat /\ next \in 1..(Len(out) + 1)
               => Pending = UNION {out[i].lo..out[i].hi : i \in next..Len(out)})'
        BY PendingFacts, PTL
      <4>2. QED
        BY <1>4, <2>2, <4>1
    <3>3. /\ Len(out') \in Nat /\ low' \in Nat /\ high' \in Nat
          /\ \A i \in 1..Len(out') : out'[i].lo \in Nat /\ out'[i].hi \in Nat
          /\ low' < high' =>
               \A i \in 1..Len(out'), x \in Nat :
                  x \in out'[i].lo..out'[i].hi => x \in low'..high'
          /\ low' < high' /\ job' = <<>> =>
               \A x \in low'..high' : \E i \in 1..Len(out') : x \in out'[i].lo..out'[i].hi
      <4>1. (Cut!IInv => CutDone)'
        BY CutFacts, PTL
      <4>2. QED
        BY <4>1 DEF CutDone
    <3>4. \A i \in 1..Len(out') : \A x \in out'[i].lo..out'[i].hi : x \in low..high
      BY <1>1, <1>2, <3>3
    <3>5. \A x \in low..high : \E i \in 1..Len(out') : x \in out'[i].lo..out'[i].hi
      BY <1>1, <1>2, <3>1, <3>3
    <3>6. next' = 1
      BY <1>1, <1>2
    <3>7. QED
      BY <3>2, <3>4, <3>5, <3>6
  <2>3. QED
    BY <1>1, <2>1, <2>2
<1>6. There' = There
  BY <1>1, <1>3, <1>5 DEF There
<1>7. trie' = trie
  BY <1>1 DEF trie
<1>8. Stands(trie', There', z)
  BY <1>6, <1>7 DEF Inv
<1>9. QED
  BY <1>1, <1>2, <1>4, <1>6, <1>8 DEF Inv

\* The next perfect range is put in.
LEMMA InsertPerfectKeeps ==
  ASSUME NEW z \in BOOLEAN, Inv(z), Cut!IInv', InsertPerfectRange, z => ZeroDigitsBefore
  PROVE  Inv(z)' /\ There \subseteq There'
<1> DEFINE lo == out[next].lo
           hi == out[next].hi
           t == InsertPerfect(trie, lo, hi)
<1>1. /\ phase = "idle" /\ next <= Len(out) /\ SetTrie(t) /\ next' = next + 1 /\ given' = given
      /\ UNCHANGED <<phase, low, high, job, out, rootExists>>
  BY DEF InsertPerfectRange, cutting
<1>2. ~Idle /\ low < high /\ low..high \subseteq given /\ given \subseteq Key
      /\ Len(out) \in Nat /\ next \in 1..Len(out) /\ next \in Nat /\ low \in Nat /\ high \in Nat
  <2>1. Len(out) \in Nat /\ low \in Nat /\ high \in Nat
    BY CutFacts DEF Inv, CutDone
  <2>2. ~Idle
    BY <1>1, <2>1 DEF Inv, Idle
  <2>3. QED
    BY <1>1, <2>1, <2>2 DEF Inv
<1>3. /\ Run(lo, hi, SplitIndex(lo, hi)) /\ lo \in Nat /\ hi \in Nat
      /\ \A x \in lo..hi : x \in low..high
      /\ \A j \in 1..Len(out), x \in Nat :
            next # j /\ x \in lo..hi => x \notin out[j].lo..out[j].hi
  BY <1>2, CutFacts DEF Inv, CutDone
<1> DEFINE P == UNION {out[i].lo..out[i].hi : i \in (next + 1)..Len(out)}
<1>4. Pending = lo..hi \cup P
  <2>1. Pending = UNION {out[i].lo..out[i].hi : i \in next..Len(out)}
    BY <1>1, <1>2, PendingFacts DEF Inv
  <2>2. next..Len(out) = {next} \cup (next + 1)..Len(out)
    BY <1>2
  <2>3. QED
    BY <2>1, <2>2
<1>5. Pending' = P
  <2>1. (phase = "idle" /\ Len(out) \in Nat /\ next \in 1..(Len(out) + 1)
           => Pending = UNION {out[i].lo..out[i].hi : i \in next..Len(out)})'
    BY PendingFacts, PTL
  <2>2. QED
    BY <1>1, <1>2, <2>1
<1>6. \A x \in lo..hi : x \notin P
  <2>1. \A x \in lo..hi : x \in Nat
    BY <1>3
  <2>2. (next + 1)..Len(out) \subseteq 1..Len(out) /\ \A j \in (next + 1)..Len(out) : next # j
    BY <1>2
  <2>3. QED
    BY <1>3, <2>1, <2>2
<1> HIDE DEF P, lo, hi, t
<1>7. \A x \in lo..hi : x \notin There /\ x \in given
  BY <1>2, <1>3, <1>4 DEF There
<1>8. There' = There \cup lo..hi
  BY <1>1, <1>4, <1>5, <1>6, <1>7 DEF There
<1>9. z => ZeroBefore(lo, hi)
  BY <1>2 DEF ZeroDigitsBefore, lo, hi
<1>10. Stands(t, There \cup lo..hi, z)
  <2>1. Stands(trie, There, z)
    BY DEF Inv
  <2>2. QED
    BY <1>3, <1>7, <1>9, <2>1, TrieRecord, InsertPerfectStands DEF t
<1>11. trie' = t
  <2>1. \/ t = [trie EXCEPT !.flat = @ \cup TopBits(lo, hi)]
        \/ t = WithRange(trie, lo, hi)
    BY DEF t, InsertPerfect
  <2>2. t = [flat |-> t.flat, node |-> t.node]
    <3>1. CASE t = [trie EXCEPT !.flat = @ \cup TopBits(lo, hi)]
      BY <3>1 DEF trie
    <3>2. CASE t = WithRange(trie, lo, hi)
      BY <3>2, WithRangeRecord, TrieRecord
    <3>3. QED
      BY <2>1, <3>1, <3>2
  <2>3. QED
    BY <1>1, <2>2, NextTrie
<1>12. Stands(trie', There', z)
  BY <1>8, <1>10, <1>11
<1>13. next' \in 1..(Len(out') + 1)
  BY <1>1, <1>2
<1>14. QED
  BY <1>1, <1>2, <1>8, <1>12, <1>13 DEF Inv

\* Every step keeps the invariant and the keys that are there; what it says of the bits, as long as the ranges
\* have zeros before the digit in which they split.
LEMMA StepKeeps ==
  ASSUME NEW z \in BOOLEAN, Inv(z), [Next]_vars, z => ZeroDigitsBefore
  PROVE  Inv(z)' /\ There \subseteq There'
<1>1. Cut!IInv'
  BY CutKeeps DEF Inv
<1>2. CASE \E r \in Ranges : InsertRange(r)
  <2>1. PICK r \in Ranges : InsertRange(r)
    BY <1>2
  <2>2. r[1] \in Key /\ r[2] \in Key /\ r[1]..r[2] \cap given = {}
    BY <2>1, RangesAssumption DEF InsertRange
  <2>3. CASE r[1] = r[2]
    <3>1. InsertKey(r[1])
      BY <2>1, <2>3 DEF InsertRange
    <3>2. r[1] \notin given
      <4>1. r[1] \in Nat
        BY <2>2, SameFacts
      <4>2. r[1] \in r[1]..r[2]
        BY <2>3, <4>1
      <4>3. QED
        BY <2>2, <4>2
    <3>3. QED
      BY <1>1, <2>2, <3>1, <3>2, InsertKeyKeeps
  <2>4. CASE r[1] # r[2]
    <3>1. BeginRange(r[1], r[2])
      BY <2>1, <2>4 DEF InsertRange
    <3>2. QED
      BY <1>1, <2>2, <3>1, BeginRangeKeeps
  <2>5. QED
    BY <2>3, <2>4
<1>3. CASE HandleRange
  BY <1>1, <1>3, HandleRangeKeeps
<1>4. CASE InsertPerfectRange
  BY <1>1, <1>4, InsertPerfectKeeps
<1>5. CASE UNCHANGED vars
  <2>1. /\ UNCHANGED <<phase, low, high, job, out, rootExists>>
        /\ UNCHANGED <<flat, node, next, given>>
    BY <1>5 DEF vars, cutting
  <2>2. trie' = trie /\ There' = There /\ (Idle' <=> Idle)
    BY <2>1 DEF trie, There, Pending, Idle
  <2>3. Stands(trie', There', z)
    BY <2>2 DEF Inv
  <2>4. QED
    BY <1>1, <2>1, <2>2, <2>3 DEF Inv
<1>6. QED
  BY <1>2, <1>3, <1>4, <1>5 DEF Next

\* So it always holds, of the trie without its bits for any ranges,
Holds == Inv(FALSE)
\* and of the bits too for ranges with zeros before the digit in which they split.
HoldsExactly == Inv(TRUE)

\* The nodes of the trie are those of the keys put in, whatever the ranges are.
LEMMA HoldsAlways == Spec => []Holds
<1>1. Init => Holds
  BY InitInv DEF Holds
<1>2. Holds /\ [Next]_vars => Holds'
  <2>1. SUFFICES ASSUME Inv(FALSE), [Next]_vars
                 PROVE  Inv(FALSE)'
    BY DEF Holds
  <2>2. FALSE \in BOOLEAN /\ (FALSE => ZeroDigitsBefore)
    OBVIOUS
  <2>3. QED
    BY <2>1, <2>2, StepKeeps
<1>3. QED
  BY <1>1, <1>2, PTL DEF Spec

\* The bits as well, if all ranges are such that TopBits names their own bits.
LEMMA HoldsExactlyAlways == Spec /\ []ZeroDigitsBefore => []HoldsExactly
<1>1. Init => HoldsExactly
  BY InitInv DEF HoldsExactly
<1>2. HoldsExactly /\ ZeroDigitsBefore /\ [Next]_vars => HoldsExactly'
  <2>1. SUFFICES ASSUME Inv(TRUE), ZeroDigitsBefore, [Next]_vars
                 PROVE  Inv(TRUE)'
    BY DEF HoldsExactly
  <2>2. TRUE \in BOOLEAN /\ (TRUE => ZeroDigitsBefore)
    BY <2>1
  <2>3. QED
    BY <2>1, <2>2, StepKeeps
<1>3. QED
  BY <1>1, <1>2, PTL DEF Spec

-----------------------------------------------------------------------------
(* What a reader asks. *)

\* The variables have their types: every bit is one of the flat bitmaps, and every
\* node has a string, a smallest key and children that it can have.
THEOREM TypeCorrect == Spec => []TypeOK
<1>1. Holds => TypeOK
  <2>1. SUFFICES ASSUME Inv(FALSE)
                 PROVE  TypeOK
    BY DEF Holds
  <2>2. RD!TypeOK
    <3>1. Cut!TypeOK
      BY <2>1 DEF Inv, Cut!IInv
    <3>2. QED
      BY <3>1 DEF RD!TypeOK, Cut!TypeOK, RD!Key, Cut!Key, RD!KeyRange, Cut!KeyRange,
                  RD!OutRange, Cut!OutRange, RD!Weight, Cut!Weight, RD!Power, Cut!Power
  <2>3. PICK f, S, G, C : RangeTrie(trie, f, S, G, C)
    BY <2>1 DEF Inv, Stands
  <2>4. /\ trie.flat = flat /\ trie.node = node
        /\ flat \subseteq Bits /\ S \subseteq Key /\ Tree(f, S)
        /\ node = [p \in DOMAIN f \ C |-> f[p]]
    BY <2>3 DEF RangeTrie, Pruned, trie
  <2>5. \A p \in flat : p[1] \in 1..(TopLen + 1) /\ p[2] \in 0..(Weight[p[1]] - 1)
    BY <2>4 DEF Bits
  <2>6. ASSUME NEW p \in DOMAIN node
        PROVE  /\ p[1] \in Level /\ p[2] \in 0..(Weight[p[1]] - 1)
               /\ node[p].dlen \in p[1]..KeyLen /\ node[p].mkey \in Key
               /\ node[p].kids \subseteq Digit
    <3>1. p \in DOMAIN f /\ node[p] = f[p]
      BY <2>4
    <3>2. PICK s \in S, l \in Level : Branches(S, s, l) /\ p = Prefix(s, l)
      BY <2>4, <3>1 DEF Tree, Nodes
    <3>3. s \in Key /\ l \in 0..KeyLen /\ l \in Nat /\ KeyLen \in Nat
      BY <2>4, LengthFacts
    <3>4. p[1] = l /\ p[2] = Value(s, l) /\ Value(s, l) \in 0..(Weight[l] - 1)
      BY <3>2, <3>3, PrefixFacts, ValueFacts
    <3>5. Node(S, s, l, node[p])
      BY <2>4, <3>1, <3>2 DEF Tree
    <3> DEFINE n == node[p]
    <3> HIDE DEF n
    <3>6. /\ n.dlen \in l..KeyLen /\ n.mkey \in S
          /\ \A d : d \in n.kids => n.dlen < KeyLen /\ \E u \in S : d = DigitAfter(u, n.dlen)
      BY <3>5 DEF Node, n
    <3>7. \A d \in n.kids : d \in Digit
      <4>1. TAKE d \in n.kids
      <4>2. PICK u \in S : n.dlen < KeyLen /\ d = DigitAfter(u, n.dlen)
        BY <3>6
      <4>3. u \in Key /\ n.dlen \in 0..KeyLen
        BY <2>4, <3>3, <3>6
      <4>4. DigitAfter(u, n.dlen) \in Digit
        BY <4>2, <4>3, ValueFacts
      <4>5. QED
        BY <4>2, <4>4
    <3>8. QED
      BY <2>4, <3>2, <3>4, <3>6, <3>7 DEF n
  <2>7. QED
    BY <2>1, <2>2, <2>5, <2>6 DEF TypeOK, Inv
<1>2. QED
  BY <1>1, HoldsAlways, PTL

\* Exist finds the keys the trie stands for.
LEMMA ExactlyFound == HoldsExactly => ExistExact
<1>1. SUFFICES ASSUME Inv(TRUE)
               PROVE  ExistExact
  BY DEF HoldsExactly
<1>2. PICK f, S, G, C : /\ RangeTrie(trie, f, S, G, C) /\ Keys(S, G, C) = There
                        /\ trie.flat = Flat(S \cup G)
  BY <1>1 DEF Inv, Stands
<1>3. \A k \in Key : Exists(trie, k) <=> k \in There
  BY <1>2, ExistsFacts
<1>4. There \subseteq Key
  BY <1>1 DEF Inv, There
<1>5. QED
  BY <1>3, <1>4 DEF ExistExact, Found

\* Exist finds exactly the keys that have been put in: no range or key that goes in
\* later, splits a node of theirs or shares it makes it lose one or find another.
THEOREM ExistIsExact == Spec /\ []ZeroDigitsBefore => []ExistExact
BY HoldsExactlyAlways, ExactlyFound, PTL

\* What Exist has found once it finds for ever.
THEOREM NothingIsLost == Spec /\ []ZeroDigitsBefore => NothingLost
<1>1. HoldsExactly /\ ZeroDigitsBefore /\ [Next]_vars => There \subseteq There'
  <2>1. SUFFICES ASSUME Inv(TRUE), ZeroDigitsBefore, [Next]_vars
                 PROVE  There \subseteq There'
    BY DEF HoldsExactly
  <2>2. TRUE \in BOOLEAN /\ (TRUE => ZeroDigitsBefore)
    BY <2>1
  <2>3. QED
    BY <2>1, <2>2, StepKeeps
<1>2. ExistExact /\ ExistExact' /\ There \subseteq There' => [Found \subseteq Found']_vars
  BY DEF ExistExact
<1>3. QED
  BY <1>1, <1>2, ExistIsExact, HoldsExactlyAlways, PTL DEF Spec, NothingLost

\* What the answer of LowerBound is for a value that no range of the flat bitmaps
\* covers: a key that is there, not below the value, and the value itself if it is
\* there; and there is an answer if there is such a key.
LEMMA Answers ==
  ASSUME Inv(TRUE), NEW k \in Key, ~InFlatRange(k)
  PROVE  Bounds(There, k, LowerBoundOf(k), None) /\ (k \in There => LowerBoundOf(k) = k)
<1>1. PICK f, S, G, C : /\ RangeTrie(trie, f, S, G, C) /\ Keys(S, G, C) = There
                        /\ trie.flat = Flat(S \cup G)
  BY DEF Inv, Stands
<1>2. ~(QueryLCP(trie, k).lcp = TopLen /\ CoveredByTop(trie, k))
  BY DEF InFlatRange
<1>3. /\ Bounds(Keys(S, G, C), k, RangeLowerBound(trie, k, None), None)
      /\ k \in Keys(S, G, C) => RangeLowerBound(trie, k, None) = k
  BY <1>1, <1>2, LowerBoundAnswers
<1>4. QED
  BY <1>1, <1>3 DEF LowerBoundOf

\* LowerBound answers with a key that is there and not smaller, and always when
\* there is one.
THEOREM LowerBoundIsThere == Spec /\ []ZeroDigitsBefore => []LowerBoundBelongs
<1>1. HoldsExactly => LowerBoundBelongs
  <2>1. SUFFICES ASSUME Inv(TRUE), NEW k \in Key, ~InFlatRange(k)
                 PROVE  IF \E l \in There : l >= k
                        THEN LowerBoundOf(k) \in There /\ LowerBoundOf(k) >= k
                        ELSE LowerBoundOf(k) = None
    BY DEF HoldsExactly, LowerBoundBelongs
  <2>2. Bounds(There, k, LowerBoundOf(k), None)
    BY <2>1, Answers
  <2>3. \A x \in There : x \in Nat
    <3>1. There \subseteq Key
      BY <2>1 DEF Inv, There
    <3>2. QED
      BY <3>1, SameFacts
  <2>4. k \in Nat
    BY <2>1, SameFacts
  <2>5. QED
    BY <2>2, <2>3, <2>4 DEF Bounds
<1>2. QED
  BY <1>1, HoldsExactlyAlways, PTL

\* A key that is there is its own lower bound.
THEOREM LowerBoundOfKeys == Spec /\ []ZeroDigitsBefore => []LowerBoundFindsKeys
<1>1. HoldsExactly => LowerBoundFindsKeys
  <2>1. SUFFICES ASSUME Inv(TRUE), NEW k \in There, ~InFlatRange(k)
                 PROVE  LowerBoundOf(k) = k
    BY DEF HoldsExactly, LowerBoundFindsKeys
  <2>2. k \in Key
    BY <2>1 DEF Inv, There
  <2>3. QED
    BY <2>1, <2>2, Answers
<1>2. QED
  BY <1>1, HoldsExactlyAlways, PTL
=============================================================================
