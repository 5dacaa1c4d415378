----------------------- MODULE SequentialIndexProofs -----------------------
(* Proofs about SequentialIndex, for keys of any number of digits in any     *)
(* base: after any sequence of calls the trie is the one that its set of     *)
(* keys determines, every call replies what a sorted set would, and a        *)
(* promise stays good.                                                       *)
EXTENDS SequentialIndex, TrieProofs, FiniteSetTheorems, TLAPS

Present == {node[p].mkey : p \in Leaves}

-----------------------------------------------------------------------------
(* The inductive invariant. *)

Replied ==
  reply = None \/ /\ reply.op \in {"insert", "exist", "lower_bound"}
                  /\ reply.key \in Key

\* The node that a promise names is still there, all that may ever be below it
\* is not below the value asked for, and its smallest key has only fallen.
Good(h) ==
  h.promise.kind = "lookup" =>
    \E s \in Present, l \in Level :
      /\ h.promise.node = Prefix(s, l)
      /\ Prefix(s, l) \in DOMAIN node
      /\ \A x \in Key : Same(x, s, l) => h.key <= x
      /\ node[Prefix(s, l)].mkey <= h.first

Holding == held = None \/ (held.key \in Asked /\ held.first \in Key /\ Good(held))

IInv ==
  /\ Present \subseteq Key
  /\ TrieOf(trie, Present)
  /\ Replied
  /\ Holding

\* The trie that the variables make.
LEMMA TrieFields == trie.node = node /\ trie.flat = flat
BY DEF trie

\* The empty index.
LEMMA InitHolds == Init => IInv /\ Present = {}
<1> SUFFICES ASSUME Init
             PROVE  IInv /\ Present = {}
  OBVIOUS
<1>1. node = EmptyTrie.node /\ flat = EmptyTrie.flat /\ reply = None /\ held = None
  BY DEF Init
<1>2. EmptyTrie.flat = {} /\ EmptyTrie.node = <<>>
  BY DEF EmptyTrie
<1>3. DOMAIN <<>> = {}
  OBVIOUS
<1>4. <<>> = [p \in {} |-> <<>>[p]]
  OBVIOUS
<1>5. DOMAIN node = {} /\ node = [p \in {} |-> node[p]] /\ flat = {}
  BY <1>1, <1>2, <1>3, <1>4
<1>6. Present = {}
  BY <1>5 DEF Present, Leaves
<1>7. Tree(node, {})
  <2>1. Nodes({}) = {}
    BY DEF Nodes
  <2>2. QED
    BY <1>5, <2>1 DEF Tree
<1>8. TrieOf(trie, {})
  <2>1. Flat({}) = {}
    BY DEF Flat
  <2>2. QED
    BY <1>5, <1>7, <2>1, TrieFields DEF TrieOf
<1>9. QED
  BY <1>1, <1>6, <1>8 DEF IInv, Replied, Holding

\* Insert adds the key to those of the trie, and to no other.
LEMMA InsertStep ==
  ASSUME IInv, NEW k \in Inserted, Insert(k)
  PROVE  /\ Present' = Present \cup {k}
         /\ TrieOf(trie', Present')
         /\ reply' = Reply("insert", k, k \notin Present)
<1> DEFINE S == Present
           g == InsertInto(trie, k)
<1>1. k \in Key /\ S \subseteq Key /\ TrieOf(trie, S) /\ S \cup {k} \subseteq Key
  BY InsertedAssumption DEF IInv
<1>2. TrieOf(g, S \cup {k}) /\ (Prefix(k, TopLen) \in flat /\ Contains(trie, k) <=> k \in S)
  BY <1>1, InsertFacts, TrieFields
<1>3. node' = g.node /\ flat' = g.flat
  BY DEF Insert
<1>4. trie'.node = g.node /\ trie'.flat = g.flat
  BY <1>3 DEF trie
<1>5. Present' = S \cup {k}
  <2>1. Tree(node', S \cup {k})
    BY <1>2, <1>3 DEF TrieOf
  <2>2. {node'[p].mkey : p \in {r \in DOMAIN node' : node'[r].dlen = KeyLen}} = S \cup {k}
    BY <1>1, <2>1, LeafKeys
  <2>3. QED
    BY <2>2 DEF Present, Leaves
<1>6. TrieOf(trie', S \cup {k})
  BY <1>2, <1>4 DEF TrieOf
<1>7. (~(Prefix(k, TopLen) \in flat /\ Contains(trie, k))) = (k \notin S)
  BY <1>2
<1>8. reply' = Reply("insert", k, k \notin S)
  BY <1>7 DEF Insert
<1>9. QED
  BY <1>5, <1>6, <1>8

\* Nodes stay where they are, and their smallest keys only fall.
LEMMA NodesStay ==
  ASSUME NEW f, NEW S, Tree(f, S), NEW g, NEW T, Tree(g, T), S \subseteq T, T \subseteq Key,
         NEW s \in S, NEW l \in Level, Prefix(s, l) \in DOMAIN f
  PROVE  /\ Prefix(s, l) \in DOMAIN g
         /\ g[Prefix(s, l)].mkey \in Key /\ f[Prefix(s, l)].mkey \in Key
         /\ g[Prefix(s, l)].mkey <= f[Prefix(s, l)].mkey
<1>1. s \in Key /\ s \in T /\ S \subseteq Key
  OBVIOUS
<1>2. Branches(S, s, l) /\ Node(S, s, l, f[Prefix(s, l)])
  BY <1>1, TreeAt
<1>3. Branches(T, s, l) /\ Same(s, s, l)
  BY <1>2 DEF Branches, Same
<1>4. Prefix(s, l) \in DOMAIN g /\ Node(T, s, l, g[Prefix(s, l)])
  BY <1>1, <1>3, TreeAt
<1>5. f[Prefix(s, l)].mkey \in S /\ Same(f[Prefix(s, l)].mkey, s, l)
  BY <1>2 DEF Node
<1>6. g[Prefix(s, l)].mkey \in T /\ g[Prefix(s, l)].mkey <= f[Prefix(s, l)].mkey
  BY <1>4, <1>5 DEF Node
<1>7. QED
  BY <1>1, <1>4, <1>5, <1>6

\* A promise that somebody holds survives an insertion.
LEMMA InsertGood ==
  ASSUME IInv, NEW k \in Inserted, Insert(k), held # None
  PROVE  Good(held)'
<1>1. held' = held
  BY DEF Insert
<1>2. Holding
  BY DEF IInv
<1>3. held.first \in Key /\ Good(held)
  BY <1>2 DEF Holding
<1>4. SUFFICES ASSUME held.promise.kind = "lookup"
               PROVE  \E s \in Present', l \in Level :
                        /\ held.promise.node = Prefix(s, l)
                        /\ Prefix(s, l) \in DOMAIN node'
                        /\ \A x \in Key : Same(x, s, l) => held.key <= x
                        /\ node'[Prefix(s, l)].mkey <= held.first
  BY <1>1 DEF Good
<1>5. PICK s \in Present, l \in Level :
        /\ held.promise.node = Prefix(s, l)
        /\ Prefix(s, l) \in DOMAIN node
        /\ \A x \in Key : Same(x, s, l) => held.key <= x
        /\ node[Prefix(s, l)].mkey <= held.first
  BY <1>3, <1>4 DEF Good
<1>6. /\ Present' = Present \cup {k} /\ Present' \subseteq Key
      /\ Tree(node, Present) /\ Tree(node', Present')
  <2>1. trie'.node = node'
    BY DEF trie
  <2>2. TrieOf(trie, Present) /\ Present \subseteq Key
    BY DEF IInv
  <2>3. QED
    BY <2>1, <2>2, InsertStep, InsertedAssumption, TrieFields DEF TrieOf
<1> HIDE DEF Present
<1>7. /\ Prefix(s, l) \in DOMAIN node'
      /\ node'[Prefix(s, l)].mkey \in Key /\ node[Prefix(s, l)].mkey \in Key
      /\ node'[Prefix(s, l)].mkey <= node[Prefix(s, l)].mkey
  <2>1. Present \subseteq Present'
    BY <1>6
  <2>2. QED
    BY <1>5, <1>6, <2>1, NodesStay
<1>8. \A x \in Key : x \in Nat
  BY SameFacts
<1>9. node'[Prefix(s, l)].mkey <= held.first
  BY <1>3, <1>5, <1>7, <1>8
<1>10. s \in Present'
  BY <1>6
<1>11. QED
  BY <1>5, <1>7, <1>9, <1>10

\* The promise that LowerBound hands out.
LEMMA PromiseStep ==
  ASSUME IInv, NEW k \in Asked, LowerBoundPromise(k)
  PROVE  held'.key = k /\ held'.first \in Key /\ Good(held)'
<1> DEFINE P == LowerBoundInternal(trie, k)
           h == [key |-> k, first |-> Resolve(trie, P), promise |-> P]
<1>1. k \in Key /\ Present \subseteq Key /\ TrieOf(trie, Present)
  BY InsertedAssumption DEF IInv
<1>2. Outcome(trie, Present, k, P)
  BY <1>1, LowerBoundFacts
<1>3. held' = h /\ node' = node /\ P # NoPromise
  BY DEF LowerBoundPromise
<1> HIDE DEF P
<1>4. Answer(trie, Present, k, P)
  BY <1>2, <1>3 DEF Outcome
<1>5. held'.key = k /\ held'.first = Resolve(trie, P) /\ held'.promise = P
  BY <1>3
<1>6. Resolve(trie, P) \in Key /\ Resolve(trie, P) = node[P.node].mkey /\ P.node \in DOMAIN node
  BY <1>1, <1>4, TrieFields DEF Answer, Resolve
<1>7. Present' = Present
  BY <1>3 DEF Present, Leaves
<1>8. ASSUME P.kind = "lookup"
      PROVE  \E s \in Present, l \in Level :
               /\ P.node = Prefix(s, l)
               /\ Prefix(s, l) \in DOMAIN node
               /\ \A x \in Key : Same(x, s, l) => k <= x
               /\ node[Prefix(s, l)].mkey <= Resolve(trie, P)
  <2>1. PICK s \in Present, l \in Level : /\ P.node = Prefix(s, l)
                                          /\ \A x \in Key : Same(x, s, l) => k <= x
    BY <1>4, <1>8 DEF Answer
  <2>2. \A x \in Key : x <= x
    BY SameFacts
  <2>3. QED
    BY <1>6, <2>1, <2>2
<1>9. Good(held)'
  BY <1>3, <1>5, <1>7, <1>8 DEF Good
<1>10. QED
  BY <1>5, <1>6, <1>9

\* A call that leaves the trie alone.
LEMMA TrieStays ==
  ASSUME IInv, UNCHANGED <<flat, node>>
  PROVE  /\ Present' = Present
         /\ Present' \subseteq Key /\ TrieOf(trie, Present)'
         /\ \A h : Good(h) => Good(h)'
<1>1. node' = node /\ flat' = flat
  OBVIOUS
<1>2. Present' = Present
  BY <1>1 DEF Present, Leaves
<1>3. trie' = trie
  BY <1>1 DEF trie
<1>4. Present \subseteq Key /\ TrieOf(trie, Present)
  BY DEF IInv
<1>5. ASSUME NEW h, Good(h)
      PROVE  Good(h)'
  BY <1>1, <1>2, <1>5 DEF Good
<1>6. TrieOf(trie', Present')
  BY <1>2, <1>3, <1>4
<1>7. QED
  BY <1>2, <1>4, <1>5, <1>6

\* No call breaks the invariant.
LEMMA StepHolds == IInv /\ [Next]_vars => IInv'
<1> SUFFICES ASSUME IInv, [Next]_vars
             PROVE  IInv'
  OBVIOUS
<1>1. Present \subseteq Key /\ TrieOf(trie, Present) /\ Replied /\ Holding
  BY DEF IInv
<1>2. ASSUME NEW k \in Inserted, Insert(k)
      PROVE  IInv'
  <2>1. k \in Key
    BY InsertedAssumption
  <2>2. Present' \subseteq Key /\ TrieOf(trie, Present)'
    BY <1>1, <1>2, <2>1, InsertStep
  <2>3. Replied'
    <3>1. reply' = Reply("insert", k, k \notin Present)
      BY <1>2, InsertStep
    <3>2. reply'.op = "insert" /\ reply'.key = k
      BY <3>1 DEF Reply
    <3>3. QED
      BY <2>1, <3>2 DEF Replied
  <2>4. Holding'
    <3>1. held' = held
      BY <1>2 DEF Insert
    <3>2. CASE held = None
      BY <3>1, <3>2 DEF Holding
    <3>3. CASE held # None
      <4>1. Good(held)'
        BY <1>2, <3>3, InsertGood
      <4>2. held.key \in Asked /\ held.first \in Key
        BY <1>1, <3>3 DEF Holding
      <4>3. QED
        BY <3>1, <4>1, <4>2 DEF Holding
    <3>4. QED
      BY <3>2, <3>3
  <2>5. QED
    BY <2>2, <2>3, <2>4 DEF IInv
<1>3. ASSUME NEW k \in Key, Exist(k) \/ LowerBound(k)
      PROVE  IInv'
  <2>1. UNCHANGED <<flat, node>> /\ held' = held
    BY <1>3 DEF Exist, LowerBound
  <2>2. Replied'
    <3>1. (reply'.op = "exist" \/ reply'.op = "lower_bound") /\ reply'.key = k
      BY <1>3 DEF Exist, LowerBound, Reply
    <3>2. QED
      BY <3>1 DEF Replied
  <2>3. Holding'
    BY <1>1, <2>1, TrieStays DEF Holding
  <2>4. QED
    BY <2>1, <2>2, <2>3, TrieStays DEF IInv
<1>4. ASSUME NEW k \in Asked, LowerBoundPromise(k)
      PROVE  IInv'
  <2>1. UNCHANGED <<flat, node>> /\ reply' = reply
    BY <1>4 DEF LowerBoundPromise
  <2>2. Replied'
    BY <1>1, <2>1 DEF Replied
  <2>3. Holding'
    BY <1>4, PromiseStep DEF Holding
  <2>4. QED
    BY <2>1, <2>2, <2>3, TrieStays DEF IInv
<1>5. CASE ResolveHeld
  <2>1. UNCHANGED <<flat, node>> /\ reply' = reply /\ held' = None
    BY <1>5 DEF ResolveHeld
  <2>2. Replied' /\ Holding'
    BY <1>1, <2>1 DEF Replied, Holding
  <2>3. QED
    BY <2>1, <2>2, TrieStays DEF IInv
<1>6. CASE UNCHANGED vars
  <2>1. UNCHANGED <<flat, node>> /\ reply' = reply /\ held' = held
    BY <1>6 DEF vars
  <2>2. Replied'
    BY <1>1, <2>1 DEF Replied
  <2>3. Holding'
    BY <1>1, <2>1, TrieStays DEF Holding
  <2>4. QED
    BY <2>1, <2>2, <2>3, TrieStays DEF IInv
<1>7. QED
  BY <1>2, <1>3, <1>4, <1>5, <1>6 DEF Next

\* After any sequence of calls the trie is that of the keys inserted, and the
\* promise somebody holds is good.
THEOREM InvariantHolds == Spec => []IInv
BY InitHolds, StepHolds, PTL DEF Spec

-----------------------------------------------------------------------------
(* The properties. *)

\* The key of each node of the trie, and where it is.
LEMMA NodeFacts ==
  ASSUME IInv, NEW p \in DOMAIN node
  PROVE  \E s \in Present, l \in Level :
           p = Prefix(s, l) /\ Node(Present, s, l, node[p])
<1>1. Tree(node, Present) /\ Present \subseteq Key
  BY TrieFields DEF IInv, TrieOf
<1> HIDE DEF Present
<1>2. p \in Nodes(Present)
  BY <1>1 DEF Tree
<1>3. PICK s \in Present, l \in Level : Branches(Present, s, l) /\ p = Prefix(s, l)
  BY <1>2 DEF Nodes
<1>4. Node(Present, s, l, node[p])
  BY <1>1, <1>3 DEF Tree
<1>5. QED
  BY <1>3, <1>4

\* Every variable has its type.
THEOREM TypeCorrect == Spec => []TypeOK
<1>1. IInv => TypeOK
  <2> SUFFICES ASSUME IInv
               PROVE  TypeOK
    OBVIOUS
  <2>1. Present \subseteq Key /\ TrieOf(trie, Present) /\ Replied /\ Holding
    BY DEF IInv
  <2>2. ASSUME NEW p \in flat
        PROVE  p[1] \in 1..(TopLen + 1) /\ p[2] \in 0..(Weight[p[1]] - 1)
    <3>1. flat = Flat(Present)
      BY <2>1, TrieFields DEF TrieOf
    <3>2. PICK s \in Present, n \in 1..(TopLen + 1) : p = Prefix(s, n)
      BY <3>1 DEF Flat
    <3>3. s \in Key /\ n \in 0..KeyLen
      BY <2>1, LengthFacts
    <3>4. p[1] = n /\ p[2] = Value(s, n)
      BY <3>2, <3>3, PrefixFacts
    <3>5. QED
      BY <3>3, <3>4, ValueFacts
  <2>3. ASSUME NEW p \in DOMAIN node
        PROVE  /\ p[1] \in Level /\ p[2] \in 0..(Weight[p[1]] - 1)
               /\ node[p].dlen \in p[1]..KeyLen /\ node[p].mkey \in Key
               /\ node[p].kids \subseteq Digit
    <3>1. PICK s \in Present, l \in Level : p = Prefix(s, l) /\ Node(Present, s, l, node[p])
      BY NodeFacts
    <3> HIDE DEF Present
    <3>2. s \in Key /\ l \in 0..KeyLen
      BY <2>1, LengthFacts
    <3>3. p[1] = l /\ p[2] = Value(s, l)
      BY <3>1, <3>2, PrefixFacts
    <3>4. p[2] \in 0..(Weight[p[1]] - 1)
      BY <3>2, <3>3, ValueFacts
    <3> DEFINE n == node[p]
    <3>5. n.dlen \in l..KeyLen /\ n.mkey \in Key
      BY <2>1, <3>1 DEF Node
    <3>6. ASSUME NEW d \in n.kids
          PROVE  d \in Digit
      <4>1. PICK u \in Present : n.dlen < KeyLen /\ d = DigitAfter(u, n.dlen)
        BY <3>1 DEF Node
      <4>2. n.dlen \in 0..KeyLen /\ u \in Key
        BY <2>1, <3>2, <3>5
      <4> HIDE DEF n
      <4>3. QED
        BY <4>1, <4>2, ValueFacts
    <3>7. QED
      BY <3>3, <3>4, <3>5, <3>6
  <2>4. reply = None \/ /\ reply.op \in {"insert", "exist", "lower_bound"}
                        /\ reply.key \in Key
    BY <2>1 DEF Replied
  <2>5. held = None \/ (held.key \in Asked /\ held.first \in Key)
    BY <2>1 DEF Holding
  <2>6. QED
    BY <2>2, <2>3, <2>4, <2>5 DEF TypeOK
<1>2. QED
  BY <1>1, InvariantHolds, PTL

\* The tree has nothing that its leaves do not ask for, and all that they do:
\* minima, branches, children, bits.
THEOREM CanonicalHolds == Spec => []Canonical
<1>1. IInv => Canonical
  <2> SUFFICES ASSUME IInv
               PROVE  Canonical
    OBVIOUS
  <2>1. Present \subseteq Key /\ Tree(node, Present) /\ flat = Flat(Present)
    BY TrieFields DEF IInv, TrieOf
  <2>2. \A u : u \in Present <=> \E q \in Leaves : u = node[q].mkey
    BY DEF Present
  <2>3. ASSUME NEW p \in DOMAIN node
        PROVE  Prefix(node[p].mkey, p[1]) = p
    <3>1. PICK s \in Present, l \in Level : p = Prefix(s, l) /\ Node(Present, s, l, node[p])
      BY NodeFacts
    <3> HIDE DEF Present
    <3>2. s \in Key /\ l \in 0..KeyLen /\ node[p].mkey \in Key /\ Same(node[p].mkey, s, l)
      BY <2>1, <3>1, LengthFacts DEF Node
    <3>3. p[1] = l /\ Prefix(node[p].mkey, l) = Prefix(s, l)
      BY <3>1, <3>2, PrefixFacts
    <3>4. QED
      BY <3>1, <3>3
  <2>4. ASSUME NEW p \in DOMAIN node \ Leaves
        PROVE  /\ node[p].mkey = Min({node[q].mkey : q \in Below(p)})
               /\ node[p].kids = {DigitAfter(node[q].mkey, node[p].dlen) : q \in Below(p)}
               /\ Cardinality(node[p].kids) >= 2
               /\ \A d \in node[p].kids :
                    Child(Prefix(node[p].mkey, node[p].dlen), d) \in DOMAIN node
    <3> DEFINE n == node[p]
               m == n.mkey
               d == n.dlen
               B == {node[q].mkey : q \in Below(p)}
    <3>1. PICK s \in Present, l \in Level : p = Prefix(s, l) /\ Node(Present, s, l, n)
      BY NodeFacts
    <3>2. s \in Key /\ l \in 0..KeyLen /\ l \in Nat /\ KeyLen \in Nat /\ p[1] = l
      BY <2>1, <3>1, LengthFacts, PrefixFacts
    <3>3. \A u : u \in B <=> u \in Present /\ Same(u, s, l)
      <4>1. \A u \in Present : Prefix(u, p[1]) = p <=> Same(u, s, l)
        BY <2>1, <3>1, <3>2, PrefixFacts
      <4>2. \A u : u \in B <=> u \in Present /\ Prefix(u, p[1]) = p
        BY <2>2 DEF Below
      <4>3. QED
        BY <4>1, <4>2
    <3>4. d # KeyLen
      BY DEF Leaves
    <3> HIDE DEF Present, B, n
    <3>5. d \in 0..KeyLen /\ d < KeyLen /\ d \in Nat /\ d \in l..KeyLen
      BY <3>1, <3>2, <3>4 DEF Node
    <3>6. m \in B /\ m \in Key /\ m \in Nat /\ \A u \in B : m <= u /\ u \in Key /\ u \in Nat
      BY <2>1, <3>1, <3>3, SameFacts DEF Node
    <3>7. m = Min(B)
      <4>1. B \subseteq Nat /\ B # {}
        BY <3>6
      <4>2. Min(B) \in B /\ Min(B) <= m
        BY <3>6, <4>1, MinFacts
      <4>3. QED
        BY <3>6, <4>2
    <3>8. \A e : e \in n.kids <=> \E u \in B : e = DigitAfter(u, d)
      BY <3>1, <3>3, <3>5 DEF Node
    <3>9. n.kids = {DigitAfter(node[q].mkey, d) : q \in Below(p)}
      <4>1. \A e : e \in n.kids <=> \E q \in Below(p) : e = DigitAfter(node[q].mkey, d)
        BY <3>8 DEF B
      <4>2. QED
        BY <4>1
    <3>10. Cardinality(n.kids) >= 2
      <4>1. PICK u \in Present : Same(u, s, l) /\ ~Same(u, m, d + 1)
        BY <3>1, <3>5 DEF Node
      <4>2. u \in B /\ Same(u, m, d)
        BY <3>1, <3>3, <4>1 DEF Node
      <4> DEFINE a == DigitAfter(u, d)
                 b == DigitAfter(m, d)
      <4>3. a # b
        BY <3>5, <3>6, <4>1, <4>2, SameNext
      <4>4. a \in n.kids /\ b \in n.kids
        BY <3>6, <3>8, <4>2
      <4>5. n.kids \subseteq 0..(Base - 1)
        <5>1. \A v \in B : DigitAfter(v, d) \in Digit
          BY <3>5, <3>6, ValueFacts
        <5>2. QED
          BY <3>8, <5>1 DEF Digit
      <4>6. IsFiniteSet(n.kids)
        <5>1. IsFiniteSet(0..(Base - 1))
          BY BaseAssumption, FS_Interval
        <5>2. QED
          BY <4>5, <5>1, FS_Subset
      <4> HIDE DEF a, b, m
      <4>7. IsFiniteSet({a}) /\ Cardinality({a}) = 1
        BY FS_Singleton
      <4>8. Cardinality({a} \cup {b}) = 2
        <5>1. b \notin {a}
          BY <4>3
        <5>2. QED
          BY <4>7, <5>1, FS_AddElement
      <4>9. Cardinality({a} \cup {b}) <= Cardinality(n.kids) /\ Cardinality(n.kids) \in Nat
        <5>1. {a} \cup {b} \in SUBSET n.kids
          BY <4>4
        <5>2. QED
          BY <4>6, <5>1, FS_Subset, FS_CardinalityType
      <4>10. QED
        BY <4>8, <4>9
    <3>11. ASSUME NEW e \in n.kids
           PROVE  Child(Prefix(m, d), e) \in DOMAIN node
      <4>1. PICK u \in B : e = DigitAfter(u, d)
        BY <3>8
      <4>2. u \in Present /\ u \in Key /\ Same(u, s, l) /\ Same(u, m, d)
        BY <3>1, <3>3, <3>6 DEF Node
      <4>3. Prefix(u, d + 1) \in DOMAIN node
        BY <2>1, <3>1, <3>2, <3>5, <4>2, NodeBelow
      <4>4. Child(Prefix(m, d), e) = Prefix(u, d + 1)
        <5>1. Value(u, d + 1) = Value(u, d) * Base + DigitAfter(u, d) /\ Value(u, d) = Value(m, d)
          BY <3>5, <4>2, ValueFacts DEF Same
        <5>2. d + 1 \in 0..KeyLen
          BY <3>5, <3>2
        <5>3. QED
          BY <3>5, <3>6, <4>1, <4>2, <5>1, <5>2, PrefixFacts DEF Child
      <4>5. QED
        BY <4>3, <4>4
    <3>12. QED
      BY <3>7, <3>9, <3>10, <3>11 DEF B, n
  <2>5. flat = UNION {{Prefix(node[q].mkey, i) : i \in 1..(TopLen + 1)} : q \in Leaves}
    <3>1. \A x : x \in Flat(Present) <=> \E u \in Present : x \in {Prefix(u, i) : i \in 1..(TopLen + 1)}
      BY DEF Flat
    <3>2. \A x : x \in Flat(Present) <=>
            \E q \in Leaves : x \in {Prefix(node[q].mkey, i) : i \in 1..(TopLen + 1)}
      BY <2>2, <3>1
    <3>3. QED
      BY <2>1, <3>2
  <2>6. QED
    BY <2>3, <2>4, <2>5 DEF Canonical
<1>2. QED
  BY <1>1, InvariantHolds, PTL

\* A promise of an index prefix that is resolved between two calls is resolved to
\* a key that is there, not below the value, and not above the key that answered
\* it at first, whatever insertions have been completed since.
THEOREM PromiseKeptBetweenCallsHolds == Spec => []PromiseKeptBetweenCalls
<1>1. IInv => PromiseKeptBetweenCalls
  <2> SUFFICES ASSUME IInv, held # None, held.promise.kind = "lookup"
               PROVE  LET r == Resolve(trie, held.promise)
                      IN  r \in Present /\ held.key <= r /\ r <= held.first
    BY DEF PromiseKeptBetweenCalls, Present
  <2>1. Present \subseteq Key /\ Tree(node, Present) /\ Good(held)
    BY TrieFields DEF IInv, TrieOf, Holding
  <2>2. PICK s \in Present, l \in Level :
          /\ held.promise.node = Prefix(s, l)
          /\ Prefix(s, l) \in DOMAIN node
          /\ \A x \in Key : Same(x, s, l) => held.key <= x
          /\ node[Prefix(s, l)].mkey <= held.first
    BY <2>1 DEF Good
  <2> DEFINE r == node[Prefix(s, l)].mkey
  <2>3. Resolve(trie, held.promise) = r
    BY <2>2, TrieFields DEF Resolve
  <2> HIDE DEF Present
  <2>4. Node(Present, s, l, node[Prefix(s, l)])
    BY <2>1, <2>2, TreeAt
  <2>5. r \in Present /\ Same(r, s, l)
    BY <2>4 DEF Node
  <2>6. QED
    BY <2>1, <2>2, <2>3, <2>5
<1>2. QED
  BY <1>1, InvariantHolds, PTL

-----------------------------------------------------------------------------
(* The refinement: the keys of the leaves are the sorted set. *)

\* LowerBound's reply is the set's.
LEMMA LowerBoundStep ==
  ASSUME IInv, NEW k \in Key, LowerBound(k)
  PROVE  reply' = Reply("lower_bound", k, IF Set!NotBelow(Present, k) = {} THEN None
                                          ELSE Set!Min(Set!NotBelow(Present, k)))
<1> DEFINE P == LowerBoundInternal(trie, k)
           B == Set!NotBelow(Present, k)
           r == Resolve(trie, P)
<1>1. Present \subseteq Key /\ TrieOf(trie, Present)
  BY DEF IInv
<1>2. Outcome(trie, Present, k, P)
  BY <1>1, LowerBoundFacts
<1>3. reply' = Reply("lower_bound", k, IF P = NoPromise THEN None ELSE r)
  BY DEF LowerBound
<1>4. \A u : u \in B <=> u \in Present /\ u >= k
  BY DEF Set!NotBelow
<1>5. k \in Nat /\ \A u \in Present : u \in Nat
  BY <1>1, SameFacts
<1> HIDE DEF P, B, r, Present
<1>6. CASE P = NoPromise
  <2>1. B = {}
    BY <1>2, <1>4, <1>5, <1>6 DEF Outcome
  <2>2. QED
    BY <1>3, <1>6, <2>1 DEF B
<1>7. CASE P # NoPromise
  <2>1. r \in Present /\ k <= r /\ \A u \in Present : k <= u => r <= u
    BY <1>2, <1>7 DEF Outcome, Answer, r
  <2>2. r \in B /\ \A u \in B : r <= u /\ u \in Nat
    BY <1>4, <1>5, <2>1
  <2>3. Set!Min(B) \in B /\ \A u \in B : Set!Min(B) <= u
    <3>1. \E x \in B : \A u \in B : x <= u
      BY <2>2
    <3>2. QED
      BY <3>1 DEF Set!Min
  <2>4. Set!Min(B) = r
    BY <2>2, <2>3
  <2>5. B # {}
    BY <2>2
  <2>6. QED
    BY <1>3, <1>7, <2>4, <2>5 DEF B
<1>8. QED
  BY <1>6, <1>7

\* Each call of the index is the one call of the set, or leaves the set and the
\* last reply as they are.
LEMMA SetStep ==
  IInv /\ [Next]_vars => [Set!Next]_<<{node[p].mkey : p \in Leaves}, reply>>
<1> SUFFICES ASSUME IInv, [Next]_vars
             PROVE  Set!Next \/ (Present' = Present /\ reply' = reply)
  BY DEF Present
<1>1. Present \subseteq Key /\ TrieOf(trie, Present)
  BY DEF IInv
<1>2. ASSUME NEW k \in Inserted, Insert(k)
      PROVE  Set!Next
  <2>1. Present' = Present \cup {k} /\ reply' = Reply("insert", k, k \notin Present)
    BY <1>2, InsertStep
  <2>2. Set!Insert(k)
    BY <2>1 DEF Set!Insert, Set!Reply, Reply, Present
  <2>3. QED
    BY <2>2 DEF Set!Next
<1>3. ASSUME NEW k \in Key, Exist(k)
      PROVE  Set!Next
  <2>1. Contains(trie, k) <=> k \in Present
    BY <1>1, ContainsFacts DEF TrieOf
  <2>2. Contains(trie, k) = (k \in Present)
    BY <2>1 DEF Contains
  <2>3. reply' = Reply("exist", k, k \in Present)
    BY <1>3, <2>2 DEF Exist
  <2>4. Present' = Present
    BY <1>3, TrieStays DEF Exist
  <2>5. Set!Exist(k)
    BY <2>3, <2>4 DEF Set!Exist, Set!Reply, Reply, Present
  <2>6. QED
    BY <2>5 DEF Set!Next
<1>4. ASSUME NEW k \in Key, LowerBound(k)
      PROVE  Set!Next
  <2>1. reply' = Reply("lower_bound", k, IF Set!NotBelow(Present, k) = {} THEN None
                                         ELSE Set!Min(Set!NotBelow(Present, k)))
    BY <1>4, LowerBoundStep
  <2>2. Present' = Present
    BY <1>4, TrieStays DEF LowerBound
  <2>3. Set!LowerBound(k)
    BY <2>1, <2>2 DEF Set!LowerBound, Set!Reply, Reply, Present
  <2>4. QED
    BY <2>3 DEF Set!Next
<1>5. ASSUME NEW k \in Asked, LowerBoundPromise(k)
      PROVE  Present' = Present /\ reply' = reply
  BY <1>5, TrieStays DEF LowerBoundPromise
<1>6. ASSUME ResolveHeld
      PROVE  Present' = Present /\ reply' = reply
  BY <1>6, TrieStays DEF ResolveHeld
<1>7. ASSUME UNCHANGED vars
      PROVE  Present' = Present /\ reply' = reply
  BY <1>7, TrieStays DEF vars
<1>8. QED
  BY <1>2, <1>3, <1>4, <1>5, <1>6, <1>7 DEF Next

\* The index is a sorted set: Insert says whether the key is new, Exist whether it
\* is there, and LowerBound finds the least key that is not below the value.
THEOREM ImplementsHolds == Spec => Implements
<1>1. Init => Set!Init
  <2>1. Init => Present = {} /\ reply = None
    BY InitHolds DEF Init
  <2>2. QED
    BY <2>1 DEF Set!Init, Present
<1>2. QED
  BY <1>1, SetStep, InvariantHolds, PTL DEF Spec, Implements, Set!Spec
=============================================================================
