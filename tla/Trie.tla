-------------------------------- MODULE Trie --------------------------------
(***************************************************************************)
(* The path-compressed trie behind every version of the index, as the      *)
(* operations of MlpSet see it between two calls, or under a lock: which   *)
(* nodes there are, not which slots of the hash table they are in.         *)
(*                                                                         *)
(* A key is an unsigned integer of KeyLen digits, the most significant     *)
(* digit first.  A prefix is its length and its value.  A trie t has       *)
(*   t.flat  the prefixes whose bit is set in m_root, m_treeDepth1 and     *)
(*           m_treeDepth2, of 1 to TopLen+1 digits;                        *)
(*   t.node  the nodes in the hash table, by index prefix: full key        *)
(*           length, smallest key below, and children.                     *)
(***************************************************************************)
EXTENDS Digits, FiniteSets, FiniteSetsExt

CONSTANT
  TopLen  \* digits that the first two flat bitmaps know (2)

ASSUME LenAssumption == TopLen \in Nat \ {0} /\ TopLen + 2 <= KeyLen

Digit == 0..(Base - 1)
Level == (TopLen + 1)..KeyLen

\* The first n digits of k, and the digit after n digits.
Prefix(k, n) == <<n, k \div Weight[KeyLen - n]>>
\* A variant of DigitAfter that does not mask the digits before.
DigitAfterUnmasked(k, n) == k \div Weight[KeyLen - n - 1]
DigitAfter(k, n) == (k \div Weight[KeyLen - n - 1]) % Base
\* A prefix and one digit more.
Child(p, d) == <<p[1] + 1, p[2] * Base + d>>
\* The keys with the prefix p begin here.
FirstKey(p) == p[2] * Weight[KeyLen - p[1]]

LCP(a, b) == Max({n \in 0..KeyLen : Prefix(a, n) = Prefix(b, n)})

EmptyTrie == [flat |-> {}, node |-> <<>>]
Has(t, p) == p \in DOMAIN t.node

-----------------------------------------------------------------------------
(* QueryLCP: the deepest node on the path of k and how far its smallest key  *)
(* agrees with k.                                                            *)

PathLevels(t, k) == {l \in Level : Has(t, Prefix(k, l))}

QueryLCP(t, k) ==
  IF PathLevels(t, k) = {} THEN [ilen |-> 0, lcp |-> TopLen]
  ELSE LET l == Max(PathLevels(t, k))
       IN  [ilen |-> l, lcp |-> LCP(k, t.node[Prefix(k, l)].mkey)]

\* Exist: the whole key agrees.
Contains(t, k) == QueryLCP(t, k).lcp = KeyLen

-----------------------------------------------------------------------------
(* Insert. *)

Leaf(k) == [dlen |-> KeyLen, mkey |-> k, kids |-> {}]
SetNode(f, p, n) == [q \in DOMAIN f \cup {p} |-> IF q = p THEN n ELSE f[q]]
Lower(a, b) == IF a < b THEN a ELSE b

\* AddChild at a node whose compressed string matches.
AddedChild(f, p, k) ==
  [f EXCEPT ![p].kids = @ \cup {DigitAfter(k, f[p].dlen)},
            ![p].mkey = Lower(k, @)]

\* The node at p is split after n digits: what it was becomes a node with a
\* longer index, and p gets two children.
SplitNode(f, p, n, k) ==
  LET old == f[p].mkey
      upper == [dlen |-> n, mkey |-> Lower(k, old),
                kids |-> {DigitAfter(old, n), DigitAfter(k, n)}]
  IN  SetNode(SetNode(f, Prefix(old, n + 1), f[p]), p, upper)

\* The levels above l whose node takes k for its smallest key: up the path to
\* the first node that has a smaller one.
Lowered(f, k, l) ==
  {m \in (TopLen + 1)..(l - 1) :
     /\ Prefix(k, m) \in DOMAIN f
     /\ \A i \in m..(l - 1) : Prefix(k, i) \in DOMAIN f => k < f[Prefix(k, i)].mkey}

\* A variant of PushUp that tells only the node's parent.
PushUpOnce(f, k, l) ==
  IF Lowered(f, k, l) = {} THEN f
  ELSE [f EXCEPT ![Prefix(k, Max(Lowered(f, k, l)))].mkey = k]

PushUp(f, k, l) ==
  [p \in DOMAIN f |-> IF \E m \in Lowered(f, k, l) : p = Prefix(k, m)
                      THEN [f[p] EXCEPT !.mkey = k] ELSE f[p]]

\* A node on the path is extended or split; smaller keys go up the path.
WithPath(f, k, q) ==
  LET p == Prefix(k, q.ilen)
      g == IF q.lcp = f[p].dlen THEN AddedChild(f, p, k)
           ELSE SplitNode(f, p, q.lcp, k)
  IN  IF k < f[p].mkey THEN PushUp(g, k, q.ilen) ELSE g

\* The first two bitmaps get their bits when the second does not know the key,
\* the third when no node does.
FlatBits(t, k, lcp) ==
  {Prefix(k, n) : n \in (IF Prefix(k, TopLen) \in t.flat THEN {} ELSE 1..TopLen)
                          \cup (IF lcp = TopLen THEN {TopLen + 1} ELSE {})}

InsertInto(t, k) ==
  LET q == IF Prefix(k, TopLen) \in t.flat THEN QueryLCP(t, k)
           ELSE [ilen |-> 0, lcp |-> TopLen]
      f == IF q.lcp > TopLen THEN WithPath(t.node, k, q) ELSE t.node
  IN  IF q.lcp = KeyLen THEN t
      ELSE [flat |-> t.flat \cup FlatBits(t, k, q.lcp),
            node |-> SetNode(f, Prefix(k, q.lcp + 1), Leaf(k))]

-----------------------------------------------------------------------------
(* LowerBoundInternal.  Its promise names a slot (here the node in it), or   *)
(* the index prefix of a node that must exist.                               *)

NoPromise == [kind |-> "none"]
Direct(p) == [kind |-> "direct", node |-> p]
Lookup(p) == [kind |-> "lookup", node |-> p]

\* LowerBoundChild: the children of a node from d on.
Children(t, p, d) == {c \in t.node[p].kids : c >= d}

\* A variant of Beyond that looks from the key's own child on.
BeyondFrom(t, k, l) ==
  LET n == t.node[Prefix(k, l)].dlen
  IN  Children(t, Prefix(k, l), DigitAfter(k, n))

\* The children of the node at level l of the path of k beyond k's own.
Beyond(t, k, l) ==
  LET n == t.node[Prefix(k, l)].dlen
  IN  Children(t, Prefix(k, l), DigitAfter(k, n) + 1)

\* The siblings of Prefix(k, n) beyond it in the bitmap of level n.
FlatBeyond(t, k, n) ==
  {p \in t.flat : p[1] = n /\ p[2] > Prefix(k, n)[2]
                  /\ p[2] \div Base = Prefix(k, n - 1)[2]}
FlatFirst(S) == CHOOSE p \in S : \A q \in S : p[2] <= q[2]
\* First child after first child, from p down to the last flat level.
Descend(F, p) ==
  LET down[n \in Nat] ==
        IF n <= p[1] THEN p
        ELSE LET above == down[n - 1]
             IN  FlatFirst({q \in F : q[1] = n /\ q[2] \div Base = above[2]})
  IN  down[TopLen + 1]

FlatMapping(t, k) ==
  LET up == {n \in 1..(TopLen + 1) : FlatBeyond(t, k, n) # {}}
  IN  IF up = {} THEN NoPromise
      ELSE Lookup(Descend(t.flat, FlatFirst(FlatBeyond(t, k, Max(up)))))

\* The way up: the first level above l whose node has a child beyond k's.
ParentPath(t, k, l) ==
  LET up == {m \in PathLevels(t, k) : m < l /\ Beyond(t, k, m) # {}}
  IN  IF up = {} THEN FlatMapping(t, k)
      ELSE LET p == Prefix(k, Max(up))
               n == t.node[p].dlen
           IN  Lookup(Child(Prefix(k, n), Min(Beyond(t, k, Max(up)))))

LowerBoundInternal(t, k) ==
  LET q == QueryLCP(t, k)
      p == Prefix(k, q.ilen)
      below == Children(t, p, DigitAfter(k, q.lcp))
  IN  CASE q.lcp = TopLen -> FlatMapping(t, k)
        [] q.lcp = KeyLen -> Direct(p)
        [] OTHER ->
             IF t.node[p].dlen = q.lcp
             THEN IF below # {} THEN Lookup(Child(Prefix(k, q.lcp), Min(below)))
                  ELSE ParentPath(t, k, q.ilen)
             ELSE IF k < t.node[p].mkey THEN Direct(p)
             ELSE ParentPath(t, k, q.ilen)

\* Promise::Resolve, when nothing has happened since.
Resolve(t, promise) == t.node[promise.node].mkey

=============================================================================
