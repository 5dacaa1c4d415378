---------------------------- MODULE RangedIndex -----------------------------
(***************************************************************************)
(* MlpSet::InsertRange: a range is cut into perfect ranges                 *)
(* (RangeDecomposition), which are put into the trie one after the other.  *)
(* The lock of InsertRange is held meanwhile, but Exist and LowerBound     *)
(* take no lock: what they would answer is looked at in every state.       *)
(***************************************************************************)
EXTENDS RangedTrie, Sequences

CONSTANTS
  Ranges,  \* the ranges that may be inserted, as <<low, high>>
  None     \* no lower bound

VARIABLES
  phase, low, high, job, out, rootExists,  \* see RangeDecomposition
  flat, node,                              \* the trie
  next,                                    \* the perfect range that is to come
  given                                    \* the keys of the ranges inserted

cutting == <<phase, low, high, job, out, rootExists>>
vars == <<cutting, flat, node, next, given>>
trie == [flat |-> flat, node |-> node]

RD == INSTANCE RangeDecomposition

Aligned(l, h) == l % Base = 0 /\ (h + 1) % Base = 0
ASSUME RangesAssumption ==
  \A r \in Ranges : /\ r[1] \in Key /\ r[2] \in Key
                    /\ r[1] = r[2] \/ (r[1] < r[2] /\ Aligned(r[1], r[2]))

Init == RD!Init /\ flat = {} /\ node = <<>> /\ next = 1 /\ given = {}

\* The lock is free.
Idle == phase = "idle" /\ next > Len(out)

SetTrie(t) == flat' = t.flat /\ node' = t.node

\* InsertRange of a single key.
InsertKey(k) ==
  /\ Idle
  /\ SetTrie(InsertInto(trie, k))
  /\ given' = given \cup {k}
  /\ UNCHANGED <<cutting, next>>

BeginRange(l, h) ==
  /\ Idle
  /\ RD!Begin(l, h)
  /\ next' = 1
  /\ given' = given \cup l..h
  /\ UNCHANGED <<flat, node>>

HandleRange == (RD!Split \/ RD!End) /\ UNCHANGED <<flat, node, next, given>>

InsertPerfectRange ==
  /\ phase = "idle" /\ next <= Len(out)
  /\ SetTrie(InsertPerfect(trie, out[next].lo, out[next].hi))
  /\ next' = next + 1
  /\ UNCHANGED <<cutting, given>>

\* As InsertPerfectRange assumes, no key of the range is there already.
InsertRange(r) ==
  /\ r[1]..r[2] \cap given = {}
  /\ IF r[1] = r[2] THEN InsertKey(r[1]) ELSE BeginRange(r[1], r[2])

Next == (\E r \in Ranges : InsertRange(r)) \/ HandleRange \/ InsertPerfectRange
Spec == Init /\ [][Next]_vars

\* Keys of ranges that are there already are inserted too.
NextOverlapping ==
  \/ \E r \in Ranges : r[1] = r[2] /\ InsertKey(r[1])
  \/ Next
SpecOverlapping == Init /\ [][NextOverlapping]_vars

-----------------------------------------------------------------------------
(* Properties. *)

\* Every variable has its type.
TypeOK ==
  /\ RD!TypeOK
  /\ \A p \in flat : p[1] \in 1..(TopLen + 1) /\ p[2] \in 0..(Weight[p[1]] - 1)
  /\ \A p \in DOMAIN node :
       /\ p[1] \in Level /\ p[2] \in 0..(Weight[p[1]] - 1)
       /\ node[p].dlen \in p[1]..KeyLen /\ node[p].mkey \in Key
       /\ node[p].kids \subseteq Digit
  /\ next \in 1..(Len(out) + 1) /\ given \subseteq Key

\* The perfect ranges that are still to come.
Pending ==
  IF Idle THEN {}
  ELSE IF phase = "split" THEN low..high
  ELSE UNION {out[i].lo..out[i].hi : i \in next..Len(out)}

There == given \ Pending
Found == {k \in Key : Exists(trie, k)}

\* Exist finds exactly the keys of the ranges, those under way only as far as
\* they have been put in, however ranges and keys share nodes and split them.
ExistExact == Found = There

\* It does as long as every perfect range for the flat bitmaps has only zeros before
\* the digit in which it splits: TopBits names the bits by that digit and those
\* after it alone.
ZeroBefore(lo, hi) ==
  LET s == SplitIndex(lo, hi) IN s <= TopLen => lo < Weight[KeyLen - s]
ZeroDigitsBefore == \A i \in 1..Len(out) : ZeroBefore(out[i].lo, out[i].hi)

\* What is found once is found for ever, whatever is inserted after it.
NothingLost == [][Found \subseteq Found']_vars

LowerBoundOf(k) == RangeLowerBound(trie, k, None)

\* A key of a range in the flat bitmaps: LowerBound looks beyond it at once.
InFlatRange(k) == QueryLCP(trie, k).lcp = TopLen /\ CoveredByTop(trie, k)

\* Asked for any other value, LowerBound answers with a key that is there and
\* not smaller, and it answers whenever there is one.
LowerBoundBelongs ==
  \A k \in Key : ~InFlatRange(k) =>
    LET bound == LowerBoundOf(k)
    IN  IF \E l \in There : l >= k THEN bound \in There /\ bound >= k
        ELSE bound = None

\* Any other key that is there is its own lower bound.
LowerBoundFindsKeys == \A k \in There : ~InFlatRange(k) => LowerBoundOf(k) = k

\* The same for the keys of ranges in the flat bitmaps as well.
LowerBoundFindsEveryKey == \A k \in There : LowerBoundOf(k) = k

\* It answers with the smallest of these, as the comment on LowerBound says.
LowerBoundMinimum ==
  \A k \in Key :
    LowerBoundOf(k) # None => \A l \in There : l >= k => LowerBoundOf(k) <= l
=============================================================================
