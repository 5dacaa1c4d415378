-------------------------- MODULE SequentialIndex ---------------------------
(***************************************************************************)
(* MlpSet as one thread uses it (Origin): each call is one step on the     *)
(* trie.  In Global_lock, Insert, Exist and both LowerBounds hold a mutex  *)
(* from their first statement to their last, and are such steps too; the   *)
(* Resolve of a promise holds none, and may fall inside an Insert.  That   *)
(* is the subject of MlpGlobalLock.                                        *)
(***************************************************************************)
EXTENDS Trie

CONSTANTS
  Inserted,  \* keys that may be inserted
  Asked,     \* values for which LowerBound hands out its promise
  None       \* no reply yet, no lower bound, no promise

ASSUME InsertedAssumption == Inserted \subseteq Key /\ Asked \subseteq Key

VARIABLES
  flat,   \* m_root, m_treeDepth1, m_treeDepth2
  node,   \* the nodes in m_hashTable
  reply,  \* what the last call returned
  held    \* a promise that the thread holds, the value it is for, and the key it
          \* would have been resolved to at once

vars == <<flat, node, reply, held>>
trie == [flat |-> flat, node |-> node]

Reply(op, k, r) == [op |-> op, key |-> k, result |-> r]

Init == flat = EmptyTrie.flat /\ node = EmptyTrie.node
        /\ reply = None /\ held = None

Insert(k) ==
  /\ flat' = InsertInto(trie, k).flat
  /\ node' = InsertInto(trie, k).node
  /\ reply' = Reply("insert", k, ~(Prefix(k, TopLen) \in flat /\ Contains(trie, k)))
  /\ UNCHANGED held

Exist(k) ==
  /\ reply' = Reply("exist", k, Contains(trie, k))
  /\ UNCHANGED <<flat, node, held>>

LowerBound(k) ==
  LET p == LowerBoundInternal(trie, k)
  IN  /\ reply' = Reply("lower_bound", k, IF p = NoPromise THEN None
                                          ELSE Resolve(trie, p))
      /\ UNCHANGED <<flat, node, held>>

\* The other LowerBound returns the promise: the thread may insert before it
\* resolves it.
LowerBoundPromise(k) ==
  LET p == LowerBoundInternal(trie, k)
  IN  /\ held = None /\ p # NoPromise
      /\ held' = [key |-> k, first |-> Resolve(trie, p), promise |-> p]
      /\ UNCHANGED <<flat, node, reply>>

\* Resolve, another call of the same thread: no Insert is under way.
ResolveHeld ==
  /\ held # None
  /\ held' = None
  /\ UNCHANGED <<flat, node, reply>>

Next == \/ \E k \in Inserted : Insert(k)
        \/ \E k \in Key : Exist(k) \/ LowerBound(k)
        \/ \E k \in Asked : LowerBoundPromise(k)
        \/ ResolveHeld

Spec == Init /\ [][Next]_vars

-----------------------------------------------------------------------------
(* Properties. *)

\* Every variable has its type.
TypeOK ==
  /\ \A p \in flat : p[1] \in 1..(TopLen + 1) /\ p[2] \in 0..(Weight[p[1]] - 1)
  /\ \A p \in DOMAIN node :
       /\ p[1] \in Level /\ p[2] \in 0..(Weight[p[1]] - 1)
       /\ node[p].dlen \in p[1]..KeyLen /\ node[p].mkey \in Key
       /\ node[p].kids \subseteq Digit
  /\ reply = None \/ /\ reply.op \in {"insert", "exist", "lower_bound"}
                     /\ reply.key \in Key
  /\ held = None \/ (held.key \in Asked /\ held.first \in Key)

Leaves == {p \in DOMAIN node : node[p].dlen = KeyLen}
Below(p) == {q \in Leaves : Prefix(node[q].mkey, p[1]) = p}

\* The tree is that of its leaves, whatever the order of insertions: below the
\* flat levels a node's compressed string is common to all its leaves, it
\* branches at once after it, has a child for each branch, and knows the
\* smallest leaf.  LowerBound relies on each of these.
Canonical ==
  /\ \A p \in DOMAIN node \ Leaves :
       /\ node[p].mkey = Min({node[q].mkey : q \in Below(p)})
       /\ node[p].kids = {DigitAfter(node[q].mkey, node[p].dlen) : q \in Below(p)}
       /\ Cardinality(node[p].kids) >= 2
       /\ \A d \in node[p].kids :
            Child(Prefix(node[p].mkey, node[p].dlen), d) \in DOMAIN node
  /\ \A p \in DOMAIN node : Prefix(node[p].mkey, p[1]) = p
  /\ flat = UNION {{Prefix(node[q].mkey, n) : n \in 1..(TopLen + 1)} : q \in Leaves}

\* The index is a sorted set: the keys in the leaves are the set, and every
\* Insert, Exist and LowerBound replies what the set says, however deep the
\* search has to go and however far up the tree it has to turn back.
Set == INSTANCE SortedSet WITH set <- {node[p].mkey : p \in Leaves}
Implements == Set!Spec

\* Between two calls, a promise that names an index prefix is still good after
\* any insertions, with their splits and new minima: it would be resolved to a
\* key of the set, not below the value and not above the key that was its lower
\* bound when it was given.  This says nothing of a Resolve inside an Insert.
PromiseKeptBetweenCalls ==
  held # None /\ held.promise.kind = "lookup" =>
    LET r == Resolve(trie, held.promise)
    IN  r \in {node[p].mkey : p \in Leaves} /\ held.key <= r /\ r <= held.first
=============================================================================
