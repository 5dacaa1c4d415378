----------------------------- MODULE SortedSet ------------------------------
(***************************************************************************)
(* What the comments on MlpSet's operations promise, one call at a time: a *)
(* set of keys that grows, and the reply of the last call.                 *)
(***************************************************************************)
EXTENDS Integers, FiniteSetsExt

CONSTANTS
  Key,       \* integers
  Inserted,  \* the keys that may be inserted
  None       \* "not found"

VARIABLES set, reply

Reply(op, k, r) == [op |-> op, key |-> k, result |-> r]
NotBelow(S, k) == {x \in S : x >= k}

Init == set = {} /\ reply = None

\* Insert an element; true if it was not there.
Insert(k) ==
  /\ reply' = Reply("insert", k, k \notin set)
  /\ set' = set \cup {k}

Exist(k) ==
  /\ reply' = Reply("exist", k, k \in set)
  /\ UNCHANGED set

\* The minimum value greater or equal, if there is one.
LowerBound(k) ==
  /\ reply' = Reply("lower_bound", k, IF NotBelow(set, k) = {} THEN None
                                      ELSE Min(NotBelow(set, k)))
  /\ UNCHANGED set

Next == \/ \E k \in Inserted : Insert(k)
        \/ \E k \in Key : Exist(k) \/ LowerBound(k)

Spec == Init /\ [][Next]_<<set, reply>>
=============================================================================
