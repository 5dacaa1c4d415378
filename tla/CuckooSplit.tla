----------------------------- MODULE CuckooSplit -----------------------------
(***************************************************************************)
(* What MlpSet does to the hash table beside inserting leaves and adding   *)
(* children: it splits a node, and InsertPerfectRange deletes leaves.      *)
(*                                                                         *)
(* A split reserves a slot for the lower part of the node, moves the node, *)
(* perhaps with its bitmap, into it, alters its index length there, and    *)
(* makes the upper part where the node was.  The reservation may have      *)
(* displaced other nodes, and relocated the bitmap of the node being split.*)
(* That it displaces this node itself is left to MlpGlobalLock; that a     *)
(* displacement gives up, to CuckooTable and MlpVersioned.                 *)
(***************************************************************************)
EXTENDS CuckooTable

CONSTANTS
  Deeper,  \* [Prefix -> SUBSET Prefix]: what the lower part of a node may have
  NoSplit  \* no split is under way

ASSUME DeeperAssumption == Deeper \in [Prefix -> SUBSET Prefix]

VARIABLE
  split  \* the split under way: its step; pos, the node as it was, low, x as in
         \* the code; its two children; before, the children of all nodes

splitVars == <<vars, split>>

-----------------------------------------------------------------------------
Nodes == {s \in Slot : IsNode(ht, s)}
At(p) == CHOOSE s \in Nodes : ht[s].key = p

\* The node at s is to be split: c is the byte of its minKey, d that of the value.
BeginSplit(s, q, c, d) ==
  /\ phase = "idle" /\ split = NoSplit
  /\ s \in Nodes /\ c # d
  /\ q \in Deeper[ht[s].key] \ {ht[n].key : n \in Nodes}
  /\ split' = [step |-> "reserve", pos |-> s, cell |-> ht[s], low |-> q, x |-> s,
               first |-> c, second |-> d,
               before |-> [p \in {ht[n].key : n \in Nodes} |-> Children(ht, At(p))]]
  /\ UNCHANGED vars

In(step) == split # NoSplit /\ split.step = step
Go(step) == split' = [split EXCEPT !.step = step]

\* ReservePositionForInsert, when a position is free, and when none is.
ReserveFree ==
  /\ In("reserve")
  /\ \E s \in {H1[split.low], H2[split.low]} :
       /\ ~IsOccupied(ht, s)
       /\ IsOccupied(ht, H1[split.low]) \/ s = H1[split.low]
       /\ split' = [split EXCEPT !.step = "move", !.x = s]
  /\ UNCHANGED vars

ReserveDisplacing ==
  /\ In("reserve")
  /\ \A s \in {H1[split.low], H2[split.low]} : IsOccupied(ht, s)
  /\ \E v \in {H1[split.low], H2[split.low]} : chain' = <<v>>
  /\ phase' = "descend"
  /\ req' = NodeCell(split.low, 0, {})
  /\ Go("displace")
  /\ UNCHANGED <<ht, hole>>

Reserved ==
  /\ In("displace") /\ phase = "unwind" /\ chain = <<>>
  /\ split' = [split EXCEPT !.step = "move", !.x = hole]
  /\ phase' = "idle" /\ req' = FreeCell /\ hole' = 0
  /\ UNCHANGED <<ht, chain>>

\* A variant of MoveReserved that moves the node as it was before the reservation.
MoveReservedNoted ==
  /\ In("move")
  /\ ht' = [MoveNode([ht EXCEPT ![split.pos] = split.cell], split.pos, split.x)
              EXCEPT ![split.x].key = split.low]
  /\ Go("init")
  /\ UNCHANGED <<phase, chain, hole, req>>

\* MoveNode, AlterIndexKeyLen and AlterHash18bit.
MoveReserved ==
  /\ In("move")
  /\ ht' = [MoveNode(ht, split.pos, split.x) EXCEPT ![split.x].key = split.low]
  /\ Go("init")
  /\ UNCHANGED <<phase, chain, hole, req>>

\* Node::Init of the upper part, under the prefix that the node had.
InitUpper ==
  /\ In("init")
  /\ ht' = [ht EXCEPT ![split.pos] = NodeCell(split.cell.key, 0, {split.first})]
  /\ Go("add")
  /\ UNCHANGED <<phase, chain, hole, req>>

AddSecond == In("add") /\ AddChild(split.pos, split.second) /\ Go("check")

\* "Sanity check newly added nodes", in a debug build.
EndSplit == In("check") /\ split' = NoSplit /\ UNCHANGED vars

\* InsertPerfectRange clears the hash words of the leaves of a range's bounds.
DeleteLeaf(s) ==
  /\ phase = "idle" /\ split = NoSplit
  /\ s \in Nodes /\ Children(ht, s) = {}
  /\ ht' = [ht EXCEPT ![s] = FreeCell]
  /\ UNCHANGED <<phase, chain, hole, req, split>>

\* The calls of CuckooTable: Insert puts in leaves.
Call == \/ \E p \in Prefix : InsertFree(p, {}) \/ InsertDisplacing(p, {})
        \/ \E s \in Position, c \in Byte : AddChild(s, c)
        \/ InitReserved

InitS == Init /\ split = NoSplit
NextS ==
  \/ split = NoSplit /\ Call /\ UNCHANGED split
  \/ (Descend \/ MoveVictim \/ RelocateVictim \/ Unwind) /\ UNCHANGED split
  \/ \E s \in Position, q \in Prefix, c, d \in Byte : BeginSplit(s, q, c, d)
  \/ ReserveFree \/ ReserveDisplacing \/ Reserved
  \/ MoveReserved \/ InitUpper \/ AddSecond \/ EndSplit
  \/ \E s \in Position : DeleteLeaf(s)

SpecS == InitS /\ [][NextS]_splitVars

-----------------------------------------------------------------------------
(* Properties. *)

\* p has one node, where Lookup looks for it, with the children K.
Has(p, K) == \E s \in {H1[p], H2[p]} : /\ {n \in Nodes : ht[n].key = p} = {s}
                                       /\ Children(ht, s) = K

\* A split loses nothing: at each of its steps the children of the node are those
\* of the node or, once it has moved, of its lower part, wherever its bitmap has
\* been relocated to, and all other nodes have theirs, though the reservation
\* displaced them; the slot to be rebuilt has been left free, and the upper part
\* has its two children in the end (the assertions after the split, which
\* -DNDEBUG removes).
SplitKept ==
  split # NoSplit =>
    LET p == split.cell.key
        moved == split.step \in {"init", "add", "check"}
    IN  /\ \A q \in DOMAIN split.before \ {p} : Has(q, split.before[q])
        /\ Has(IF moved THEN split.low ELSE p, split.before[p])
        /\ split.step = "init" => ~IsOccupied(ht, split.pos)
        /\ split.step = "add" => Has(p, {split.first})
        /\ split.step = "check" => Has(p, {split.first, split.second})
=============================================================================
