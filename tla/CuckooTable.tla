----------------------------- MODULE CuckooTable -----------------------------
(***************************************************************************)
(* The cuckoo hash table of the MLP index, as one caller sees it while it  *)
(* holds the writers' lock: class CuckooHashTable and the slot operations  *)
(* of CuckooHashTableNode.                                                 *)
(*                                                                         *)
(* A slot of the table is free, holds a tree node, or holds the part of a  *)
(* node's child bitmap that does not fit in the node.  A node sits at one  *)
(* of the two positions its index prefix hashes to; a bitmap sits at most  *)
(* three slots away from its node.  Bitmaps therefore fill positions that  *)
(* other nodes hash to, and a cuckoo displacement has to push both kinds   *)
(* out of the way.  HashTableCuckooDisplacement is recursive; here its     *)
(* stack of victims is the variable chain, and each return of a recursive  *)
(* call is an action.                                                      *)
(*                                                                         *)
(* Slot versions and concurrent readers are left to MlpVersioned.          *)
(***************************************************************************)
EXTENDS Integers, Sequences, FiniteSets

CONSTANTS
  Prefix,       \* index prefixes (an index length and that many key bytes)
  NoPrefix,     \* the prefix of a slot that is not a node
  Mask,         \* htMask: nodes hash to the positions 0..Mask
  H1, H2,       \* XXHashFn1 and XXHashFn2, masked: [Prefix -> 0..Mask]
  Byte,         \* child bytes (0..255)
  LowByte,      \* the bytes whose bit stays in the node (0..63, 94, 95)
  MaxInternal,  \* children an internal child map holds (8)
  MaxRounds     \* depth at which a displacement gives up (1000)

Position == 0..Mask
Reach == 3      \* how far from its node a bitmap may be
Slot == (0 - Reach)..(Mask + Reach)

ASSUME MaskAssumption == Mask \in Nat
ASSUME HashAssumption == /\ H1 \in [Prefix -> Position]
                         /\ H2 \in [Prefix -> Position]
ASSUME PrefixAssumption == NoPrefix \notin Prefix
ASSUME ByteAssumption == LowByte \subseteq Byte
ASSUME BoundAssumption == /\ MaxInternal \in Nat \ {0}
                          /\ MaxRounds \in Nat \ {0}

VARIABLES
  ht,      \* the slots
  phase,   \* where the current call is: "idle", "descend", "unwind"
  chain,   \* victims of the displacement calls on the stack, first call first
  hole,    \* the slot that the displacement call that returned last has freed
  req      \* the node the current call is going to put into the table

vars == <<ht, phase, chain, hole, req>>

-----------------------------------------------------------------------------
(* Slots.  off is the 3-bit field of the hash word: 0 for an internal child *)
(* map, 4 for a bitmap behind a pointer, else the bitmap is off - 4 slots   *)
(* away.  kids are the children stored in the slot itself; those behind a   *)
(* pointer belong to the node alone and are counted with it.                *)

Cell == [occ : {"free", "node", "bitmap"}, key : Prefix \cup {NoPrefix},
         off : 0..7, kids : SUBSET Byte]

FreeCell == [occ |-> "free", key |-> NoPrefix, off |-> 0, kids |-> {}]
NodeCell(p, o, K) == [occ |-> "node", key |-> p, off |-> o, kids |-> K]
BitmapCell(K) == [occ |-> "bitmap", key |-> NoPrefix, off |-> 0, kids |-> K]

IsOccupied(t, s) == t[s].occ # "free"
IsNode(t, s) == t[s].occ = "node"
HasNeighbourBitmap(t, s) == IsNode(t, s) /\ t[s].off \notin {0, 4}
BitmapSlot(t, s) == s + t[s].off - 4

\* The children of the node at s, wherever they are stored.
Children(t, s) ==
  t[s].kids \cup (IF HasNeighbourBitmap(t, s)
                  THEN t[BitmapSlot(t, s)].kids ELSE {})

\* The order in which FindNeighboringEmptySlot probes: both branches of the
\* code start with 1 and -1.
Probe == <<1, -1, 2, -2, 3, -3>>

EmptyProbes(t, s) == {i \in 1..6 : ~IsOccupied(t, s + Probe[i])}

\* The distance of the first empty neighbour, 0 when there is none.
FindNeighboringEmptySlot(t, s) ==
  IF EmptyProbes(t, s) = {} THEN 0
  ELSE Probe[CHOOSE i \in EmptyProbes(t, s) :
               \A j \in EmptyProbes(t, s) : i <= j]

\* Put the node c, whose bitmap is now in slot b, at s: the bitmap goes to a
\* free neighbour of s, or behind a pointer when there is none.
PlaceWithBitmap(t, s, c, b) ==
  LET d == FindNeighboringEmptySlot([t EXCEPT ![s] = c], s)
  IN  IF d = 0
      THEN [t EXCEPT ![s] = NodeCell(c.key, 4, c.kids \cup t[b].kids)]
      ELSE [t EXCEPT ![s] = NodeCell(c.key, d + 4, c.kids), ![s + d] = t[b]]

\* Variants of MoveNode that forget a memset: of the old node, of its bitmap.
MoveNodeKeepsNode(t, s, d) ==
  IF HasNeighbourBitmap(t, s)
  THEN [PlaceWithBitmap(t, d, t[s], BitmapSlot(t, s))
          EXCEPT ![BitmapSlot(t, s)] = FreeCell]
  ELSE [t EXCEPT ![d] = t[s]]
MoveNodeKeepsBitmap(t, s, d) ==
  IF HasNeighbourBitmap(t, s)
  THEN [PlaceWithBitmap(t, d, t[s], BitmapSlot(t, s)) EXCEPT ![s] = FreeCell]
  ELSE [t EXCEPT ![d] = t[s], ![s] = FreeCell]

\* MoveNode: copy the node and its bitmap, then clear both old slots.
MoveNode(t, s, d) ==
  IF HasNeighbourBitmap(t, s)
  THEN [PlaceWithBitmap(t, d, t[s], BitmapSlot(t, s))
          EXCEPT ![s] = FreeCell, ![BitmapSlot(t, s)] = FreeCell]
  ELSE [t EXCEPT ![d] = t[s], ![s] = FreeCell]

\* A variant of RelocateBitMap that does not clear the old place.
RelocateBitMapCopies(t, s) == PlaceWithBitmap(t, s, t[s], BitmapSlot(t, s))

\* RelocateBitMap: move the bitmap of the node at s to another neighbour.
RelocateBitMap(t, s) ==
  [PlaceWithBitmap(t, s, t[s], BitmapSlot(t, s))
     EXCEPT ![BitmapSlot(t, s)] = FreeCell]

\* Variants of ExtendToBitMap: the bias of the offset is added twice; the part
\* of the map that does not fit in the node is lost when no slot is empty.
ExtendToBitMapBiased(t, s) ==
  LET d == FindNeighboringEmptySlot(t, s)
  IN  IF d = 0
      THEN [t EXCEPT ![s] = NodeCell(t[s].key, 4, t[s].kids)]
      ELSE [t EXCEPT ![s] = NodeCell(t[s].key, d + 8, t[s].kids \cap LowByte),
                     ![s + d] = BitmapCell(t[s].kids \ LowByte)]
ExtendToBitMapTruncates(t, s) ==
  LET d == FindNeighboringEmptySlot(t, s)
  IN  IF d = 0
      THEN [t EXCEPT ![s] = NodeCell(t[s].key, 4, t[s].kids \cap LowByte)]
      ELSE [t EXCEPT ![s] = NodeCell(t[s].key, d + 4, t[s].kids \cap LowByte),
                     ![s + d] = BitmapCell(t[s].kids \ LowByte)]

\* ExtendToBitMap: the internal child map of the node at s becomes a bitmap.
ExtendToBitMap(t, s) ==
  LET d == FindNeighboringEmptySlot(t, s)
      p == t[s].key
      K == t[s].kids
  IN  IF d = 0
      THEN [t EXCEPT ![s] = NodeCell(p, 4, K)]
      ELSE [t EXCEPT ![s] = NodeCell(p, d + 4, K \cap LowByte),
                     ![s + d] = BitmapCell(K \ LowByte)]

\* BitMapSet: set a bit of the bitmap of the node at s.
BitMapSet(t, s, c) ==
  IF HasNeighbourBitmap(t, s) /\ c \notin LowByte
  THEN [t EXCEPT ![BitmapSlot(t, s)] = BitmapCell(@.kids \cup {c})]
  ELSE [t EXCEPT ![s] = NodeCell(@.key, @.off, @.kids \cup {c})]

-----------------------------------------------------------------------------
(* The operations. *)

FoundAt(t, p, s) == IsNode(t, s) /\ t[s].key = p

\* The position other than v that the node at v may move to.
Other(t, v) == IF H1[t[v].key] = v THEN H2[t[v].key] ELSE H1[t[v].key]

Init ==
  /\ ht = [s \in Slot |-> FreeCell]
  /\ phase = "idle"
  /\ chain = <<>>
  /\ hole = 0
  /\ req = FreeCell

\* Insert a node when one of its positions is free, the first one first.
InsertFree(p, K) ==
  /\ phase = "idle"
  /\ \A s \in {H1[p], H2[p]} : ~FoundAt(ht, p, s)
  /\ \E s \in {H1[p], H2[p]} :
       /\ ~IsOccupied(ht, s)
       /\ IsOccupied(ht, H1[p]) \/ s = H1[p]
       /\ ht' = [ht EXCEPT ![s] = NodeCell(p, 0, K)]
  /\ UNCHANGED <<phase, chain, hole, req>>

\* Insert a node when both are taken: a coin toss picks the first victim.
InsertDisplacing(p, K) ==
  /\ phase = "idle"
  /\ \A s \in {H1[p], H2[p]} : ~FoundAt(ht, p, s) /\ IsOccupied(ht, s)
  /\ \E v \in {H1[p], H2[p]} : chain' = <<v>>
  /\ phase' = "descend"
  /\ req' = NodeCell(p, 0, K)
  /\ UNCHANGED <<ht, hole>>

Victim == chain[Len(chain)]

\* The call on the top of the stack returns having freed its victim.
Return(v) ==
  /\ chain' = SubSeq(chain, 1, Len(chain) - 1)
  /\ hole' = v
  /\ phase' = "unwind"
  /\ UNCHANGED req

\* The victim is a node whose other position is taken: displace that first.
Descend ==
  /\ phase = "descend"
  /\ IsNode(ht, Victim)
  /\ IsOccupied(ht, Other(ht, Victim))
  /\ Len(chain) < MaxRounds
  /\ chain' = Append(chain, Other(ht, Victim))
  /\ UNCHANGED <<ht, phase, hole, req>>

\* A variant of GiveUp that starts over instead of failing.
GiveUpRetries ==
  /\ phase = "descend"
  /\ IsNode(ht, Victim)
  /\ IsOccupied(ht, Other(ht, Victim))
  /\ Len(chain) = MaxRounds
  /\ chain' = <<chain[1]>>
  /\ UNCHANGED <<ht, phase, hole, req>>

\* Too deep: every call on the stack returns at once, nothing has moved.
GiveUp ==
  /\ phase = "descend"
  /\ IsNode(ht, Victim)
  /\ IsOccupied(ht, Other(ht, Victim))
  /\ Len(chain) = MaxRounds
  /\ chain' = <<>>
  /\ phase' = "idle"
  /\ req' = FreeCell
  /\ UNCHANGED <<ht, hole>>

\* The victim is a node whose other position is free: move it there.
MoveVictim ==
  /\ phase = "descend"
  /\ IsNode(ht, Victim)
  /\ ~IsOccupied(ht, Other(ht, Victim))
  /\ ht' = MoveNode(ht, Victim, Other(ht, Victim))
  /\ Return(Victim)

\* The victim is a bitmap: find the node it belongs to, move it elsewhere.
Owner(t, b) ==
  CHOOSE s \in Slot : HasNeighbourBitmap(t, s) /\ BitmapSlot(t, s) = b

RelocateVictim ==
  /\ phase = "descend"
  /\ IsOccupied(ht, Victim) /\ ~IsNode(ht, Victim)
  /\ ht' = RelocateBitMap(ht, Owner(ht, Victim))
  /\ Return(Victim)

\* A variant of Unwind that moves the first victim instead of the last one.
UnwindFirst ==
  /\ phase = "unwind"
  /\ chain # <<>>
  /\ ht' = MoveNode(ht, chain[1], hole)
  /\ Return(Victim)

\* A recursive call has returned: its victim's slot is the destination.
Unwind ==
  /\ phase = "unwind"
  /\ chain # <<>>
  /\ ht' = MoveNode(ht, Victim, hole)
  /\ Return(Victim)

\* The first displacement call has returned: the new node is initialised.
InitReserved ==
  /\ phase = "unwind"
  /\ chain = <<>>
  /\ ht' = [ht EXCEPT ![hole] = req]
  /\ phase' = "idle"
  /\ req' = FreeCell
  /\ hole' = 0
  /\ UNCHANGED chain

\* Add a child to a node that is not a leaf and does not have it yet.
AddChild(s, c) ==
  /\ phase = "idle"
  /\ IsNode(ht, s)
  /\ Children(ht, s) # {} /\ c \notin Children(ht, s)
  /\ ht' = IF ht[s].off = 0 /\ Cardinality(ht[s].kids) < MaxInternal
           THEN [ht EXCEPT ![s] = NodeCell(@.key, 0, @.kids \cup {c})]
           ELSE BitMapSet(IF ht[s].off = 0 THEN ExtendToBitMap(ht, s) ELSE ht,
                          s, c)
  /\ UNCHANGED <<phase, chain, hole, req>>

\* A leaf has no children; any other node is created with one.
FirstChildren == {{}} \cup {{c} : c \in Byte}

Next ==
  \/ \E p \in Prefix, K \in FirstChildren :
       InsertFree(p, K) \/ InsertDisplacing(p, K)
  \/ \E s \in Position, c \in Byte : AddChild(s, c)
  \/ Descend \/ GiveUp \/ MoveVictim \/ RelocateVictim
  \/ Unwind \/ InitReserved

Spec == Init /\ [][Next]_vars

\* The holder of the lock runs its call to the end.
Displace == Descend \/ GiveUp \/ MoveVictim \/ RelocateVictim
              \/ Unwind \/ InitReserved
FairSpec == Spec /\ WF_vars(Displace)

-----------------------------------------------------------------------------
(* Properties. *)

\* Every variable has its type.
TypeOK ==
  /\ ht \in [Slot -> Cell]
  /\ phase \in {"idle", "descend", "unwind"}
  /\ chain \in Seq(Position)
  /\ hole \in Position
  /\ req \in Cell

\* Lookup probes two positions only, so a node must never be anywhere else,
\* at any moment of a displacement (the second assertion of
\* HashTableCuckooDisplacement, h2 == victimPosition, is this one).
Placement ==
  \A s \in Slot : IsNode(ht, s) => s \in {H1[ht[s].key], H2[ht[s].key]}

\* A prefix has one node: the lookup returns the first of the two positions
\* that matches, so a second copy would hide half of a subtree.
UniqueNode ==
  \A s, d \in Slot :
    IsNode(ht, s) /\ IsNode(ht, d) /\ ht[s].key = ht[d].key => s = d

\* A node that keeps its bitmap in a neighbouring slot really has it there,
\* shares it with no other node, and no bitmap slot is orphaned: moving and
\* relocating, which follow and rewrite the offsets, get this right.
BitmapsOwned ==
  /\ \A s \in Slot : HasNeighbourBitmap(ht, s) =>
       BitmapSlot(ht, s) \in Slot /\ ht[BitmapSlot(ht, s)].occ = "bitmap"
  /\ \A s, d \in Slot :
       HasNeighbourBitmap(ht, s) /\ HasNeighbourBitmap(ht, d)
         /\ BitmapSlot(ht, s) = BitmapSlot(ht, d) => s = d
  /\ \A b \in Slot : ht[b].occ = "bitmap" =>
       \E s \in Slot : HasNeighbourBitmap(ht, s) /\ BitmapSlot(ht, s) = b

\* When a recursive displacement returns, the slot it was asked to free is
\* free and is the other position of the caller's victim, although the calls
\* below may have moved bitmaps around (the assertions after the recursive
\* call, at the end of HashTableCuckooDisplacement, and in
\* ReservePositionForInsert after the first call).
UnwindTargetFree ==
  phase = "unwind" =>
    /\ ~IsOccupied(ht, hole)
    /\ chain # <<>> => IsNode(ht, Victim) /\ Other(ht, Victim) = hole
    /\ chain = <<>> => hole \in {H1[req.key], H2[req.key]}

\* No step loses a node or one of its children; a displacement moves nodes
\* and bitmaps but leaves every node with exactly the children it had.
NodesKept ==
  [][\A s \in Slot : IsNode(ht, s) =>
       \E d \in Slot :
         /\ FoundAt(ht', ht[s].key, d)
         /\ Children(ht, s) \subseteq Children(ht', d)
         /\ phase # "idle" => Children(ht', d) = Children(ht, s)]_vars

\* Every displacement ends, with a slot or with the failure flag: chains that
\* run into themselves are cut by the bound on the rounds.
DisplacementEnds == (phase # "idle") ~> (phase = "idle")
=============================================================================
