------------------------- MODULE CuckooTableProofs -------------------------
(* Proofs about CuckooTable: the invariants hold for every table size, every *)
(* choice of hash functions and every bound on the rounds.                   *)
EXTENDS CuckooTable, TLAPS

-----------------------------------------------------------------------------
(* The inductive invariant. *)

\* What is true of the slots at every moment, as a predicate on a table.
TableInv(t) ==
  /\ t \in [Slot -> Cell]
  /\ \A s \in Slot : IsNode(t, s) =>
       t[s].key \in Prefix /\ s \in {H1[t[s].key], H2[t[s].key]}
  /\ \A s, d \in Slot :
       IsNode(t, s) /\ IsNode(t, d) /\ t[s].key = t[d].key => s = d
  /\ \A s \in Slot : HasNeighbourBitmap(t, s) =>
       BitmapSlot(t, s) \in Slot /\ t[BitmapSlot(t, s)].occ = "bitmap"
  /\ \A s, d \in Slot :
       HasNeighbourBitmap(t, s) /\ HasNeighbourBitmap(t, d)
         /\ BitmapSlot(t, s) = BitmapSlot(t, d) => s = d
  /\ \A b \in Slot : t[b].occ = "bitmap" =>
       \E s \in Slot : HasNeighbourBitmap(t, s) /\ BitmapSlot(t, s) = b

\* What the displacement calls on the stack rely on.
Distinct == \A i, j \in 1..Len(chain) : chain[i] = chain[j] => i = j

\* The chain has run into itself: every victim is a node whose other position
\* is a victim too, so no recursive call will ever find a free slot.
Closed == \A i \in 1..Len(chain) :
            /\ IsNode(ht, chain[i])
            /\ \E j \in 1..Len(chain) : Other(ht, chain[i]) = chain[j]

\* Each caller's victim is a node that waits for the next victim's slot.
Linked == \A i \in 1..(Len(chain) - 1) :
            IsNode(ht, chain[i]) /\ chain[i + 1] = Other(ht, chain[i])

ReqInv ==
  phase # "idle" =>
    \E p \in Prefix, K \in SUBSET Byte :
      /\ req = NodeCell(p, 0, K)
      /\ \A s \in Slot : IsNode(ht, s) => ht[s].key # p
      /\ IF chain = <<>> THEN hole \in {H1[p], H2[p]}
                         ELSE chain[1] \in {H1[p], H2[p]}

DescendInv ==
  phase = "descend" => /\ chain # <<>>
                       /\ IsOccupied(ht, Victim)
                       /\ Linked
                       /\ Distinct \/ Closed

UnwindInv ==
  phase = "unwind" => /\ ~IsOccupied(ht, hole)
                      /\ Linked
                      /\ Distinct
                      /\ \A i \in 1..Len(chain) : chain[i] # hole
                      /\ chain # <<>> => IsNode(ht, Victim) /\ Other(ht, Victim) = hole

IInv == TypeOK /\ TableInv(ht) /\ ReqInv /\ DescendInv /\ UnwindInv
        /\ (phase = "idle" => chain = <<>>)

-----------------------------------------------------------------------------
(* The operators on tables. *)

\* A position and its neighbours are slots.
LEMMA PositionSlots ==
  ASSUME NEW s \in Position
  PROVE  /\ s \in Slot
         /\ \A i \in 1..6 :
              Probe[i] \in -3..3 /\ s + Probe[i] \in Slot /\ s + Probe[i] # s
BY MaskAssumption DEF Position, Slot, Reach, Probe

\* FindNeighboringEmptySlot finds a free slot next to s or answers 0.
LEMMA Neighbour ==
  ASSUME NEW t \in [Slot -> Cell], NEW s \in Position
  PROVE  LET f == FindNeighboringEmptySlot(t, s)
         IN  /\ f \in -3..3
             /\ f # 0 => s + f \in Slot /\ ~IsOccupied(t, s + f)
<1> DEFINE E == EmptyProbes(t, s)
<1>1. CASE E = {}
  BY <1>1 DEF FindNeighboringEmptySlot
<1>2. CASE E # {}
  <2>1. E \subseteq 1..6
    BY DEF EmptyProbes
  <2>2. \E i \in E : \A j \in E : i <= j
    <3>1. CASE 1 \in E
      BY <3>1, <2>1
    <3>2. CASE 1 \notin E /\ 2 \in E
      BY <3>2, <2>1
    <3>3. CASE 1 \notin E /\ 2 \notin E /\ 3 \in E
      BY <3>3, <2>1
    <3>4. CASE 1 \notin E /\ 2 \notin E /\ 3 \notin E /\ 4 \in E
      BY <3>4, <2>1
    <3>5. CASE 1 \notin E /\ 2 \notin E /\ 3 \notin E /\ 4 \notin E /\ 5 \in E
      BY <3>5, <2>1
    <3>6. CASE E = {6}
      BY <3>6
    <3>7. QED
      BY <3>1, <3>2, <3>3, <3>4, <3>5, <3>6, <2>1, <1>2
  <2> DEFINE m == CHOOSE i \in E : \A j \in E : i <= j
  <2>3. m \in E
    BY <2>2
  <2>4. FindNeighboringEmptySlot(t, s) = Probe[m]
    BY <1>2 DEF FindNeighboringEmptySlot
  <2>5. m \in 1..6 /\ ~IsOccupied(t, s + Probe[m])
    BY <2>3 DEF EmptyProbes
  <2>6. Probe[m] \in -3..3 /\ s + Probe[m] \in Slot
    BY <2>5, PositionSlots
  <2>7. QED
    BY <2>4, <2>5, <2>6
<1>3. QED
  BY <1>1, <1>2

\* PlaceWithBitmap puts the node c at s and its bitmap, taken from slot b,
\* into a slot that was free and is not s, or behind a pointer.
LEMMA Place ==
  ASSUME NEW t \in [Slot -> Cell], NEW s \in Position, NEW b \in Slot,
         NEW c \in Cell, c.occ = "node", c.off \notin {0, 4}
  PROVE  LET u == PlaceWithBitmap(t, s, c, b)
         IN  \/ u = [t EXCEPT ![s] = NodeCell(c.key, 4, c.kids \cup t[b].kids)]
             \/ \E e \in Slot :
                  /\ e # s /\ ~IsOccupied(t, e)
                  /\ e - s + 4 \in (0..7) \ {0, 4}
                  /\ u = [t EXCEPT ![s] = NodeCell(c.key, e - s + 4, c.kids),
                                   ![e] = t[b]]
<1> DEFINE w == [t EXCEPT ![s] = c]
           f == FindNeighboringEmptySlot(w, s)
           u == PlaceWithBitmap(t, s, c, b)
<1>1. s \in Slot /\ Slot \subseteq Int
  BY PositionSlots, MaskAssumption DEF Slot, Reach
<1>2. w \in [Slot -> Cell] /\ w[s] = c /\ \A r \in Slot : r # s => w[r] = t[r]
  BY <1>1
<1>3. f \in -3..3 /\ (f # 0 => s + f \in Slot /\ ~IsOccupied(w, s + f))
  <2> HIDE DEF w
  <2> QED BY <1>2, Neighbour
<1>4. CASE f = 0
  BY <1>4 DEF PlaceWithBitmap
<1>5. CASE f # 0
  <2> HIDE DEF w, f
  <2>1. /\ s + f \in Slot /\ ~IsOccupied(w, s + f)
        /\ (s + f) - s + 4 = f + 4 /\ f + 4 \in (0..7) \ {0, 4}
    BY <1>1, <1>3, <1>5
  <2>2. s + f # s /\ ~IsOccupied(t, s + f)
    BY <2>1, <1>1, <1>2, <1>3, <1>5 DEF IsOccupied
  <2>3. u = [t EXCEPT ![s] = NodeCell(c.key, f + 4, c.kids), ![s + f] = t[b]]
    BY <1>5 DEF PlaceWithBitmap, f, w
  <2>4. QED
    BY <2>1, <2>2, <2>3
<1>6. QED
  BY <1>4, <1>5

\* The bitmap slots that belong to nodes other than the one at s.
ForeignBitmap(t, s, r) ==
  t[r].occ = "bitmap" /\ ~(HasNeighbourBitmap(t, s) /\ r = BitmapSlot(t, s))

\* In u the node that t has at s is at d, with its children; its bitmap, if
\* it has one in a neighbouring slot, is in a slot that was free in t; every
\* other node and every other bitmap is where it was.
Rehoused(t, u, s, d) ==
  /\ u \in [Slot -> Cell]
  /\ IsNode(u, d) /\ u[d].key = t[s].key
  /\ \A r \in Slot : IsNode(u, r) /\ r # d => r # s /\ u[r] = t[r]
  /\ \A r \in Slot : IsNode(t, r) /\ r # s => r # d /\ u[r] = t[r]
  /\ \A r \in Slot : ForeignBitmap(t, s, r) => u[r] = t[r]
  /\ \A r \in Slot : u[r].occ = "bitmap" =>
       \/ ForeignBitmap(t, s, r)
       \/ HasNeighbourBitmap(u, d) /\ r = BitmapSlot(u, d)
  /\ HasNeighbourBitmap(u, d) =>
       /\ BitmapSlot(u, d) \in Slot
       /\ u[BitmapSlot(u, d)].occ = "bitmap"
       /\ t[BitmapSlot(u, d)].occ = "free"
  /\ Children(u, d) = Children(t, s)

\* Rehousing a node at one of its two positions keeps the table invariant,
\* and every other node keeps its children.
LEMMA RehousedInv ==
  ASSUME NEW t, NEW u, NEW s \in Slot, NEW d \in Slot,
         TableInv(t), IsNode(t, s), Rehoused(t, u, s, d),
         d \in {H1[t[s].key], H2[t[s].key]}
  PROVE  /\ TableInv(u)
         /\ \A r \in Slot : IsNode(t, r) /\ r # s =>
              Children(u, r) = Children(t, r)
<1>1. u \in [Slot -> Cell]
  BY DEF Rehoused
<1>2. ASSUME NEW r \in Slot, IsNode(u, r)
      PROVE  u[r].key \in Prefix /\ r \in {H1[u[r].key], H2[u[r].key]}
  BY <1>2 DEF Rehoused, TableInv, IsNode
<1>3. ASSUME NEW r \in Slot, NEW q \in Slot,
             IsNode(u, r), IsNode(u, q), u[r].key = u[q].key
      PROVE  r = q
  BY <1>3 DEF Rehoused, TableInv, IsNode
<1>4. ASSUME NEW r \in Slot, r # d, HasNeighbourBitmap(u, r)
      PROVE  /\ HasNeighbourBitmap(t, r) /\ r # s
             /\ BitmapSlot(u, r) = BitmapSlot(t, r)
             /\ BitmapSlot(t, r) \in Slot
             /\ ForeignBitmap(t, s, BitmapSlot(t, r))
  <2>1. IsNode(u, r) /\ r # s /\ u[r] = t[r]
    BY <1>4 DEF HasNeighbourBitmap, Rehoused
  <2>2. HasNeighbourBitmap(t, r) /\ BitmapSlot(u, r) = BitmapSlot(t, r)
    BY <1>4, <2>1 DEF HasNeighbourBitmap, BitmapSlot, IsNode
  <2>3. BitmapSlot(t, r) \in Slot /\ t[BitmapSlot(t, r)].occ = "bitmap"
    BY <2>2 DEF TableInv
  <2>4. ~(HasNeighbourBitmap(t, s) /\ BitmapSlot(t, r) = BitmapSlot(t, s))
    BY <2>1, <2>2 DEF TableInv
  <2>5. QED
    BY <2>1, <2>2, <2>3, <2>4 DEF ForeignBitmap
<1>5. ASSUME NEW r \in Slot, HasNeighbourBitmap(u, r)
      PROVE  BitmapSlot(u, r) \in Slot /\ u[BitmapSlot(u, r)].occ = "bitmap"
  <2>1. CASE r = d
    BY <2>1, <1>5 DEF Rehoused
  <2>2. CASE r # d
    BY <2>2, <1>4, <1>5 DEF Rehoused, ForeignBitmap
  <2>3. QED
    BY <2>1, <2>2
<1>6. ASSUME NEW r \in Slot, NEW q \in Slot,
             HasNeighbourBitmap(u, r), HasNeighbourBitmap(u, q),
             BitmapSlot(u, r) = BitmapSlot(u, q)
      PROVE  r = q
  <2>1. CASE r # d /\ q # d
    BY <2>1, <1>4, <1>6 DEF TableInv
  <2>2. ASSUME NEW g \in Slot, g # d, HasNeighbourBitmap(u, g),
               HasNeighbourBitmap(u, d), BitmapSlot(u, g) = BitmapSlot(u, d)
        PROVE  FALSE
    <3>1. t[BitmapSlot(u, d)].occ = "bitmap"
      BY <2>2, <1>4 DEF ForeignBitmap
    <3>2. t[BitmapSlot(u, d)].occ = "free"
      BY <2>2 DEF Rehoused
    <3>3. QED
      BY <3>1, <3>2
  <2>3. QED
    BY <2>1, <2>2, <1>6
<1>7. ASSUME NEW b \in Slot, u[b].occ = "bitmap"
      PROVE  \E r \in Slot : HasNeighbourBitmap(u, r) /\ BitmapSlot(u, r) = b
  <2>1. CASE HasNeighbourBitmap(u, d) /\ b = BitmapSlot(u, d)
    BY <2>1
  <2>2. CASE ForeignBitmap(t, s, b)
    <3>1. PICK r \in Slot : HasNeighbourBitmap(t, r) /\ BitmapSlot(t, r) = b
      BY <2>2 DEF ForeignBitmap, TableInv
    <3>2. r # s
      BY <2>2, <3>1 DEF ForeignBitmap
    <3>3. u[r] = t[r]
      BY <3>1, <3>2 DEF Rehoused, HasNeighbourBitmap
    <3>4. HasNeighbourBitmap(u, r) /\ BitmapSlot(u, r) = b
      BY <3>1, <3>3 DEF HasNeighbourBitmap, BitmapSlot, IsNode
    <3>5. QED
      BY <3>4
  <2>3. QED
    BY <2>1, <2>2, <1>7 DEF Rehoused
<1>8. ASSUME NEW r \in Slot, IsNode(t, r), r # s
      PROVE  Children(u, r) = Children(t, r)
  <2>1. r # d /\ u[r] = t[r]
    BY <1>8 DEF Rehoused
  <2>2. /\ HasNeighbourBitmap(u, r) <=> HasNeighbourBitmap(t, r)
        /\ BitmapSlot(u, r) = BitmapSlot(t, r)
    BY <2>1 DEF HasNeighbourBitmap, BitmapSlot, IsNode
  <2>3. CASE HasNeighbourBitmap(u, r)
    <3>1. u[BitmapSlot(t, r)] = t[BitmapSlot(t, r)]
      BY <2>1, <2>3, <1>4 DEF Rehoused
    <3>2. QED
      BY <3>1, <2>1, <2>2, <2>3 DEF Children
  <2>4. CASE ~HasNeighbourBitmap(u, r)
    BY <2>1, <2>2, <2>4 DEF Children
  <2>5. QED
    BY <2>3, <2>4
<1>9. TableInv(u)
  BY <1>1, <1>2, <1>3, <1>5, <1>6, <1>7 DEF TableInv
<1>10. QED
  BY <1>8, <1>9

\* The neighbouring bitmap of a node is a bitmap slot, not the node's own.
LEMMA BitmapFacts ==
  ASSUME NEW t, NEW s \in Slot, TableInv(t), HasNeighbourBitmap(t, s)
  PROVE  /\ IsNode(t, s) /\ s \in Position /\ t[s] \in Cell
         /\ t[s].occ = "node" /\ t[s].off \notin {0, 4}
         /\ BitmapSlot(t, s) \in Slot
         /\ t[BitmapSlot(t, s)].occ = "bitmap" /\ t[BitmapSlot(t, s)] \in Cell
         /\ BitmapSlot(t, s) # s
BY HashAssumption DEF TableInv, HasNeighbourBitmap, IsNode

\* A record built as a node is one, and has a neighbouring bitmap exactly
\* when its offset says so.
LEMMA NodeCellFacts ==
  ASSUME NEW p \in Prefix, NEW o \in 0..7, NEW K \in SUBSET Byte
  PROVE  /\ NodeCell(p, o, K) \in Cell
         /\ NodeCell(p, o, K).occ = "node" /\ NodeCell(p, o, K).key = p
         /\ NodeCell(p, o, K).off = o /\ NodeCell(p, o, K).kids = K
BY DEF NodeCell, Cell

LEMMA FreeCellFacts == FreeCell \in Cell /\ FreeCell.occ = "free"
BY DEF FreeCell, Cell

\* PlaceWithBitmap followed by the clearing of the old bitmap slot (and of the
\* old slot of the node, when that is another one) rehouses the node.
LEMMA PlaceRehouses ==
  ASSUME NEW t, NEW s \in Slot, NEW d \in Position,
         TableInv(t), HasNeighbourBitmap(t, s), s = d \/ ~IsOccupied(t, d),
         NEW u,
         u = IF s = d
             THEN [PlaceWithBitmap(t, d, t[s], BitmapSlot(t, s))
                     EXCEPT ![BitmapSlot(t, s)] = FreeCell]
             ELSE [PlaceWithBitmap(t, d, t[s], BitmapSlot(t, s))
                     EXCEPT ![s] = FreeCell, ![BitmapSlot(t, s)] = FreeCell]
  PROVE  Rehoused(t, u, s, d) /\ u[BitmapSlot(t, s)].occ = "free"
<1> DEFINE b == BitmapSlot(t, s)
           K == t[s].kids \cup t[b].kids
<1>1. /\ t \in [Slot -> Cell] /\ d \in Slot /\ b \in Slot /\ b # s
      /\ t[s] \in Cell /\ t[s].occ = "node" /\ t[s].off \notin {0, 4}
      /\ t[b] \in Cell /\ t[b].occ = "bitmap" /\ b # d /\ t[s].key \in Prefix
  BY BitmapFacts, PositionSlots DEF TableInv, IsOccupied
<1>2. /\ K \in SUBSET Byte /\ t[s].kids \in SUBSET Byte
      /\ Children(t, s) = K /\ Slot \subseteq Int
  BY <1>1, MaskAssumption DEF Children, Cell, Slot, Reach
<1>3. CASE PlaceWithBitmap(t, d, t[s], b)
             = [t EXCEPT ![d] = NodeCell(t[s].key, 4, K)]
  <2> DEFINE n == NodeCell(t[s].key, 4, K)
  <2>1. n \in Cell /\ n.occ = "node" /\ n.key = t[s].key
        /\ n.off = 4 /\ n.kids = K
    BY NodeCellFacts, <1>1, <1>2
  <2> HIDE DEF n
  <2>2. /\ u \in [Slot -> Cell] /\ u[d] = n /\ u[b] = FreeCell
        /\ s # d => u[s] = FreeCell
        /\ \A r \in Slot \ {s, d, b} : u[r] = t[r]
    BY <1>1, <1>3, <2>1, FreeCellFacts DEF n
  <2>3. ~HasNeighbourBitmap(u, d) /\ IsNode(u, d) /\ Children(u, d) = K
    BY <2>1, <2>2 DEF HasNeighbourBitmap, Children, IsNode
  <2>4. QED
    BY <1>1, <1>2, <2>1, <2>2, <2>3, FreeCellFacts
       DEF Rehoused, ForeignBitmap, IsNode, IsOccupied
<1>4. ASSUME NEW e \in Slot, e # d, ~IsOccupied(t, e),
             e - d + 4 \in (0..7) \ {0, 4},
             PlaceWithBitmap(t, d, t[s], b)
               = [t EXCEPT ![d] = NodeCell(t[s].key, e - d + 4, t[s].kids),
                           ![e] = t[b]]
      PROVE  Rehoused(t, u, s, d) /\ u[b].occ = "free"
  <2> DEFINE n == NodeCell(t[s].key, e - d + 4, t[s].kids)
  <2>1. n \in Cell /\ n.occ = "node" /\ n.key = t[s].key
        /\ n.off = e - d + 4 /\ n.kids = t[s].kids
    BY NodeCellFacts, <1>1, <1>2, <1>4
  <2>2. e # s /\ e # b /\ t[e].occ = "free"
    BY <1>1, <1>4 DEF IsOccupied
  <2> HIDE DEF n
  <2>3. /\ u \in [Slot -> Cell] /\ u[d] = n /\ u[b] = FreeCell
        /\ u[e] = t[b]
        /\ s # d => u[s] = FreeCell
        /\ \A r \in Slot \ {s, d, b, e} : u[r] = t[r]
    BY <1>1, <1>4, <2>1, <2>2, FreeCellFacts DEF n
  <2>4. BitmapSlot(u, d) = e /\ HasNeighbourBitmap(u, d) /\ IsNode(u, d)
    BY <1>1, <1>2, <1>4, <2>1, <2>3 DEF BitmapSlot, HasNeighbourBitmap, IsNode
  <2>5. Children(u, d) = K
    BY <2>1, <2>3, <2>4 DEF Children
  <2> HIDE DEF b
  <2>6. ASSUME NEW r \in Slot, IsNode(u, r), r # d
        PROVE  r # s /\ u[r] = t[r]
    BY <1>1, <2>2, <2>3, <2>6, FreeCellFacts DEF IsNode
  <2>7. ASSUME NEW r \in Slot, IsNode(t, r), r # s
        PROVE  r # d /\ u[r] = t[r]
    BY <1>1, <2>2, <2>3, <2>7 DEF IsNode, IsOccupied
  <2>8. ASSUME NEW r \in Slot, ForeignBitmap(t, s, r)
        PROVE  u[r] = t[r]
    BY <1>1, <2>2, <2>3, <2>8 DEF ForeignBitmap, IsOccupied, b
  <2>9. ASSUME NEW r \in Slot, u[r].occ = "bitmap"
        PROVE  ForeignBitmap(t, s, r) \/ r = e
    <3>1. r \notin {s, d, b}
      BY <1>1, <2>1, <2>3, <2>9, FreeCellFacts
    <3>2. QED
      BY <2>3, <2>9, <3>1 DEF ForeignBitmap, b
  <2>10. /\ u \in [Slot -> Cell] /\ u[d].key = t[s].key
         /\ u[e].occ = "bitmap" /\ t[e].occ = "free"
         /\ u[b].occ = "free" /\ Children(u, d) = Children(t, s)
    BY <1>1, <1>2, <2>1, <2>2, <2>3, <2>5, FreeCellFacts
  <2>11. Rehoused(t, u, s, d)
    BY <2>4, <2>6, <2>7, <2>8, <2>9, <2>10 DEF Rehoused
  <2>12. QED
    BY <2>10, <2>11
<1>5. QED
  BY <1>1, <1>3, <1>4, Place

\* MoveNode rehouses the node and frees the slot it leaves.
LEMMA MoveRehouses ==
  ASSUME NEW t, NEW s \in Slot, NEW d \in Position,
         TableInv(t), IsNode(t, s), ~IsOccupied(t, d)
  PROVE  Rehoused(t, MoveNode(t, s, d), s, d) /\ ~IsOccupied(MoveNode(t, s, d), s)
<1> DEFINE u == MoveNode(t, s, d)
<1>1. s # d /\ d \in Slot /\ t \in [Slot -> Cell] /\ t[d].occ = "free"
  BY PositionSlots DEF IsNode, IsOccupied, TableInv
<1>2. CASE HasNeighbourBitmap(t, s)
  <2>1. u = [PlaceWithBitmap(t, d, t[s], BitmapSlot(t, s))
               EXCEPT ![s] = FreeCell, ![BitmapSlot(t, s)] = FreeCell]
    BY <1>2 DEF MoveNode
  <2> HIDE DEF u
  <2>2. Rehoused(t, u, s, d)
    BY <1>1, <1>2, <2>1, PlaceRehouses
  <2>3. IsNode(u, s) => s # s
    BY <1>1, <2>2 DEF Rehoused
  <2>4. u[s].occ # "bitmap"
    <3>1. ~ForeignBitmap(t, s, s)
      BY DEF ForeignBitmap, IsNode
    <3>2. ~(HasNeighbourBitmap(u, d) /\ s = BitmapSlot(u, d))
      BY <2>2 DEF Rehoused, IsNode
    <3>3. QED
      BY <3>1, <3>2, <2>2 DEF Rehoused
  <2>5. QED
    BY <1>1, <2>2, <2>3, <2>4 DEF Rehoused, Cell, IsNode, IsOccupied, u
<1>3. CASE ~HasNeighbourBitmap(t, s)
  <2>1. u = [t EXCEPT ![d] = t[s], ![s] = FreeCell]
    BY <1>3 DEF MoveNode
  <2> HIDE DEF u
  <2>2. /\ u \in [Slot -> Cell] /\ u[d] = t[s] /\ u[s] = FreeCell
        /\ \A r \in Slot \ {s, d} : u[r] = t[r]
    BY <1>1, <2>1, FreeCellFacts
  <2>3. IsNode(u, d) /\ ~HasNeighbourBitmap(u, d)
    BY <1>3, <2>2 DEF IsNode, HasNeighbourBitmap
  <2>4. Children(u, d) = Children(t, s)
    BY <1>3, <2>2, <2>3 DEF Children
  <2>5. QED
    BY <1>1, <1>3, <2>2, <2>3, <2>4, FreeCellFacts
       DEF Rehoused, ForeignBitmap, IsNode, IsOccupied, u
<1>4. QED
  BY <1>2, <1>3

\* RelocateBitMap rehouses a node in its own slot and frees the bitmap's slot.
LEMMA RelocateRehouses ==
  ASSUME NEW t, NEW s \in Slot, TableInv(t), HasNeighbourBitmap(t, s)
  PROVE  /\ Rehoused(t, RelocateBitMap(t, s), s, s)
         /\ ~IsOccupied(RelocateBitMap(t, s), BitmapSlot(t, s))
<1>1. s \in Position
  BY BitmapFacts
<1>2. QED
  BY <1>1, PlaceRehouses DEF RelocateBitMap, IsOccupied

-----------------------------------------------------------------------------
(* The displacement calls. *)

\* A call that returns having freed its victim, and having moved no other
\* node on the stack, hands its caller what the caller relies on.
LEMMA ReturnKeepsInv ==
  ASSUME IInv, phase # "idle", chain # <<>>, Linked, Distinct,
         TableInv(ht'), ~IsOccupied(ht', Victim), Return(Victim),
         \A r \in Slot : IsNode(ht, r) /\ r # Victim =>
           IsNode(ht', r) /\ ht'[r].key = ht[r].key,
         \A r \in Slot : IsNode(ht', r) =>
           \E q \in Slot : IsNode(ht, q) /\ ht[q].key = ht'[r].key
  PROVE  IInv'
<1> DEFINE n == Len(chain)
<1>1. /\ chain \in Seq(Position) /\ n \in Nat /\ n >= 1
      /\ \A i \in 1..n : chain[i] \in Position /\ chain[i] \in Slot
      /\ Victim = chain[n]
  BY PositionSlots DEF IInv, TypeOK, Victim
<1>2. /\ chain' \in Seq(Position) /\ Len(chain') = n - 1
      /\ \A i \in 1..(n - 1) : chain'[i] = chain[i]
  <2>1. chain' = SubSeq(chain, 1, n - 1)
    BY DEF Return
  <2>2. n - 1 \in 0..n /\ \A i \in 1..(n - 1) : chain[i] \in Position
    BY <1>1
  <2> HIDE DEF n
  <2>3. chain' = [i \in 1..(n - 1) |-> chain[i]]
    BY <1>1, <2>1, <2>2
  <2>4. QED
    BY <2>2, <2>3, <1>1
<1>3. hole' = chain[n] /\ phase' = "unwind" /\ req' = req
  BY <1>1 DEF Return
<1>4. TypeOK'
  BY <1>1, <1>2, <1>3 DEF IInv, TypeOK, TableInv
<1>5. ASSUME NEW i \in 1..(n - 1)
      PROVE  /\ IsNode(ht, chain[i]) /\ chain[i + 1] = Other(ht, chain[i])
             /\ chain[i] # chain[n]
             /\ IsNode(ht', chain[i]) /\ Other(ht', chain[i]) = chain[i + 1]
  <2>1. IsNode(ht, chain[i]) /\ chain[i + 1] = Other(ht, chain[i])
    BY DEF Linked
  <2>2. chain[i] # chain[n]
    BY <1>1 DEF Distinct
  <2>3. IsNode(ht', chain[i]) /\ ht'[chain[i]].key = ht[chain[i]].key
    BY <1>1, <2>1, <2>2
  <2>4. QED
    BY <2>1, <2>2, <2>3 DEF Other
<1>6. Linked' /\ Distinct'
  BY <1>1, <1>2, <1>5 DEF Linked, Distinct
<1>7. \A i \in 1..Len(chain') : chain'[i] # hole'
  BY <1>2, <1>3, <1>5
<1>8. chain' # <<>> => IsNode(ht', Victim') /\ Other(ht', Victim') = hole'
  <2>1. SUFFICES ASSUME n - 1 \in 1..(n - 1)
                 PROVE  IsNode(ht', Victim') /\ Other(ht', Victim') = hole'
    BY <1>1, <1>2
  <2>2. Victim' = chain[n - 1]
    BY <1>2, <2>1 DEF Victim
  <2>3. QED
    BY <1>1, <1>3, <1>5, <2>1, <2>2
<1>9. UnwindInv' /\ DescendInv'
  BY <1>1, <1>3, <1>6, <1>7, <1>8 DEF UnwindInv, DescendInv
<1>10. ReqInv'
  <2>1. PICK p \in Prefix, K \in SUBSET Byte :
          /\ req = NodeCell(p, 0, K)
          /\ \A s \in Slot : IsNode(ht, s) => ht[s].key # p
          /\ chain[1] \in {H1[p], H2[p]}
    BY DEF IInv, ReqInv
  <2>2. \A s \in Slot : IsNode(ht', s) => ht'[s].key # p
    BY <2>1
  <2>3. IF chain' = <<>> THEN hole' \in {H1[p], H2[p]}
                         ELSE chain'[1] \in {H1[p], H2[p]}
    <3>1. CASE n = 1
      BY <3>1, <2>1, <1>2, <1>3
    <3>2. CASE n # 1
      BY <3>2, <2>1, <1>1, <1>2
    <3>3. QED
      BY <3>1, <3>2
  <2>4. QED
    BY <2>1, <2>2, <2>3, <1>3 DEF ReqInv
<1>11. QED
  BY <1>3, <1>4, <1>9, <1>10 DEF IInv

\* The other position of a node is one of its two positions.
LEMMA OtherFacts ==
  ASSUME NEW s \in Slot, TableInv(ht), IsNode(ht, s)
  PROVE  /\ Other(ht, s) \in {H1[ht[s].key], H2[ht[s].key]}
         /\ Other(ht, s) \in Position /\ s \in Position
BY HashAssumption DEF TableInv, Other

\* A step that moves the victim to its free other position and returns.
LEMMA MoveKeepsInv ==
  ASSUME IInv, phase # "idle", chain # <<>>, Linked, Distinct,
         IsNode(ht, Victim), ~IsOccupied(ht, Other(ht, Victim)),
         ht' = MoveNode(ht, Victim, Other(ht, Victim)), Return(Victim)
  PROVE  IInv'
<1>1. Victim \in Slot /\ TableInv(ht)
  BY PositionSlots DEF IInv, TypeOK, Victim
<1>2. Rehoused(ht, ht', Victim, Other(ht, Victim)) /\ ~IsOccupied(ht', Victim)
  BY <1>1, OtherFacts, MoveRehouses
<1>3. TableInv(ht')
  BY <1>1, <1>2, OtherFacts, PositionSlots, RehousedInv
<1>4. \A r \in Slot : IsNode(ht, r) /\ r # Victim =>
        IsNode(ht', r) /\ ht'[r].key = ht[r].key
  BY <1>2 DEF Rehoused, IsNode
<1>5. \A r \in Slot : IsNode(ht', r) =>
        \E q \in Slot : IsNode(ht, q) /\ ht[q].key = ht'[r].key
  BY <1>1, <1>2 DEF Rehoused, IsNode
<1>6. QED
  BY <1>2, <1>3, <1>4, <1>5, ReturnKeepsInv

\* A chain that ends at a bitmap, or at a node with a free other position,
\* has not run into itself.
LEMMA EndedChain ==
  ASSUME IInv, phase = "descend",
         IsNode(ht, Victim) => ~IsOccupied(ht, Other(ht, Victim))
  PROVE  chain # <<>> /\ Linked /\ Distinct
<1>1. Len(chain) \in 1..Len(chain) /\ chain # <<>> /\ Linked
  BY DEF IInv, TypeOK, DescendInv
<1>2. ~Closed
  BY <1>1 DEF Closed, Victim, IsNode, IsOccupied
<1>3. QED
  BY <1>1, <1>2 DEF IInv, DescendInv

LEMMA MoveVictimInv == ASSUME IInv, MoveVictim PROVE IInv'
<1>1. chain # <<>> /\ Linked /\ Distinct
  BY EndedChain DEF MoveVictim
<1>2. QED
  BY <1>1, MoveKeepsInv DEF MoveVictim

LEMMA UnwindInvStep == ASSUME IInv, Unwind PROVE IInv'
<1>1. /\ Linked /\ Distinct /\ ~IsOccupied(ht, hole)
      /\ IsNode(ht, Victim) /\ Other(ht, Victim) = hole
  BY DEF IInv, UnwindInv, Unwind
<1>2. QED
  BY <1>1, MoveKeepsInv DEF Unwind

\* The search around a bitmap slot finds the node the bitmap belongs to.
LEMMA OwnerFacts ==
  ASSUME NEW b \in Slot, TableInv(ht), ht[b].occ = "bitmap"
  PROVE  /\ Owner(ht, b) \in Slot
         /\ HasNeighbourBitmap(ht, Owner(ht, b))
         /\ BitmapSlot(ht, Owner(ht, b)) = b
<1>1. \E s \in Slot : HasNeighbourBitmap(ht, s) /\ BitmapSlot(ht, s) = b
  BY DEF TableInv
<1>2. QED
  BY <1>1 DEF Owner

LEMMA RelocateVictimInv == ASSUME IInv, RelocateVictim PROVE IInv'
<1> DEFINE o == Owner(ht, Victim)
<1>1. chain # <<>> /\ Linked /\ Distinct
  BY EndedChain DEF RelocateVictim
<1>2. Victim \in Slot /\ TableInv(ht) /\ ht[Victim].occ = "bitmap"
  BY <1>1, PositionSlots
     DEF IInv, TypeOK, Victim, RelocateVictim, IsOccupied, IsNode, Cell
<1>3. o \in Slot /\ HasNeighbourBitmap(ht, o) /\ BitmapSlot(ht, o) = Victim
  BY <1>2, OwnerFacts
<1>4. IsNode(ht, o) /\ o \in {H1[ht[o].key], H2[ht[o].key]}
  BY <1>2, <1>3 DEF HasNeighbourBitmap, TableInv
<1> HIDE DEF o
<1>5. Rehoused(ht, ht', o, o) /\ ~IsOccupied(ht', Victim)
  BY <1>2, <1>3, RelocateRehouses DEF RelocateVictim, o
<1>6. TableInv(ht')
  BY <1>2, <1>3, <1>4, <1>5, RehousedInv
<1>7. \A r \in Slot : IsNode(ht, r) => IsNode(ht', r) /\ ht'[r].key = ht[r].key
  BY <1>5 DEF Rehoused, IsNode
<1>8. \A r \in Slot : IsNode(ht', r) =>
        \E q \in Slot : IsNode(ht, q) /\ ht[q].key = ht'[r].key
  BY <1>3, <1>4, <1>5 DEF Rehoused, IsNode
<1>9. QED
  BY <1>1, <1>5, <1>6, <1>7, <1>8, ReturnKeepsInv DEF RelocateVictim

LEMMA DescendInvStep == ASSUME IInv, Descend PROVE IInv'
<1> DEFINE n == Len(chain)
           a == Other(ht, Victim)
<1>1. /\ chain \in Seq(Position) /\ n \in Nat /\ n >= 1
      /\ \A i \in 1..n : chain[i] \in Position
      /\ Victim = chain[n] /\ TableInv(ht)
      /\ IsNode(ht, chain[n]) /\ IsOccupied(ht, a)
      /\ Linked /\ (Distinct \/ Closed)
  BY DEF IInv, TypeOK, DescendInv, Victim, Descend
<1>2. a \in Position
  BY <1>1, OtherFacts, PositionSlots
<1>3. /\ chain' = Append(chain, a) /\ UNCHANGED <<ht, hole, req, phase>>
      /\ phase = "descend"
  BY DEF Descend
<1> HIDE DEF n, a
<1>4. /\ chain' \in Seq(Position) /\ Len(chain') = n + 1 /\ chain'[n + 1] = a
      /\ \A i \in 1..n : chain'[i] = chain[i]
  BY <1>1, <1>2, <1>3 DEF n
<1>5. \A i \in 1..n : IsNode(ht, chain[i])
  BY <1>1 DEF Linked, n
<1>6. Linked'
  <2>1. SUFFICES ASSUME NEW i \in 1..n
                 PROVE  IsNode(ht', chain'[i]) /\ chain'[i + 1] = Other(ht', chain'[i])
    BY <1>1, <1>4 DEF Linked
  <2>2. IsNode(ht', chain'[i])
    BY <1>3, <1>4, <1>5 DEF IsNode
  <2>3. CASE i = n
    <3>1. chain'[i] = chain[n] /\ chain'[i + 1] = a /\ ht' = ht
      BY <1>3, <1>4, <2>3
    <3>2. QED
      BY <1>1, <2>2, <3>1 DEF a
  <2>4. CASE i # n
    <3>1. i \in 1..(n - 1) /\ i + 1 \in 1..n
      BY <1>1, <2>4
    <3>2. chain[i + 1] = Other(ht, chain[i])
      BY <1>1, <3>1 DEF Linked, n
    <3>3. chain'[i] = chain[i] /\ chain'[i + 1] = chain[i + 1]
      BY <1>4, <3>1
    <3>4. ht' = ht
      BY <1>3
    <3>5. QED
      BY <2>2, <3>2, <3>3, <3>4
  <2>5. QED
    BY <2>3, <2>4
<1>7. Distinct' \/ Closed'
  <2>1. CASE \E j \in 1..n : chain[j] = a
    <3>1. IsNode(ht, a)
      BY <2>1, <1>5
    <3>2. \A i \in 1..n : \E j \in 1..n : Other(ht, chain[i]) = chain[j]
      <4>1. TAKE i \in 1..n
      <4>2. CASE i = n
        BY <4>2, <2>1, <1>1 DEF a
      <4>3. CASE i # n
        <5>1. i \in 1..(n - 1) /\ i + 1 \in 1..n
          BY <4>3, <1>1
        <5>2. QED
          BY <5>1, <1>1 DEF Linked, n
      <4>4. QED
        BY <4>2, <4>3
    <3>3. \A i \in 1..(n + 1) :
            IsNode(ht, chain'[i]) /\ \E j \in 1..n : Other(ht, chain'[i]) = chain[j]
      <4>1. TAKE i \in 1..(n + 1)
      <4>2. \E k \in 1..n : chain'[i] = chain[k]
        BY <2>1, <1>1, <1>4
      <4>3. QED
        BY <4>2, <3>2, <1>5
    <3>4. Closed'
      <4>1. SUFFICES ASSUME NEW i \in 1..(n + 1)
                     PROVE  /\ IsNode(ht', chain'[i])
                            /\ \E j \in 1..(n + 1) :
                                 Other(ht', chain'[i]) = chain'[j]
        BY <1>4 DEF Closed
      <4>2. PICK j \in 1..n : Other(ht, chain'[i]) = chain[j]
        BY <3>3
      <4>3. j \in 1..(n + 1) /\ chain'[j] = chain[j]
        BY <1>1, <1>4
      <4>4. Other(ht', chain'[i]) = chain'[j]
        BY <1>3, <4>2, <4>3
      <4>5. IsNode(ht', chain'[i])
        BY <1>3, <3>3
      <4>6. QED
        BY <4>3, <4>4, <4>5
    <3>5. QED
      BY <3>4
  <2>2. CASE \A j \in 1..n : chain[j] # a
    <3>1. Distinct
      <4>1. ASSUME Closed PROVE FALSE
        BY <4>1, <2>2, <1>1 DEF Closed, a, n
      <4>2. QED
        BY <4>1, <1>1
    <3>2. Distinct'
      BY <3>1, <2>2, <1>1, <1>4 DEF Distinct, n
    <3>3. QED
      BY <3>2
  <2>3. QED
    BY <2>1, <2>2
<1>8. IsOccupied(ht', Victim') /\ chain' # <<>>
  BY <1>1, <1>3, <1>4 DEF Victim, IsOccupied
<1>9. DescendInv' /\ UnwindInv'
  BY <1>3, <1>6, <1>7, <1>8 DEF DescendInv, UnwindInv
<1>10. ReqInv'
  <2>1. chain # <<>> /\ chain'[1] = chain[1]
    BY <1>1, <1>4 DEF n
  <2>2. QED
    BY <2>1, <1>3, <1>8 DEF IInv, ReqInv, IsNode
<1>11. TypeOK' /\ TableInv(ht')
  BY <1>3, <1>4 DEF IInv, TypeOK
<1>12. QED
  BY <1>3, <1>9, <1>10, <1>11 DEF IInv

LEMMA GiveUpInv == ASSUME IInv, GiveUp PROVE IInv'
BY FreeCellFacts
   DEF IInv, GiveUp, TypeOK, ReqInv, DescendInv, UnwindInv

-----------------------------------------------------------------------------
(* Inserting a node and adding a child. *)

\* Every node of t is in the same slot of u, unchanged, with its children.
Undisturbed(t, u) ==
  \A r \in Slot : IsNode(t, r) =>
    u[r] = t[r] /\ Children(u, r) = Children(t, r)

\* A node whose prefix is new goes into a free slot among its two positions:
\* the table invariant holds, and the other nodes keep their children.
LEMMA NewNode ==
  ASSUME NEW t, TableInv(t), NEW p \in Prefix, NEW K \in SUBSET Byte,
         NEW s \in {H1[p], H2[p]}, ~IsOccupied(t, s),
         \A r \in Slot : IsNode(t, r) => t[r].key # p,
         NEW u, u = [t EXCEPT ![s] = NodeCell(p, 0, K)]
  PROVE  TableInv(u) /\ Undisturbed(t, u)
<1> DEFINE n == NodeCell(p, 0, K)
<1>1. s \in Slot /\ t \in [Slot -> Cell] /\ t[s].occ = "free"
  BY HashAssumption, PositionSlots DEF IsOccupied, TableInv
<1>2. n \in Cell /\ n.occ = "node" /\ n.key = p /\ n.off = 0
  BY NodeCellFacts
<1> HIDE DEF n
<1>3. /\ u \in [Slot -> Cell] /\ u[s] = n
      /\ \A r \in Slot : r # s => u[r] = t[r]
  <2>1. u = [t EXCEPT ![s] = n]
    BY DEF n
  <2>2. QED
    BY <1>1, <1>2, <2>1
<1>4. \A r \in Slot : IsNode(t, r) => r # s /\ u[r] = t[r]
  BY <1>1, <1>3 DEF IsNode
<1>5. \A r \in Slot : IsNode(u, r) /\ r # s => IsNode(t, r)
  BY <1>3 DEF IsNode
<1>6. \A r \in Slot : HasNeighbourBitmap(u, r) <=> HasNeighbourBitmap(t, r)
  <2>1. ~HasNeighbourBitmap(u, s) /\ ~HasNeighbourBitmap(t, s)
    BY <1>1, <1>2, <1>3 DEF HasNeighbourBitmap, IsNode
  <2>2. QED
    BY <2>1, <1>3 DEF HasNeighbourBitmap, IsNode
<1>7. \A r \in Slot : HasNeighbourBitmap(t, r) =>
        /\ BitmapSlot(u, r) = BitmapSlot(t, r) /\ BitmapSlot(t, r) \in Slot
        /\ u[BitmapSlot(t, r)] = t[BitmapSlot(t, r)]
  BY <1>1, <1>3, <1>4 DEF BitmapSlot, HasNeighbourBitmap, TableInv
<1>8. \A r \in Slot : IsNode(u, r) =>
        u[r].key \in Prefix /\ r \in {H1[u[r].key], H2[u[r].key]}
  BY <1>2, <1>3, <1>5 DEF TableInv
<1>9. \A r, q \in Slot :
        IsNode(u, r) /\ IsNode(u, q) /\ u[r].key = u[q].key => r = q
  BY <1>2, <1>3, <1>5 DEF TableInv
<1>10. \A b \in Slot : u[b].occ = "bitmap" => t[b].occ = "bitmap"
  BY <1>2, <1>3
<1>11. TableInv(u)
  <2>1. \A r \in Slot : HasNeighbourBitmap(u, r) =>
          BitmapSlot(u, r) \in Slot /\ u[BitmapSlot(u, r)].occ = "bitmap"
    BY <1>6, <1>7 DEF TableInv
  <2>2. \A r, q \in Slot :
          HasNeighbourBitmap(u, r) /\ HasNeighbourBitmap(u, q)
            /\ BitmapSlot(u, r) = BitmapSlot(u, q) => r = q
    BY <1>6, <1>7 DEF TableInv
  <2>3. \A b \in Slot : u[b].occ = "bitmap" =>
          \E r \in Slot : HasNeighbourBitmap(u, r) /\ BitmapSlot(u, r) = b
    BY <1>6, <1>7, <1>10 DEF TableInv
  <2>4. QED
    BY <1>3, <1>8, <1>9, <2>1, <2>2, <2>3 DEF TableInv
<1>12. \A r \in Slot : IsNode(t, r) => Children(u, r) = Children(t, r)
  BY <1>4, <1>6, <1>7 DEF Children
<1>13. QED
  BY <1>4, <1>11, <1>12 DEF Undisturbed

\* A prefix found at neither of its positions is in no slot.
LEMMA NotFound ==
  ASSUME NEW t, TableInv(t), NEW p \in Prefix,
         \A s \in {H1[p], H2[p]} : ~FoundAt(t, p, s)
  PROVE  \A r \in Slot : IsNode(t, r) => t[r].key # p
BY DEF TableInv, FoundAt

\* Changing nothing but the children stored in the slots keeps the invariant.
LEMMA SameShape ==
  ASSUME NEW t, NEW u, TableInv(t), u \in [Slot -> Cell],
         \A r \in Slot :
           /\ u[r].occ = t[r].occ
           /\ IsNode(t, r) => u[r].key = t[r].key /\ u[r].off = t[r].off
  PROVE  /\ TableInv(u)
         /\ \A r \in Slot : HasNeighbourBitmap(u, r) <=> HasNeighbourBitmap(t, r)
         /\ \A r \in Slot : IsNode(t, r) => BitmapSlot(u, r) = BitmapSlot(t, r)
<1>1. \A r \in Slot :
        /\ IsNode(u, r) <=> IsNode(t, r)
        /\ HasNeighbourBitmap(u, r) <=> HasNeighbourBitmap(t, r)
        /\ IsNode(t, r) => BitmapSlot(u, r) = BitmapSlot(t, r)
  BY DEF IsNode, HasNeighbourBitmap, BitmapSlot
<1>2. \A r \in Slot : HasNeighbourBitmap(t, r) => IsNode(t, r)
  BY DEF HasNeighbourBitmap
<1>3. TableInv(u)
  BY <1>1, <1>2 DEF TableInv, IsNode
<1>4. QED
  BY <1>1, <1>3

\* What adding a child to the node at s must do to the table.
ChildAdded(t, u, s, c) ==
  /\ TableInv(u)
  /\ \A r \in Slot : IsNode(u, r) => IsNode(t, r) /\ u[r].key = t[r].key
  /\ \A r \in Slot : IsNode(t, r) =>
       /\ IsNode(u, r) /\ u[r].key = t[r].key
       /\ Children(u, r) = Children(t, r) \cup (IF r = s THEN {c} ELSE {})

\* Setting a bit of a bitmap, or adding to the children stored in the node.
LEMMA SetInNode ==
  ASSUME NEW t, NEW s \in Slot, NEW c \in Byte, TableInv(t), IsNode(t, s)
  PROVE  ChildAdded(t, [t EXCEPT ![s] = NodeCell(@.key, @.off, @.kids \cup {c})],
                    s, c)
<1> DEFINE n == NodeCell(t[s].key, t[s].off, t[s].kids \cup {c})
           u == [t EXCEPT ![s] = n]
<1>1. /\ t \in [Slot -> Cell] /\ t[s].key \in Prefix /\ t[s].off \in 0..7
      /\ t[s].kids \cup {c} \in SUBSET Byte /\ t[s].occ = "node"
  BY DEF TableInv, Cell, IsNode
<1>2. /\ n \in Cell /\ n.occ = "node" /\ n.key = t[s].key
      /\ n.off = t[s].off /\ n.kids = t[s].kids \cup {c}
  BY <1>1, NodeCellFacts
<1> HIDE DEF n
<1>3. u \in [Slot -> Cell] /\ u[s] = n /\ \A r \in Slot : r # s => u[r] = t[r]
  BY <1>1, <1>2
<1> HIDE DEF u
<1>4. \A r \in Slot : u[r].occ = t[r].occ /\ u[r].key = t[r].key
                      /\ u[r].off = t[r].off
  BY <1>1, <1>2, <1>3
<1>5. /\ TableInv(u)
      /\ \A r \in Slot : HasNeighbourBitmap(u, r) <=> HasNeighbourBitmap(t, r)
      /\ \A r \in Slot : IsNode(t, r) => BitmapSlot(u, r) = BitmapSlot(t, r)
  BY <1>3, <1>4, SameShape
<1>6. ASSUME NEW r \in Slot, IsNode(t, r)
      PROVE  Children(u, r) = Children(t, r) \cup (IF r = s THEN {c} ELSE {})
  <2>1. HasNeighbourBitmap(t, r) => u[BitmapSlot(t, r)] = t[BitmapSlot(t, r)]
    BY <1>1, <1>3 DEF TableInv
  <2>2. u[r].kids = t[r].kids \cup (IF r = s THEN {c} ELSE {})
    BY <1>2, <1>3
  <2>3. QED
    BY <1>5, <1>6, <2>1, <2>2 DEF Children
<1>7. QED
  BY <1>4, <1>5, <1>6 DEF ChildAdded, IsNode, u, n

LEMMA SetInBitmap ==
  ASSUME NEW t, NEW s \in Slot, NEW c \in Byte, TableInv(t),
         HasNeighbourBitmap(t, s)
  PROVE  ChildAdded(t, [t EXCEPT ![BitmapSlot(t, s)] =
                                    BitmapCell(@.kids \cup {c})], s, c)
<1> DEFINE b == BitmapSlot(t, s)
           n == BitmapCell(t[b].kids \cup {c})
           u == [t EXCEPT ![b] = n]
<1>1. /\ t \in [Slot -> Cell] /\ b \in Slot /\ t[b] \in Cell
      /\ t[b].occ = "bitmap" /\ b # s
  BY BitmapFacts DEF TableInv
<1> HIDE DEF b
<1>2. n \in Cell /\ n.occ = "bitmap" /\ n.kids = t[b].kids \cup {c}
  BY <1>1 DEF BitmapCell, Cell
<1> HIDE DEF n
<1>3. u \in [Slot -> Cell] /\ u[b] = n /\ \A r \in Slot : r # b => u[r] = t[r]
  BY <1>1, <1>2
<1> HIDE DEF u
<1>4. \A r \in Slot :
        /\ u[r].occ = t[r].occ
        /\ IsNode(t, r) => r # b /\ u[r] = t[r]
  BY <1>1, <1>2, <1>3 DEF IsNode
<1>5. /\ TableInv(u)
      /\ \A r \in Slot : HasNeighbourBitmap(u, r) <=> HasNeighbourBitmap(t, r)
      /\ \A r \in Slot : IsNode(t, r) => BitmapSlot(u, r) = BitmapSlot(t, r)
  <2>1. \A r \in Slot :
          /\ u[r].occ = t[r].occ
          /\ IsNode(t, r) => u[r].key = t[r].key /\ u[r].off = t[r].off
    BY <1>4
  <2>2. QED
    BY <1>3, <2>1, SameShape
<1>6. ASSUME NEW r \in Slot, IsNode(t, r)
      PROVE  Children(u, r) = Children(t, r) \cup (IF r = s THEN {c} ELSE {})
  <2>1. u[r].kids = t[r].kids
    BY <1>4, <1>6
  <2>2. CASE r = s
    BY <1>2, <1>3, <1>5, <1>6, <2>1, <2>2 DEF Children, b
  <2>3. CASE r # s /\ HasNeighbourBitmap(t, r)
    <3>1. BitmapSlot(t, r) # b /\ BitmapSlot(t, r) \in Slot
      BY <2>3 DEF TableInv, b
    <3>2. QED
      BY <1>3, <1>5, <1>6, <2>1, <2>3, <3>1 DEF Children
  <2>4. CASE r # s /\ ~HasNeighbourBitmap(t, r)
    BY <1>5, <2>1, <2>4 DEF Children
  <2>5. QED
    BY <2>2, <2>3, <2>4
<1>7. QED
  BY <1>4, <1>5, <1>6 DEF ChildAdded, IsNode, u, n, b

\* Turning an internal child map into a bitmap rehouses the node in its slot.
LEMMA ExtendRehouses ==
  ASSUME NEW t, NEW s \in Slot, TableInv(t), IsNode(t, s), t[s].off = 0
  PROVE  Rehoused(t, ExtendToBitMap(t, s), s, s)
<1> DEFINE d == FindNeighboringEmptySlot(t, s)
           K == t[s].kids
           u == ExtendToBitMap(t, s)
<1>1. /\ t \in [Slot -> Cell] /\ t[s].key \in Prefix /\ s \in Position
      /\ K \in SUBSET Byte /\ t[s].occ = "node" /\ Slot \subseteq Int
      /\ ~HasNeighbourBitmap(t, s) /\ Children(t, s) = K
  BY HashAssumption, MaskAssumption
     DEF TableInv, IsNode, Cell, Slot, Reach, HasNeighbourBitmap, Children
<1>2. d \in -3..3 /\ (d # 0 => s + d \in Slot /\ ~IsOccupied(t, s + d))
  BY <1>1, Neighbour
<1> HIDE DEF d
<1>3. CASE d = 0
  <2> DEFINE n == NodeCell(t[s].key, 4, K)
  <2>1. n \in Cell /\ n.occ = "node" /\ n.key = t[s].key
        /\ n.off = 4 /\ n.kids = K
    BY <1>1, NodeCellFacts
  <2>2. u = [t EXCEPT ![s] = n]
    BY <1>3 DEF ExtendToBitMap, d
  <2> HIDE DEF n, u
  <2>3. u \in [Slot -> Cell] /\ u[s] = n /\ \A r \in Slot : r # s => u[r] = t[r]
    BY <1>1, <2>1, <2>2
  <2>4. ~HasNeighbourBitmap(u, s) /\ IsNode(u, s) /\ Children(u, s) = K
    BY <2>1, <2>3 DEF HasNeighbourBitmap, Children, IsNode
  <2>5. QED
    BY <1>1, <2>1, <2>3, <2>4 DEF Rehoused, ForeignBitmap, IsNode, u
<1>4. CASE d # 0
  <2> DEFINE n == NodeCell(t[s].key, d + 4, K \cap LowByte)
             m == BitmapCell(K \ LowByte)
             e == s + d
  <2>1. n \in Cell /\ n.occ = "node" /\ n.key = t[s].key
        /\ n.off = d + 4 /\ n.kids = K \cap LowByte
    <3>1. d + 4 \in 0..7 /\ K \cap LowByte \in SUBSET Byte
      BY <1>1, <1>2
    <3>2. QED
      BY <1>1, <3>1, NodeCellFacts
  <2>2. m \in Cell /\ m.occ = "bitmap" /\ m.kids = K \ LowByte
    BY <1>1 DEF BitmapCell, Cell
  <2>3. u = [t EXCEPT ![s] = n, ![e] = m]
    BY <1>4 DEF ExtendToBitMap, d
  <2>4. e \in Slot /\ e # s /\ t[e].occ = "free" /\ e = s + d
        /\ d + 4 \notin {0, 4} /\ s + (d + 4) - 4 = e
    BY <1>1, <1>2, <1>4 DEF IsOccupied
  <2> HIDE DEF n, m, e, u
  <2>5. /\ u \in [Slot -> Cell] /\ u[s] = n /\ u[e] = m
        /\ \A r \in Slot \ {s, e} : u[r] = t[r]
    BY <1>1, <2>1, <2>2, <2>3, <2>4
  <2>6. HasNeighbourBitmap(u, s) /\ IsNode(u, s) /\ BitmapSlot(u, s) = e
    BY <2>1, <2>4, <2>5 DEF HasNeighbourBitmap, IsNode, BitmapSlot
  <2>7. Children(u, s) = K
    BY <2>1, <2>2, <2>5, <2>6 DEF Children
  <2>8. QED
    BY <1>1, <2>1, <2>2, <2>4, <2>5, <2>6, <2>7
       DEF Rehoused, ForeignBitmap, IsNode, u
<1>5. QED
  BY <1>3, <1>4

\* AddChild adds the child to its node and to no other.
LEMMA AddChildAdds ==
  ASSUME TableInv(ht), NEW s \in Position, NEW c \in Byte, AddChild(s, c)
  PROVE  ChildAdded(ht, ht', s, c)
<1>1. s \in Slot /\ IsNode(ht, s)
  BY PositionSlots DEF AddChild
<1>2. ASSUME NEW t, TableInv(t), IsNode(t, s)
      PROVE  ChildAdded(t, BitMapSet(t, s, c), s, c)
  BY <1>1, <1>2, SetInNode, SetInBitmap DEF BitMapSet
<1>3. CASE ht[s].off = 0 /\ Cardinality(ht[s].kids) < MaxInternal
  <2>1. ht' = [ht EXCEPT ![s] = NodeCell(@.key, @.off, @.kids \cup {c})]
    BY <1>3 DEF AddChild
  <2>2. QED
    BY <1>1, <2>1, SetInNode
<1>4. CASE ht[s].off # 0
  BY <1>1, <1>2, <1>4 DEF AddChild
<1>5. CASE ht[s].off = 0 /\ ~(Cardinality(ht[s].kids) < MaxInternal)
  <2> DEFINE v == ExtendToBitMap(ht, s)
  <2>1. ht' = BitMapSet(v, s, c)
    BY <1>5 DEF AddChild
  <2> HIDE DEF v
  <2>2. Rehoused(ht, v, s, s)
    BY <1>1, <1>5, ExtendRehouses DEF v
  <2>3. s \in {H1[ht[s].key], H2[ht[s].key]}
    BY <1>1 DEF TableInv
  <2>4. /\ TableInv(v) /\ IsNode(v, s)
        /\ \A r \in Slot : IsNode(ht, r) /\ r # s =>
             Children(v, r) = Children(ht, r)
    BY <1>1, <2>2, <2>3, RehousedInv DEF Rehoused
  <2>5. ChildAdded(v, ht', s, c)
    BY <1>2, <2>1, <2>4
  <2>6. \A r \in Slot : IsNode(v, r) => IsNode(ht, r) /\ v[r].key = ht[r].key
    BY <1>1, <2>2 DEF Rehoused, IsNode
  <2>7. \A r \in Slot : IsNode(ht, r) =>
          /\ IsNode(v, r) /\ v[r].key = ht[r].key
          /\ Children(v, r) = Children(ht, r)
    BY <1>1, <2>2, <2>4 DEF Rehoused, IsNode
  <2>8. QED
    BY <2>5, <2>6, <2>7 DEF ChildAdded
<1>6. QED
  BY <1>3, <1>4, <1>5

LEMMA AddChildInv ==
  ASSUME IInv, NEW s \in Position, NEW c \in Byte, AddChild(s, c)
  PROVE  IInv'
<1>1. TableInv(ht')
  BY AddChildAdds DEF IInv, ChildAdded
<1>2. QED
  BY <1>1 DEF IInv, AddChild, TypeOK, ReqInv, DescendInv, UnwindInv, TableInv

LEMMA InsertFreeInv ==
  ASSUME IInv, NEW p \in Prefix, NEW K \in FirstChildren, InsertFree(p, K)
  PROVE  IInv'
<1>1. TableInv(ht) /\ K \in SUBSET Byte
  BY DEF IInv, FirstChildren
<1>2. PICK s \in {H1[p], H2[p]} :
        ~IsOccupied(ht, s) /\ ht' = [ht EXCEPT ![s] = NodeCell(p, 0, K)]
  BY DEF InsertFree
<1>3. TableInv(ht')
  <2>1. \A r \in Slot : IsNode(ht, r) => ht[r].key # p
    BY <1>1, NotFound DEF InsertFree
  <2>2. QED
    BY <1>1, <1>2, <2>1, NewNode
<1>4. QED
  BY <1>3 DEF IInv, InsertFree, TypeOK, ReqInv, DescendInv, UnwindInv, TableInv

LEMMA InsertDisplacingInv ==
  ASSUME IInv, NEW p \in Prefix, NEW K \in FirstChildren, InsertDisplacing(p, K)
  PROVE  IInv'
<1>1. TableInv(ht) /\ K \in SUBSET Byte
  BY DEF IInv, FirstChildren
<1>2. PICK v \in {H1[p], H2[p]} : chain' = <<v>>
  BY DEF InsertDisplacing
<1>3. v \in Position /\ IsOccupied(ht, v)
  BY <1>2, HashAssumption DEF InsertDisplacing
<1>4. /\ UNCHANGED <<ht, hole>> /\ phase' = "descend"
      /\ req' = NodeCell(p, 0, K)
      /\ \A s \in {H1[p], H2[p]} : ~FoundAt(ht, p, s)
  BY DEF InsertDisplacing
<1>5. chain' \in Seq(Position) /\ chain' # <<>> /\ Len(chain') = 1
      /\ chain'[1] = v
  BY <1>2, <1>3
<1>6. DescendInv' /\ UnwindInv'
  BY <1>3, <1>4, <1>5
     DEF DescendInv, UnwindInv, Linked, Distinct, Victim, IsOccupied
<1>7. ReqInv'
  BY <1>1, <1>2, <1>4, <1>5, NotFound DEF ReqInv, IsNode
<1>8. TypeOK'
  <2>1. req' \in Cell
    BY <1>1, <1>4, NodeCellFacts
  <2>2. QED
    BY <1>4, <1>5, <2>1 DEF IInv, TypeOK
<1>9. QED
  BY <1>1, <1>4, <1>6, <1>7, <1>8 DEF IInv

LEMMA InitReservedInv == ASSUME IInv, InitReserved PROVE IInv'
<1>1. PICK p \in Prefix, K \in SUBSET Byte :
        /\ req = NodeCell(p, 0, K)
        /\ \A s \in Slot : IsNode(ht, s) => ht[s].key # p
        /\ hole \in {H1[p], H2[p]}
  BY DEF IInv, ReqInv, InitReserved
<1>2. ~IsOccupied(ht, hole) /\ TableInv(ht)
  BY DEF IInv, UnwindInv, InitReserved
<1>3. TableInv(ht')
  <2>1. ht' = [ht EXCEPT ![hole] = NodeCell(p, 0, K)]
    BY <1>1 DEF InitReserved
  <2>2. QED
    BY <1>1, <1>2, <2>1, NewNode
<1>4. 0 \in Position
  BY MaskAssumption DEF Position
<1>5. QED
  BY <1>3, <1>4, FreeCellFacts
     DEF IInv, InitReserved, TypeOK, ReqInv, DescendInv, UnwindInv, TableInv

-----------------------------------------------------------------------------
(* The theorems. *)

LEMMA InitIInv == Init => IInv
<1> SUFFICES ASSUME Init PROVE IInv
  OBVIOUS
<1>1. ht \in [Slot -> Cell] /\ \A s \in Slot : ht[s].occ = "free"
  BY FreeCellFacts DEF Init
<1>2. TableInv(ht)
  BY <1>1 DEF TableInv, IsNode, HasNeighbourBitmap
<1>3. 0 \in Position /\ <<>> \in Seq(Position)
  BY MaskAssumption DEF Position
<1>4. QED
  BY <1>1, <1>2, <1>3, FreeCellFacts
     DEF Init, IInv, TypeOK, ReqInv, DescendInv, UnwindInv

LEMMA NextIInv == IInv /\ [Next]_vars => IInv'
<1> SUFFICES ASSUME IInv, [Next]_vars PROVE IInv'
  OBVIOUS
<1>1. ASSUME NEW p \in Prefix, NEW K \in FirstChildren, InsertFree(p, K)
      PROVE  IInv'
  BY <1>1, InsertFreeInv
<1>2. ASSUME NEW p \in Prefix, NEW K \in FirstChildren, InsertDisplacing(p, K)
      PROVE  IInv'
  BY <1>2, InsertDisplacingInv
<1>3. ASSUME NEW s \in Position, NEW c \in Byte, AddChild(s, c)
      PROVE  IInv'
  BY <1>3, AddChildInv
<1>4. CASE Descend
  BY <1>4, DescendInvStep
<1>5. CASE GiveUp
  BY <1>5, GiveUpInv
<1>6. CASE MoveVictim
  BY <1>6, MoveVictimInv
<1>7. CASE RelocateVictim
  BY <1>7, RelocateVictimInv
<1>8. CASE Unwind
  BY <1>8, UnwindInvStep
<1>9. CASE InitReserved
  BY <1>9, InitReservedInv
<1>10. CASE UNCHANGED vars
  BY <1>10 DEF vars, IInv, TypeOK, TableInv, ReqInv, DescendInv, UnwindInv,
     Linked, Distinct, Closed, Victim, Other, IsNode, IsOccupied,
     HasNeighbourBitmap, BitmapSlot
<1>11. QED
  BY <1>1, <1>2, <1>3, <1>4, <1>5, <1>6, <1>7, <1>8, <1>9, <1>10 DEF Next

LEMMA SpecIInv == Spec => []IInv
  BY InitIInv, NextIInv, PTL DEF Spec

\* Every variable keeps its type.
THEOREM TypeCorrect == Spec => []TypeOK
<1>1. IInv => TypeOK
  BY DEF IInv
<1>2. QED
  BY <1>1, SpecIInv, PTL

\* A node is always at one of the two positions Lookup probes.
THEOREM PlacementHolds == Spec => []Placement
<1>1. IInv => Placement
  BY DEF IInv, TableInv, Placement
<1>2. QED
  BY <1>1, SpecIInv, PTL

\* No prefix ever has two nodes.
THEOREM UniqueNodeHolds == Spec => []UniqueNode
<1>1. IInv => UniqueNode
  BY DEF IInv, TableInv, UniqueNode
<1>2. QED
  BY <1>1, SpecIInv, PTL

\* Neighbouring bitmaps and the nodes that own them always match one to one.
THEOREM BitmapsOwnedHolds == Spec => []BitmapsOwned
<1>1. IInv => BitmapsOwned
  BY DEF IInv, TableInv, BitmapsOwned
<1>2. QED
  BY <1>1, SpecIInv, PTL

\* A recursive displacement returns with its caller's target slot free.
THEOREM UnwindTargetFreeHolds == Spec => []UnwindTargetFree
<1>1. IInv => UnwindTargetFree
  <2> SUFFICES ASSUME IInv, phase = "unwind"
               PROVE  chain = <<>> => hole \in {H1[req.key], H2[req.key]}
    BY DEF IInv, UnwindInv, UnwindTargetFree
  <2>1. PICK p \in Prefix, K \in SUBSET Byte :
          /\ req = NodeCell(p, 0, K)
          /\ chain = <<>> => hole \in {H1[p], H2[p]}
    BY DEF IInv, ReqInv
  <2>2. QED
    BY <2>1 DEF NodeCell
<1>2. QED
  BY <1>1, SpecIInv, PTL

-----------------------------------------------------------------------------
(* No step loses a node or a child. *)

\* One step keeps the node at s: it is at d afterwards.
KeptAt(s, d) ==
  /\ FoundAt(ht', ht[s].key, d)
  /\ Children(ht, s) \subseteq Children(ht', d)
  /\ phase # "idle" => Children(ht', d) = Children(ht, s)

\* A step that rehouses one node and runs inside a displacement.
LEMMA RehousingKeeps ==
  ASSUME NEW v \in Slot, NEW d \in Slot, TableInv(ht), IsNode(ht, v),
         Rehoused(ht, ht', v, d), d \in {H1[ht[v].key], H2[ht[v].key]},
         NEW s \in Slot, IsNode(ht, s)
  PROVE  \E q \in Slot : KeptAt(s, q)
<1>1. CASE s = v
  <2>1. KeptAt(s, d)
    BY <1>1 DEF Rehoused, KeptAt, FoundAt
  <2>2. QED
    BY <2>1
<1>2. CASE s # v
  <2>1. KeptAt(s, s)
    BY <1>2, RehousedInv DEF Rehoused, KeptAt, FoundAt, IsNode
  <2>2. QED
    BY <2>1
<1>3. QED
  BY <1>1, <1>2

LEMMA StepKeeps ==
  ASSUME IInv, [Next]_vars, NEW s \in Slot, IsNode(ht, s)
  PROVE  \E d \in Slot : KeptAt(s, d)
<1>1. TableInv(ht) /\ (chain # <<>> => Victim \in Slot)
  BY PositionSlots DEF IInv, TypeOK, Victim
<1>2. CASE UNCHANGED ht
  <2>1. KeptAt(s, s)
    BY <1>2 DEF KeptAt, FoundAt
  <2>2. QED
    BY <2>1
<1>3. ASSUME NEW p \in Prefix, NEW K \in FirstChildren, InsertFree(p, K)
      PROVE  KeptAt(s, s)
  <2>1. PICK d \in {H1[p], H2[p]} :
          ~IsOccupied(ht, d) /\ ht' = [ht EXCEPT ![d] = NodeCell(p, 0, K)]
    BY <1>3 DEF InsertFree
  <2>2. \A r \in Slot : IsNode(ht, r) => ht[r].key # p
    BY <1>1, <1>3, NotFound DEF InsertFree
  <2>3. K \in SUBSET Byte
    BY DEF FirstChildren
  <2>4. Undisturbed(ht, ht')
    BY <1>1, <2>1, <2>2, <2>3, NewNode
  <2>5. QED
    BY <2>4 DEF Undisturbed, KeptAt, FoundAt, IsNode
<1>4. ASSUME NEW d \in Position, NEW c \in Byte, AddChild(d, c)
      PROVE  KeptAt(s, s)
  <2>1. phase = "idle"
    BY <1>4 DEF AddChild
  <2>2. ChildAdded(ht, ht', d, c)
    BY <1>1, <1>4, AddChildAdds
  <2>3. /\ IsNode(ht', s) /\ ht'[s].key = ht[s].key
        /\ Children(ht', s) = Children(ht, s) \cup (IF s = d THEN {c} ELSE {})
    BY <2>2 DEF ChildAdded
  <2>4. Children(ht, s) \subseteq Children(ht', s)
    BY <2>3
  <2>5. QED
    BY <2>1, <2>3, <2>4 DEF KeptAt, FoundAt
<1>5. ASSUME IsNode(ht, Victim), chain # <<>>,
             ~IsOccupied(ht, Other(ht, Victim)),
             ht' = MoveNode(ht, Victim, Other(ht, Victim))
      PROVE  \E d \in Slot : KeptAt(s, d)
  <2>1. Rehoused(ht, ht', Victim, Other(ht, Victim))
    BY <1>1, <1>5, OtherFacts, MoveRehouses
  <2>2. QED
    BY <1>1, <1>5, <2>1, OtherFacts, PositionSlots, RehousingKeeps
<1>6. CASE MoveVictim
  BY <1>5, <1>6 DEF MoveVictim, IInv, DescendInv
<1>7. CASE Unwind
  BY <1>5, <1>7 DEF Unwind, IInv, UnwindInv
<1>8. CASE RelocateVictim
  <2> DEFINE o == Owner(ht, Victim)
  <2>1. Victim \in Slot /\ ht[Victim].occ = "bitmap"
    BY <1>1, <1>8
       DEF IInv, DescendInv, TableInv, RelocateVictim, IsOccupied, IsNode, Cell
  <2>2. o \in Slot /\ HasNeighbourBitmap(ht, o)
    BY <1>1, <2>1, OwnerFacts
  <2>3. IsNode(ht, o) /\ o \in {H1[ht[o].key], H2[ht[o].key]}
    BY <1>1, <2>2 DEF HasNeighbourBitmap, TableInv
  <2>4. ht' = RelocateBitMap(ht, o)
    BY <1>8 DEF RelocateVictim
  <2> HIDE DEF o
  <2>5. Rehoused(ht, ht', o, o)
    BY <1>1, <2>2, <2>4, RelocateRehouses
  <2>6. QED
    BY <1>1, <2>2, <2>3, <2>5, RehousingKeeps
<1>9. CASE InitReserved
  <2>1. PICK p \in Prefix, K \in SUBSET Byte :
          /\ req = NodeCell(p, 0, K)
          /\ \A r \in Slot : IsNode(ht, r) => ht[r].key # p
          /\ hole \in {H1[p], H2[p]}
    BY <1>9 DEF IInv, ReqInv, InitReserved
  <2>2. ~IsOccupied(ht, hole) /\ ht' = [ht EXCEPT ![hole] = NodeCell(p, 0, K)]
    BY <1>9, <2>1 DEF IInv, UnwindInv, InitReserved
  <2>3. Undisturbed(ht, ht')
    BY <1>1, <2>1, <2>2, NewNode
  <2>4. KeptAt(s, s)
    BY <2>3 DEF Undisturbed, KeptAt, FoundAt, IsNode
  <2>5. QED
    BY <2>4
<1>10. ~(\/ \E p \in Prefix, K \in FirstChildren : InsertFree(p, K)
         \/ \E d \in Position, c \in Byte : AddChild(d, c)
         \/ MoveVictim \/ Unwind \/ RelocateVictim \/ InitReserved)
       => UNCHANGED ht
  BY DEF Next, vars, InsertDisplacing, Descend, GiveUp
<1>11. QED
  BY <1>2, <1>3, <1>4, <1>6, <1>7, <1>8, <1>9, <1>10

\* Whatever is inserted, extended, moved or relocated, every node that was in
\* the table is still in it, with at least the children it had.
THEOREM NodesKeptHolds == Spec => NodesKept
<1>1. ASSUME IInv, [Next]_vars
      PROVE  \A s \in Slot : IsNode(ht, s) =>
               \E d \in Slot :
                 /\ FoundAt(ht', ht[s].key, d)
                 /\ Children(ht, s) \subseteq Children(ht', d)
                 /\ phase # "idle" => Children(ht', d) = Children(ht, s)
  BY <1>1, StepKeeps DEF KeptAt
<1>2. QED
  BY <1>1, SpecIInv, PTL DEF Spec, NodesKept
=============================================================================
