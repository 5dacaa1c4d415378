---------------------------- MODULE MlpVersioned ----------------------------
(***************************************************************************)
(* The concurrent MLP index with slot versions: MlpSet::Insert under the   *)
(* global lock, and MlpSet::Exist, which takes no lock.                    *)
(*                                                                         *)
(* A key is a sequence of KeyLen digits.  The nodes of the path-compressed *)
(* tree sit in a cuckoo hash table under their index prefix, the first     *)
(* ilen digits of their keys, TopLen < ilen <= KeyLen; the first TopLen+1  *)
(* levels of the tree are also kept in flat bitmaps.  A writer makes the   *)
(* version of a slot odd while it works on the slot; a reader notes the    *)
(* versions of every slot its key may be in, searches, and starts again    *)
(* when a version has changed meanwhile.                                   *)
(*                                                                         *)
(* Each action is one access to shared memory of the writer or of one      *)
(* reader, or several that no reader can tell apart.  Nodes have at most   *)
(* eight children here, so no child bitmap leaves its node; CuckooTable    *)
(* has the bitmaps.                                                        *)
(***************************************************************************)
EXTENDS Integers, Sequences, FiniteSets

CONSTANTS
  Digit,      \* key bytes
  KeyLen,     \* bytes of a key (8)
  TopLen,     \* levels that only the flat bitmaps know (2)
  Keys,       \* the keys that are inserted and looked for
  Mask,       \* htMask
  H1, H2,     \* XXHashFn1 and XXHashFn2 of an index prefix, masked
  Fp,         \* XXHashFn3 of an index prefix: the 18 bits kept in the node
  MaxRounds,  \* depth at which a displacement gives up (1000)
  VerMod,     \* a version has 8 bits: 256
  Readers,    \* threads that call Exist
  None        \* "no value" of local variables

Level == (TopLen + 1)..KeyLen
\* __ValidateVersion compares the indexes 2..6, that is the levels 3..7: the
\* last level is read but not validated.
ValidatedLevel == (TopLen + 1)..(KeyLen - 1)
Slot == 0..Mask
Key == [1..KeyLen -> Digit]
Prefix(k, n) == SubSeq(k, 1, n)
Prefixes == {Prefix(k, n) : k \in Keys, n \in Level}

ASSUME LenAssumption == /\ KeyLen \in Nat /\ TopLen \in Nat \ {0}
                        /\ TopLen + 2 <= KeyLen
ASSUME DigitAssumption == /\ Digit \subseteq Nat /\ 0 \in Digit
                          /\ IsFiniteSet(Digit) /\ Cardinality(Digit) <= 8
ASSUME KeysAssumption == Keys \subseteq Key
ASSUME MaskAssumption == Mask \in Nat
ASSUME HashAssumption == /\ H1 \in [Prefixes -> Slot]
                         /\ H2 \in [Prefixes -> Slot]
                         /\ Fp \in [Prefixes -> Nat]
ASSUME BoundAssumption == /\ MaxRounds \in Nat \ {0}
                          /\ VerMod \in Nat /\ VerMod >= 4 /\ VerMod % 2 = 0
ASSUME NoneAssumption == None \notin Slot /\ None \notin Keys

VARIABLES
  hdr,      \* the hash word of each slot: occupied, ilen, dlen, fingerprint
  mkey,     \* minKey of each slot: the smallest key below the node
  kids,     \* childMap of each slot
  ver,      \* version_lock of each slot
  bits,     \* prefixes whose bit is set in m_root, m_treeDepth1, m_treeDepth2
  topVer,   \* versions of the three, which always change together

  wpc,      \* where the thread that holds the global lock is, "idle" when
            \* the lock is free
  wkey,     \* value
  lcp,      \* lcpLen
  nlen,     \* ilen_true_value
  pos,      \* allPositions1[ilen - 1], the node found by NaiveQueryLCP
  j,        \* index of the loops over the path
  x,        \* slot reserved by a split, None when x_used is false
  leaf,     \* inserted_leaf_node
  okey,     \* minKey of the node that is split, None when no node is
  ofp,      \* oldHash18bit
  chain,    \* victims of the displacement calls on the stack
  hole,     \* slot that the last displacement call frees
  wasOdd,   \* old_victim_state

  rd,       \* the local state of each reader

  started,  \* keys whose Insert has begun
  known     \* keys whose Insert has returned or that some Exist has found

table == <<hdr, mkey, kids>>
top == <<bits, topVer>>
call == <<wkey, lcp, nlen, pos>>
split == <<x, okey, ofp>>
displacement == <<chain, hole, wasOdd>>
history == <<started, known>>
vars == <<table, ver, top, wpc, call, j, split, leaf, displacement, rd, history>>

-----------------------------------------------------------------------------
(* Slots, keys and prefixes. *)

ZeroKey == [i \in 1..KeyLen |-> 0]
NoHdr == [occ |-> FALSE, ilen |-> 0, dlen |-> 0, fp |-> 0]
NodeHdr(i, d, f) == [occ |-> TRUE, ilen |-> i, dlen |-> d, fp |-> f]

SamePrefix(a, b, n) == \A i \in 1..n : a[i] = b[i]
LessThan(a, b) == \E i \in 1..KeyLen : a[i] < b[i] /\ SamePrefix(a, b, i - 1)
LCP(a, b) == CHOOSE n \in 0..KeyLen :
               SamePrefix(a, b, n) /\ (n < KeyLen => a[n + 1] # b[n + 1])

Pos1(k, l) == H1[Prefix(k, l)]
Pos2(k, l) == H2[Prefix(k, l)]
PosOf(i, k, l) == IF i = 1 THEN Pos1(k, l) ELSE Pos2(k, l)

\* The comparison of a hash word with expectedHash.
Matches(s, k, l) ==
  hdr[s].occ /\ hdr[s].ilen = l /\ hdr[s].fp = Fp[Prefix(k, l)]
\* IsEqual and IsEqualNoHash.
IsEqual(s, k, l) == Matches(s, k, l) /\ SamePrefix(mkey[s], k, l)
IsEqualNoHash(s, k, l) ==
  hdr[s].occ /\ hdr[s].ilen = l /\ SamePrefix(mkey[s], k, l)

IncVersion(v) == (v + 1) % VerMod
CondIncVersion(v) == (v + (v % 2)) % VerMod

-----------------------------------------------------------------------------
(* NaiveQueryLCP: the writer's search, of which it sees every slot at rest.  *)
(* The answer names the deepest node of the key's path, its slot, and the    *)
(* length of the common prefix; when there is no such node, length 0.        *)

Fast(k) == {l \in Level : Matches(Pos1(k, l), k, l) \/ Matches(Pos2(k, l), k, l)}
Slow(k) == {l \in Level : \/ IsEqualNoHash(Pos1(k, l), k, l)
                          \/ IsEqualNoHash(Pos2(k, l), k, l)}
Deepest(L) == CHOOSE l \in L : \A m \in L : m <= l

NotFound == [ilen |-> 0, pos |-> None, lcp |-> TopLen]
Found(k, l, s) == [ilen |-> l, pos |-> s, lcp |-> LCP(k, mkey[s])]

NaiveQueryLCP(k) ==
  LET l == Deepest(Fast(k))
      s == IF Matches(Pos1(k, l), k, l) THEN Pos1(k, l) ELSE Pos2(k, l)
      m == Deepest(Slow(k))
  IN  CASE Fast(k) = {} -> NotFound
        [] Fast(k) # {} /\ SamePrefix(mkey[s], k, l) -> Found(k, l, s)
        [] Fast(k) # {} /\ ~SamePrefix(mkey[s], k, l) /\ Slow(k) = {} -> NotFound
        [] OTHER -> Found(k, m, IF IsEqualNoHash(Pos1(k, m), k, m)
                                THEN Pos1(k, m) ELSE Pos2(k, m))

\* allPositions1 and allPositions2 at level l <= ilen of the writer's path.
PathPos1(l) == IF l = nlen THEN pos ELSE Pos1(wkey, l)
PathPos2(l) == Pos2(wkey, l)

-----------------------------------------------------------------------------
(* The initial state: an empty set, nobody at work. *)

NoVersions == [i \in {1, 2} |-> [l \in Level |-> 0]]

\* The local state of an Exist that begins, or begins again, its search.
Search(k, m) ==
  [pc |-> "version", key |-> k, lvl |-> KeyLen, side |-> 1, set |-> NoVersions,
   flen |-> 0, fpos |-> 0, res |-> TopLen, must |-> m]
IdleReader == [Search(None, FALSE) EXCEPT !.pc = "idle"]

Init ==
  /\ hdr = [s \in Slot |-> NoHdr]
  /\ mkey = [s \in Slot |-> ZeroKey]
  /\ kids = [s \in Slot |-> {}]
  /\ ver = [s \in Slot |-> 0]
  /\ bits = {} /\ topVer = 0
  /\ wpc = "idle"
  /\ wkey = None /\ lcp = 0 /\ nlen = 0 /\ pos = None /\ j = 0
  /\ x = None /\ okey = None /\ ofp = 0 /\ leaf = None
  /\ chain = <<>> /\ hole = None /\ wasOdd = 0
  /\ rd = [r \in Readers |-> IdleReader]
  /\ started = {} /\ known = {}

-----------------------------------------------------------------------------
(* Insert, up to the point where the path is locked. *)

\* The lock is taken and the search is done: go on at next.
Begin(k, q, next) ==
  /\ started' = started \cup {k}
  /\ wkey' = k /\ lcp' = q.lcp /\ nlen' = q.ilen /\ pos' = q.pos /\ j' = q.ilen
  /\ wpc' = next
  /\ UNCHANGED <<table, ver, split, leaf, displacement, rd, known>>

\* m_treeDepth1 does not know the key's first TopLen digits.
TopMiss(k) ==
  /\ wpc = "idle"
  /\ Prefix(k, TopLen) \notin bits
  /\ topVer' = IncVersion(topVer)
  /\ Begin(k, NotFound, "setTop")
  /\ UNCHANGED bits

SetTop ==
  /\ wpc = "setTop"
  /\ bits' = bits \cup {Prefix(wkey, n) : n \in 1..TopLen}
  /\ wpc' = "reserve"
  /\ UNCHANGED <<table, ver, topVer, call, j, split, leaf, displacement, rd, history>>

\* The key is there already: no version changes, Insert returns false.
AlreadyThere(k) ==
  /\ wpc = "idle"
  /\ Prefix(k, TopLen) \in bits
  /\ NaiveQueryLCP(k).lcp = KeyLen
  /\ started' = started \cup {k}
  /\ known' = known \cup {k}
  /\ UNCHANGED <<table, ver, top, wpc, call, j, split, leaf, displacement, rd>>

\* The path has to be locked, unless it has no node at all.
FindPath(k) ==
  /\ wpc = "idle"
  /\ Prefix(k, TopLen) \in bits
  /\ NaiveQueryLCP(k).lcp < KeyLen
  /\ Begin(k, NaiveQueryLCP(k),
           IF NaiveQueryLCP(k).ilen = 0 THEN "reserve" ELSE "lock1")
  /\ UNCHANGED top

SetVersion(s, v) == ver' = [ver EXCEPT ![s] = v]

\* LOCK_PATH_FROM_LCP: from the deepest node upwards, both positions of
\* every level, whether a node of the path is there or not.
RaisePath1(v) ==
  /\ wpc = "lock1"
  /\ SetVersion(PathPos1(j), v)
  /\ wpc' = "lock2"
  /\ UNCHANGED <<table, top, call, j, split, leaf, displacement, rd, history>>

RaisePath2(v) ==
  /\ wpc = "lock2"
  /\ SetVersion(PathPos2(j), v)
  /\ j' = j - 1
  /\ IF j > TopLen + 1
     THEN wpc' = "lock1" /\ UNCHANGED <<okey, ofp>>
     ELSE IF hdr[pos].dlen = lcp
     THEN wpc' = "extend" /\ UNCHANGED <<okey, ofp>>
     ELSE wpc' = "reserve" /\ okey' = mkey[pos] /\ ofp' = hdr[pos].fp
  /\ UNCHANGED <<table, top, call, x, leaf, displacement, rd, history>>

LockPath1 == RaisePath1(IncVersion(ver[PathPos1(j)]))
LockPath2 == RaisePath2(IncVersion(ver[PathPos2(j)]))

-----------------------------------------------------------------------------
(* ReservePositionForInsert and HashTableCuckooDisplacement, called for the  *)
(* lower part x of a split node and then for the new leaf.                   *)

Splitting == okey # None /\ x = None
ReserveKey == IF Splitting THEN okey ELSE wkey
Reservable == {Pos1(ReserveKey, lcp + 1), Pos2(ReserveKey, lcp + 1)}

\* The slot is x or the leaf's; the caller goes on at next.
Take(s, next) ==
  /\ IF Splitting THEN x' = s /\ UNCHANGED leaf ELSE leaf' = s /\ UNCHANGED x
  /\ wpc' = next
AfterLeaf == IF nlen = 0 THEN "finish" ELSE "unlock1"
Existing == {s \in Reservable : IsEqual(s, ReserveKey, lcp + 1)}

\* A slot at once: that of the node if it is there already (a split goes on, the
\* insertion of a leaf leaves it as it is), else a free one, the first first.
AtOnce == IF Existing # {} THEN Existing ELSE {s \in Reservable : ~hdr[s].occ}

Reserve ==
  /\ wpc = "reserve"
  /\ \E s \in AtOnce :
       /\ Pos1(ReserveKey, lcp + 1) \in AtOnce => s = Pos1(ReserveKey, lcp + 1)
       /\ Take(s, CASE Splitting -> "lockX"
                    [] ~Splitting /\ Existing = {} -> "initVersion"
                    [] ~Splitting /\ Existing # {} -> AfterLeaf)
  /\ j' = nlen
  /\ UNCHANGED <<table, ver, top, call, okey, ofp, displacement, rd, history>>

\* Both are taken: a coin toss picks the first victim.
ReserveDisplacing ==
  /\ wpc = "reserve"
  /\ AtOnce = {}
  /\ \E v \in Reservable : chain' = <<v>>
  /\ wpc' = "descend"
  /\ UNCHANGED <<table, ver, top, call, j, split, leaf, hole, wasOdd, rd, history>>

Victim == chain[Len(chain)]
IndexKey(v) == Prefix(mkey[v], hdr[v].ilen)
Other(v) == IF H1[IndexKey(v)] = v THEN H2[IndexKey(v)] ELSE H1[IndexKey(v)]

Descend ==
  /\ wpc = "descend"
  /\ hdr[Other(Victim)].occ
  /\ Len(chain) < MaxRounds
  /\ chain' = Append(chain, Other(Victim))
  /\ UNCHANGED <<table, ver, top, wpc, call, j, split, leaf, hole, wasOdd, rd,
                 history>>

\* Too deep.  The position returned is -1 and the assertion against it is not
\* in the build: a split touches slot -1 at once and crashes; the insertion of
\* a leaf goes on to its end first.
GiveUp ==
  /\ wpc = "descend"
  /\ hdr[Other(Victim)].occ
  /\ Len(chain) = MaxRounds
  /\ chain' = <<>>
  /\ wpc' = IF Splitting THEN "crashed" ELSE AfterLeaf
  /\ j' = nlen
  /\ UNCHANGED <<table, ver, top, call, split, leaf, hole, wasOdd, rd, history>>

FoundHole ==
  /\ wpc = "descend"
  /\ ~hdr[Other(Victim)].occ
  /\ hole' = Other(Victim)
  /\ wpc' = "lockHole"
  /\ UNCHANGED <<table, ver, top, call, j, split, leaf, chain, wasOdd, rd, history>>

\* A step of a move touches only the versions, or only the slots.
MoveStep(from, to) ==
  /\ wpc = from
  /\ wpc' = to
  /\ UNCHANGED <<top, call, j, okey, ofp, rd, history>>

LockHole ==
  /\ MoveStep("lockHole", "lockVictim")
  /\ SetVersion(hole, IncVersion(ver[hole]))
  /\ UNCHANGED <<table, x, leaf, displacement>>

\* A variant of LockVictim that keeps the version, not whether it was odd.
LockVictimCounts ==
  /\ MoveStep("lockVictim", "moveHash")
  /\ wasOdd' = ver[Victim]
  /\ SetVersion(Victim, (ver[Victim] + 1 - (ver[Victim] % 2)) % VerMod)
  /\ UNCHANGED <<table, x, leaf, chain, hole>>

LockVictim ==
  /\ MoveStep("lockVictim", "moveHash")
  /\ wasOdd' = ver[Victim] % 2
  /\ SetVersion(Victim, (ver[Victim] + 1 - (ver[Victim] % 2)) % VerMod)
  /\ UNCHANGED <<table, x, leaf, chain, hole>>

\* MoveNode from the slot s to the slot d: hash word, minKey and children,
\* then the old slot is cleared.  minKey and the hash word are in the first
\* 16 bytes of a slot, which memset clears at once.
CopyHash(s, d) == hdr' = [hdr EXCEPT ![d] = hdr[s]] /\ UNCHANGED <<mkey, kids>>
CopyRest(s, d) ==
  /\ mkey' = [mkey EXCEPT ![d] = mkey[s]]
  /\ kids' = [kids EXCEPT ![d] = kids[s]]
  /\ UNCHANGED hdr
ClearSlot(s) ==
  /\ hdr' = [hdr EXCEPT ![s] = NoHdr]
  /\ mkey' = [mkey EXCEPT ![s] = ZeroKey]
  /\ kids' = [kids EXCEPT ![s] = {}]

MoveHash ==
  /\ MoveStep("moveHash", "moveRest")
  /\ CopyHash(Victim, hole)
  /\ UNCHANGED <<ver, x, leaf, displacement>>

MoveRest ==
  /\ MoveStep("moveRest", "moveClear")
  /\ CopyRest(Victim, hole)
  /\ UNCHANGED <<ver, x, leaf, displacement>>

MoveClear ==
  /\ MoveStep("moveClear", "unlockVictim")
  /\ ClearSlot(Victim)
  /\ UNCHANGED <<ver, x, leaf, displacement>>

UnlockVictim ==
  /\ MoveStep("unlockVictim", "unlockHole")
  /\ SetVersion(Victim, (ver[Victim] + 1 - wasOdd) % VerMod)
  /\ UNCHANGED <<table, x, leaf, displacement>>

\* The displacement call returns: its caller moves its own victim into the
\* slot that is free now, or the first call's victim is the slot reserved.
UnlockHole ==
  /\ wpc = "unlockHole"
  /\ SetVersion(hole, IncVersion(ver[hole]))
  /\ chain' = SubSeq(chain, 1, Len(chain) - 1)
  /\ wasOdd' = 0
  /\ IF Len(chain) > 1
     THEN wpc' = "lockHole" /\ hole' = Victim /\ UNCHANGED <<x, leaf>>
     ELSE hole' = None /\ Take(Victim, IF Splitting THEN "lockX" ELSE "initVersion")
  /\ UNCHANGED <<table, top, call, j, okey, ofp, rd, history>>

-----------------------------------------------------------------------------
(* The split of a node, its extension, and the new leaf. *)

NodeStep(from, to) ==
  /\ MoveStep(from, to)
  /\ UNCHANGED <<x, leaf, displacement>>

LockX ==
  /\ NodeStep("lockX", "splitHash")
  /\ SetVersion(x, IncVersion(ver[x]))
  /\ UNCHANGED table

\* ht[pos].MoveNode(&ht[x]), whatever pos holds by now.
SplitHash == NodeStep("splitHash", "splitRest") /\ CopyHash(pos, x) /\ UNCHANGED ver
SplitRest == NodeStep("splitRest", "splitClear") /\ CopyRest(pos, x) /\ UNCHANGED ver
SplitClear == NodeStep("splitClear", "alterLen") /\ ClearSlot(pos) /\ UNCHANGED ver

AlterIndexKeyLen ==
  /\ NodeStep("alterLen", "alterHash")
  /\ hdr' = [hdr EXCEPT ![x].ilen = lcp + 1]
  /\ UNCHANGED <<ver, mkey, kids>>

AlterHash18bit ==
  /\ NodeStep("alterHash", "initVersion")
  /\ hdr' = [hdr EXCEPT ![x].fp = Fp[Prefix(okey, lcp + 1)]]
  /\ UNCHANGED <<ver, mkey, kids>>

\* Node::Init, for the upper part of a split node and for the new leaf.
UpperPart == leaf = None
Lower(a, b) == IF LessThan(a, b) THEN a ELSE b
NewSlot == IF UpperPart THEN pos ELSE leaf
NewKey == IF UpperPart THEN Lower(wkey, okey) ELSE wkey
NewKids == IF UpperPart THEN {okey[lcp + 1]} ELSE {}
NewHdr == IF UpperPart THEN NodeHdr(nlen, lcp, ofp)
          ELSE NodeHdr(lcp + 1, KeyLen, Fp[Prefix(wkey, lcp + 1)])

\* A variant of AfterNode that never tells the parents of a new minimum.
AfterNodeStops(lowered) == "reserve"

\* After the node on the path is in order: its minKey was lowered or not.
AfterNode(lowered) == IF lowered /\ nlen - 1 > TopLen THEN "parents" ELSE "reserve"

InitVersion ==
  /\ NodeStep("initVersion", "initRest")
  /\ SetVersion(NewSlot, 1)
  /\ UNCHANGED table

InitRest ==
  /\ NodeStep("initRest", "initHash")
  /\ mkey' = [mkey EXCEPT ![NewSlot] = NewKey]
  /\ kids' = [kids EXCEPT ![NewSlot] = NewKids]
  /\ UNCHANGED <<ver, hdr>>

InitHash ==
  /\ wpc = "initHash"
  /\ hdr' = [hdr EXCEPT ![NewSlot] = NewHdr]
  /\ wpc' = IF UpperPart THEN "addChild" ELSE AfterLeaf
  /\ j' = nlen
  /\ UNCHANGED <<mkey, kids, ver, top, call, split, leaf, displacement, rd, history>>

AddChild(s) == kids' = [kids EXCEPT ![s] = @ \cup {wkey[lcp + 1]}]

\* The second child of a node that was split.
AddSecond ==
  /\ wpc = "addChild"
  /\ AddChild(pos)
  /\ wpc' = AfterNode(LessThan(wkey, okey))
  /\ j' = nlen - 1
  /\ UNCHANGED <<hdr, mkey, ver, top, call, split, leaf, displacement, rd, history>>

\* A variant of Extend that leaves minKey alone.
ExtendKidsOnly ==
  /\ wpc = "extend"
  /\ AddChild(pos)
  /\ wpc' = AfterNode(FALSE)
  /\ j' = nlen - 1
  /\ UNCHANGED <<hdr, mkey, ver, top, call, split, leaf, displacement, rd, history>>

\* The node's compressed string matched: it gets a child, then the minimum.
Extend ==
  /\ wpc = "extend"
  /\ AddChild(pos)
  /\ wpc' = "extendKey"
  /\ UNCHANGED <<hdr, mkey, ver, top, call, j, split, leaf, displacement, rd, history>>

ExtendKey ==
  /\ wpc = "extendKey"
  /\ mkey' = [mkey EXCEPT ![pos] = Lower(wkey, mkey[pos])]
  /\ wpc' = AfterNode(LessThan(wkey, mkey[pos]))
  /\ j' = nlen - 1
  /\ UNCHANGED <<hdr, kids, ver, top, call, split, leaf, displacement, rd, history>>

\* The minimum goes up the path, a level at a time, until it is none.
OnPath == {s \in {Pos1(wkey, j), Pos2(wkey, j)} : IsEqualNoHash(s, wkey, j)}
Parent == IF Pos1(wkey, j) \in OnPath THEN Pos1(wkey, j) ELSE Pos2(wkey, j)
Lowers == OnPath # {} /\ LessThan(wkey, mkey[Parent])

Parents ==
  /\ wpc = "parents"
  /\ IF Lowers
     THEN mkey' = [mkey EXCEPT ![Parent] = wkey]
     ELSE UNCHANGED mkey
  /\ j' = j - 1
  /\ wpc' = IF j = TopLen + 1 \/ (OnPath # {} /\ ~Lowers) THEN "reserve"
            ELSE "parents"
  /\ UNCHANGED <<hdr, kids, ver, top, call, split, leaf, displacement, rd, history>>

-----------------------------------------------------------------------------
(* The end of Insert. *)

\* The call's locals are gone.
EndInsert(next) ==
  /\ wpc' = next
  /\ wkey' = None /\ lcp' = 0 /\ nlen' = 0 /\ pos' = None /\ j' = 0
  /\ x' = None /\ okey' = None /\ ofp' = 0 /\ leaf' = None
  /\ UNCHANGED <<table, displacement, rd, started>>

\* The lock is released.
Finish == EndInsert("idle") /\ known' = known \cup {wkey}

\* lcpLen is 2: m_treeDepth2 gets its bit, whether the top levels are locked or
\* not, and then they are unlocked.
FinishTop ==
  /\ wpc = "finish" /\ leaf # None
  /\ bits' = bits \cup {Prefix(wkey, TopLen + 1)}
  /\ wpc' = "unlockTop"
  /\ UNCHANGED <<table, ver, topVer, call, j, split, leaf, displacement, rd, history>>

LowerTop ==
  /\ wpc = "unlockTop"
  /\ topVer' = CondIncVersion(topVer)
  /\ SetVersion(leaf, CondIncVersion(ver[leaf]))
  /\ UNCHANGED bits

UnlockTop == LowerTop /\ Finish

UnlockPath1 ==
  /\ wpc = "unlock1"
  /\ SetVersion(PathPos1(j), CondIncVersion(ver[PathPos1(j)]))
  /\ wpc' = "unlock2"
  /\ UNCHANGED <<table, top, call, j, split, leaf, displacement, rd, history>>

\* A variant of UnlockPath2 after which the slot of a split stays locked.
UnlockPath2SkipsX ==
  /\ wpc = "unlock2"
  /\ SetVersion(PathPos2(j), CondIncVersion(ver[PathPos2(j)]))
  /\ j' = j - 1
  /\ wpc' = IF j > TopLen + 1 THEN "unlock1" ELSE "unlockLeaf"
  /\ UNCHANGED <<table, top, call, split, leaf, displacement, rd, history>>

UnlockPath2 ==
  /\ wpc = "unlock2"
  /\ SetVersion(PathPos2(j), CondIncVersion(ver[PathPos2(j)]))
  /\ j' = j - 1
  /\ wpc' = IF j > TopLen + 1 THEN "unlock1"
            ELSE IF x # None THEN "unlockX" ELSE "unlockLeaf"
  /\ UNCHANGED <<table, top, call, split, leaf, displacement, rd, history>>

UnlockX ==
  /\ NodeStep("unlockX", "unlockLeaf")
  /\ SetVersion(x, CondIncVersion(ver[x]))
  /\ UNCHANGED table

LowerLeaf ==
  /\ wpc = "unlockLeaf" /\ leaf # None
  /\ SetVersion(leaf, CondIncVersion(ver[leaf]))
  /\ UNCHANGED top

UnlockLeaf == LowerLeaf /\ Finish

\* No leaf was reserved: the version of slot -1 is not there to be written.
Crash ==
  /\ wpc \in {"finish", "unlockLeaf"} /\ leaf = None
  /\ wpc' = "crashed"
  /\ UNCHANGED <<table, ver, top, call, j, split, leaf, displacement, rd, history>>

Insert(k) == TopMiss(k) \/ AlreadyThere(k) \/ FindPath(k)
Writer ==
  \/ SetTop \/ LockPath1 \/ LockPath2
  \/ Reserve \/ ReserveDisplacing
  \/ Descend \/ GiveUp \/ FoundHole
  \/ LockHole \/ LockVictim \/ MoveHash \/ MoveRest \/ MoveClear
  \/ UnlockVictim \/ UnlockHole
  \/ LockX \/ SplitHash \/ SplitRest \/ SplitClear
  \/ AlterIndexKeyLen \/ AlterHash18bit
  \/ InitVersion \/ InitRest \/ InitHash
  \/ AddSecond \/ Extend \/ ExtendKey \/ Parents
  \/ UnlockPath1 \/ UnlockPath2 \/ UnlockX \/ UnlockLeaf
  \/ FinishTop \/ UnlockTop \/ Crash

-----------------------------------------------------------------------------
(* Exist: QueryLCP, without a lock. *)

\* A crash of the writer takes the whole process down.
At(r, l) == rd[r].pc = l /\ wpc # "crashed"
Become(r, c) == /\ rd' = [rd EXCEPT ![r] = c]
                /\ UNCHANGED <<table, ver, top, wpc, call, j, split, leaf,
                               displacement, history>>

\* The loops over the levels go from the last one upwards and look at both
\* positions of a level; after the last one, go on at next.
Advance(c, next) ==
  IF c.side = 1 THEN [c EXCEPT !.side = 2]
  ELSE IF c.lvl > TopLen + 1 THEN [c EXCEPT !.side = 1, !.lvl = c.lvl - 1]
  ELSE [c EXCEPT !.side = 1, !.pc = next,
                 !.lvl = IF next = "validate" THEN TopLen + 1 ELSE KeyLen]
Validate(c, n) ==
  [c EXCEPT !.pc = "validate", !.side = 1, !.lvl = TopLen + 1, !.res = n]

Invoke(r, k) ==
  /\ At(r, "idle")
  /\ Become(r, Search(k, k \in known))

\* A variant of ReadVersion that takes odd versions as they are.
ReadVersionAny(r) ==
  LET c == rd[r]
      d == [c EXCEPT !.set[c.side][c.lvl] = ver[PosOf(c.side, c.key, c.lvl)]]
  IN  /\ At(r, "version")
      /\ Become(r, Advance(d, "scan"))

\* Note the versions of a level's two slots; start again when one is odd.
ReadVersion(r) ==
  LET c == rd[r]
      v == ver[PosOf(c.side, c.key, c.lvl)]
      d == [c EXCEPT !.set[c.side][c.lvl] = v]
      odd == c.side = 2 /\ (v % 2 = 1 \/ c.set[1][c.lvl] % 2 = 1)
  IN  /\ At(r, "version")
      /\ Become(r, IF odd THEN Search(c.key, c.must) ELSE Advance(d, "scan"))

\* Compare a hash word; the first match ends the scan.
Scan(r) ==
  LET c == rd[r]
      s == PosOf(c.side, c.key, c.lvl)
  IN  /\ At(r, "scan")
      /\ Become(r, IF Matches(s, c.key, c.lvl)
                   THEN [c EXCEPT !.pc = "key", !.flen = c.lvl, !.fpos = s]
                   ELSE Advance(c, "validate"))

\* The key of the slot that matched, or else the slow path.
ReadKey(r) ==
  LET c == rd[r]
      m == mkey[c.fpos]
  IN  /\ At(r, "key")
      /\ Become(r, IF SamePrefix(m, c.key, c.flen)
                   THEN Validate(c, LCP(m, c.key))
                   ELSE [c EXCEPT !.pc = "slow", !.side = 1, !.lvl = KeyLen])

\* The scan has overwritten allPositions1: 0 where nothing matched, the
\* match at its level.
SlowPos(c) ==
  CASE c.side = 2 -> Pos2(c.key, c.lvl)
    [] c.side = 1 /\ c.lvl > c.flen -> 0
    [] c.side = 1 /\ c.lvl = c.flen -> c.fpos
    [] c.side = 1 /\ c.lvl < c.flen -> Pos1(c.key, c.lvl)

\* IsEqualNoHash reads the hash word, then minKey.
SlowHash(r) ==
  LET c == rd[r]
      h == hdr[SlowPos(c)]
  IN  /\ At(r, "slow")
      /\ Become(r, IF h.occ /\ h.ilen = c.lvl THEN [c EXCEPT !.pc = "slowKey"]
                   ELSE Advance(c, "validate"))

SlowKey(r) ==
  LET c == rd[r]
      s == SlowPos(c)
  IN  /\ At(r, "slowKey")
      /\ Become(r, IF SamePrefix(mkey[s], c.key, c.lvl)
                   THEN [c EXCEPT !.pc = "slowEnd", !.flen = c.lvl, !.fpos = s]
                   ELSE Advance([c EXCEPT !.pc = "slow"], "validate"))

SlowEnd(r) ==
  /\ At(r, "slowEnd")
  /\ Become(r, Validate(rd[r], LCP(mkey[rd[r].fpos], rd[r].key)))

\* __ValidateVersion, from the first level downwards, without the last one.
ValidateVersion(r) ==
  LET c == rd[r]
      same == ver[PosOf(c.side, c.key, c.lvl)] = c.set[c.side][c.lvl]
      next == IF c.side = 1 THEN [c EXCEPT !.side = 2]
              ELSE IF c.lvl + 1 \in ValidatedLevel
              THEN [c EXCEPT !.side = 1, !.lvl = c.lvl + 1]
              ELSE [c EXCEPT !.pc = "return"]
  IN  /\ At(r, "validate")
      /\ Become(r, IF same THEN next ELSE Search(c.key, c.must))

\* A variant of Finds that takes a common prefix below the flat levels for the key.
FindsPrefix(c) == c.res > TopLen

\* Exist is true when the whole key matched.
Finds(c) == c.res = KeyLen

Return(r) ==
  /\ At(r, "return")
  /\ rd' = [rd EXCEPT ![r] = IdleReader]
  /\ known' = IF Finds(rd[r]) THEN known \cup {rd[r].key} ELSE known
  /\ UNCHANGED <<table, ver, top, wpc, call, j, split, leaf, displacement, started>>

Exist(r) == ReadVersion(r) \/ Scan(r) \/ ReadKey(r) \/ SlowHash(r) \/ SlowKey(r)
              \/ SlowEnd(r) \/ ValidateVersion(r) \/ Return(r)

Next ==
  \/ \E k \in Keys : Insert(k)
  \/ Writer
  \/ \E r \in Readers, k \in Keys : Invoke(r, k)
  \/ \E r \in Readers : Exist(r)

Spec == Init /\ [][Next]_vars

\* The holder of the lock and every reader are scheduled again and again.
FairSpec == Spec /\ WF_vars(Writer) /\ \A r \in Readers : WF_vars(Exist(r))

-----------------------------------------------------------------------------
(* Properties. *)

\* Every variable has its type.
TypeOK ==
  /\ hdr \in [Slot -> [occ : BOOLEAN, ilen : 0..KeyLen, dlen : 0..KeyLen, fp : Nat]]
  /\ mkey \in [Slot -> Key \cup {ZeroKey}]
  /\ kids \in [Slot -> SUBSET Digit]
  /\ ver \in [Slot -> 0..(VerMod - 1)]
  /\ topVer \in 0..(VerMod - 1)
  /\ wkey \in Keys \cup {None} /\ okey \in Key \cup {None}
  /\ lcp \in 0..KeyLen /\ nlen \in 0..KeyLen /\ j \in 0..KeyLen
  /\ {pos, x, leaf, hole} \subseteq Slot \cup {None}
  /\ ofp \in Nat /\ wasOdd \in {0, 1}
  /\ chain \in Seq(Slot)
  /\ started \subseteq Keys /\ known \subseteq Keys
  /\ \A r \in Readers :
       /\ rd[r].key \in Keys \cup {None}
       /\ rd[r].lvl \in Level /\ rd[r].side \in {1, 2}
       /\ rd[r].set \in [{1, 2} -> [Level -> 0..(VerMod - 1)]]
       /\ rd[r].flen \in 0..KeyLen /\ rd[r].fpos \in Slot
       /\ rd[r].res \in 0..KeyLen /\ rd[r].must \in BOOLEAN

\* When no Insert is running every version is even, whatever collisions the
\* path had: a version left odd would make every reader of that slot spin
\* until the next writer passed.
QuiescentEven ==
  wpc = "idle" => /\ \A s \in Slot : ver[s] % 2 = 0
                  /\ topVer % 2 = 0

\* An Exist that began when the key was known to be in the set (its Insert
\* had returned, or an Exist had found it) finds it, although splits and
\* displacements move the key's leaf while the search is under way.
NoLostKey ==
  \A r \in Readers : rd[r].pc = "return" /\ rd[r].must => Finds(rd[r])

\* An Exist finds no key whose Insert has not begun: it never takes a hash
\* word, or a minKey, of one node for another's.
NoPhantom ==
  \A r \in Readers : rd[r].pc = "return" /\ Finds(rd[r]) => rd[r].key \in started

\* The compressed tree of a set of keys: the children of the flat levels and
\* of the branching points, each with the compressed string below it.
Smallest(K) == CHOOSE k \in K : \A l \in K : ~LessThan(l, k)
Below(K, p) == {k \in K : Prefix(k, Len(p)) = p}
Branches(K, n) == \E k, l \in K : k # l /\ LCP(k, l) = n
FullLen(K) == CHOOSE n \in 0..KeyLen :
                /\ \A k, l \in K : SamePrefix(k, l, n)
                /\ n = KeyLen \/ Branches(K, n)
Tree(K) ==
  {[ilen |-> Len(p), dlen |-> FullLen(Below(K, p)), fp |-> Fp[p],
    mkey |-> Smallest(Below(K, p)),
    kids |-> {k[FullLen(Below(K, p)) + 1] : k \in {l \in Below(K, p) :
                                            FullLen(Below(K, p)) < KeyLen}}] :
     p \in {q \in {Prefix(k, n) : k \in K, n \in Level} :
              Len(q) = TopLen + 1 \/ Branches(Below(K, SubSeq(q, 1, Len(q) - 1)),
                                              Len(q) - 1)}}

Occupied == {s \in Slot : hdr[s].occ}

\* When no Insert is running the table holds the tree of the keys inserted,
\* each node once, at one of its two positions, and the flat levels hold
\* their prefixes: however the splits, the displacements and the pushing up of
\* minKey have come about, the result depends on the set alone.
TreeOK ==
  wpc = "idle" =>
    /\ {[ilen |-> hdr[s].ilen, dlen |-> hdr[s].dlen, fp |-> hdr[s].fp,
         mkey |-> mkey[s], kids |-> kids[s]] : s \in Occupied} = Tree(started)
    /\ Cardinality(Occupied) = Cardinality(Tree(started))
    /\ \A s \in Occupied : s \in {H1[IndexKey(s)], H2[IndexKey(s)]}
    /\ bits = {Prefix(k, n) : k \in started, n \in 1..(TopLen + 1)}

\* What the comment on version_lock says: an even version is the version of a
\* slot in a consistent state, so a slot changes only while it is odd.
ModifiedOnlyOdd ==
  [][\A s \in Slot : hdr'[s] # hdr[s] \/ mkey'[s] # mkey[s] => ver[s] % 2 = 1]_vars

\* Insert and Exist are linearizable: together they are a set that grows one
\* key at a time.  An Insert that returns false has found a key whose insertion
\* is over, one that returns true has not, and every Exist fits.
Answered(r) == IF rd[r].pc = "return" THEN Finds(rd[r]) ELSE None
LinSet == INSTANCE LinearizableSet
            WITH Key <- Keys, Reader <- Readers, set <- known, pend <- wkey,
                 call <- [r \in Readers |-> [key |-> rd[r].key, must |-> rd[r].must,
                                            answer |-> Answered(r)]]
Linearizable == LinSet!Spec

\* Every Exist returns, unless the process crashes: the retries end, because
\* the keys are finitely many and the versions are even between insertions.
ExistReturns ==
  \A r \in Readers :
    (rd[r].pc # "idle") ~> (rd[r].pc = "idle" \/ wpc = "crashed")
=============================================================================
