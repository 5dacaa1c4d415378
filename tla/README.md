# The concurrent MLP index in TLA+

The repository holds an ordered set of 64-bit integers, the *MLP index*, and the steps by which it
was made concurrent and then taught to store ranges. These modules model all of its operations, TLC checks
them on small instances, and TLAPS proves for every instance what holds for every instance: the hash table, the decomposition of
ranges, the sequential index with its refinement of a sorted set, the index of ranges, and some of what readers may rely on beside a writer.

File names below are short for:

| short | file |
|---|---|
| O, Oh | `src/Code/Part1_concurrent_mlp_index/src/Origin/MlpSetUInt64.cpp`, `.h` |
| G, Gh | `src/Code/Part1_concurrent_mlp_index/src/Global_lock/MlpSetUInt64.cpp`, `.h` |
| V, Vh | `src/Code/Part1_concurrent_mlp_index/src/Versioning/MlpSetUInt64.cpp`, `.h` |
| P3, P3h | `src/Code/Part3_concurrent_ranged_mlp/src/MlpRangeConcurrent/MlpSetUInt64.cpp`, `.h` |
| RM | `src/Code/Part3_concurrent_ranged_mlp/src/MlpRangeConcurrent/RangeModule.cpp` |

## The system

| part | state | operations | what makes it correct |
|---|---|---|---|
| **Cuckoo hash table** (`CuckooHashTable`, `CuckooHashTableNode`; all versions) | an array of slots (24 bytes in O and G, 25 packed in V and P3); a slot is free, a tree node, or the part of a node's child bitmap that the node has no room for | `Insert`, `ReservePositionForInsert`, `HashTableCuckooDisplacement`, `AddChild`, `ExtendToBitMap`, `MoveNode`, `RelocateBitMap`, `Lookup` | a node is at one of its two positions, once; a bitmap is where its node says; displacement loses nothing |
| **Index** (`MlpSet`) | a path-compressed trie over the key's bytes: its first three levels as flat bitmaps (`m_root`, `m_treeDepth1`, `m_treeDepth2`), every node below as a hash-table entry under its index prefix, with the smallest key of its subtree | `Insert`, `Exist`, `LowerBound` | the table always holds the trie of the inserted keys |
| **Versioning** (V) | an 8-bit version in each slot and one for each flat bitmap; a spin lock | `Insert` under the lock raises versions to odd values and back; `Exist` and `LowerBound` run without it and start again when a version is odd or has changed | what a reader returns was true at some moment of its call |
| **Global lock** (G) | a `std::mutex` | the same three operations, one at a time; the promise of `LowerBound(value)` is resolved without the mutex | the replies are those of a sorted set; a promise is resolved to what was a lower bound, at whatever moment of another thread's insertion: the first holds where no split displaces its own node, the second where no node is moving (points 14 and 15 below) |
| **Sequential index** (O) | | the same, single-threaded | the replies are those of a sorted set; a promise stays good across the caller's own insertions |
| **Range decomposition** (RM; `Part2…/RangeModule.cpp` before it) | a stack of ranges during one call | `handle_range` | an exact partition into ranges that one node's child bitmap can store |
| **Concurrent ranges** (P3) | as Versioning, and a write set that keeps the slots of a range's path locked over several insertions | `InsertRange`, `InsertPerfectRange`, `Insert`, `Exist`, `LowerBound` | a key is found if it is in a range; readers see slots at rest |
| Maple tree, userspace RCU, tests, workloads, benchmarks, scripts | | | vendored code or drivers |

How the parts interact: `MlpSet::Insert` calls the hash table under the lock, and all its effects on
slots are visible at once to readers, which share the slots and their versions with it and nothing
else. A displacement started by one insertion moves nodes of any part of the trie, also the nodes
whose slots the same insertion has found and locked before. `InsertRange` calls `handle_range` and
then `Insert` twice for each range that is stored below the flat levels.

What is hard here: the readers, which see every intermediate state of splits and displacements; slots
that are reached by more than one route in one insertion (both positions of a node, a path node that
a displacement moves, the slot a split vacates and rebuilds), so that parity counting goes wrong;
recursion in the displacement, which may run into itself or into bitmaps; errors that only
assertions catch, because the build sets `-DNDEBUG`; and the arithmetic of range bounds at both ends
of the key space. `PROJECT.json` lists these hazards with their lines.

## The modules

| module | what it is | uses |
|---|---|---|
| `CuckooTable` | the hash table as the lock's holder sees it, with child bitmaps and the recursive displacement | |
| `CuckooTableProofs` | the inductive invariant of `CuckooTable` and six theorems | `CuckooTable` |
| `CuckooSplit` | what `MlpSet` does to the table beside inserting: the split of a node, the deletion of leaves | `CuckooTable` |
| `Digits` | keys as numbers of `KeyLen` digits, and the weights of their digits | |
| `NaturalFacts` | least and greatest elements, induction and recursion on the naturals, stated for sets | |
| `DigitsProofs` | lemmas on powers and quotients | `Digits`, `NaturalFacts` |
| `Trie` | the trie and its operations as functions: `QueryLCP`, `Insert`, `LowerBoundInternal`, promises | `Digits` |
| `TrieProofs` | lemmas: the tree that a set of keys determines, and that every operation of `Trie` keeps it or finds in it what it looks for | `Trie`, `DigitsProofs` |
| `SequentialIndex` | one call of `MlpSet` per step (O, and what holds the mutex in G), and a promise that is held across calls | `Trie` |
| `SequentialIndexProofs` | the inductive invariant of `SequentialIndex` and four theorems, the refinement among them | `SequentialIndex`, `TrieProofs` |
| `SortedSet` | what the comments on the operations promise: a sorted set that grows | |
| `MlpVersioned` | one writer (`Insert`, under the lock) and lock-free readers (`Exist`) over slots with versions (V) | |
| `MlpVersionedProofs` | the inductive invariant of `MlpVersioned` and three theorems | `MlpVersioned`, `NaturalFacts` |
| `LinearizableSet` | what `Insert` and `Exist` promise together: a set that grows, and answers that fit a moment of their call | |
| `MlpGlobalLock` | the writer of `MlpVersioned` without versions, `Exist` and `LowerBound` under the mutex, and `Resolve` without it (G) | `MlpVersioned` |
| `MlpLowerBound` | `LowerBound` and its promise beside the writer of `MlpVersioned` (V) | `MlpVersioned` |
| `RangeDecomposition` | `handle_range` | `Digits` |
| `RangeDecompositionProofs` | the inductive invariant of `RangeDecomposition` and four theorems | `RangeDecomposition`, `DigitsProofs` |
| `RangedTrie` | perfect ranges in the trie: the dummy insertions, runs of children without nodes, `Exist` and `LowerBound` over them (P3) | `Trie` |
| `RangedIndex` | `InsertRange`: a range is cut up and its parts are put in one by one (P3) | `RangedTrie`, an instance of `RangeDecomposition` |
| `RangedIndexProofs` | the inductive invariant of `RangedIndex` and six theorems: what ranges do to the trie, and what `Exist` and `LowerBound` find in it | `RangedIndex`, `TrieProofs`, an instance of `RangeDecompositionProofs` |
| `MlpRanged` | `InsertRange`, `Insert` and `Exist` of P3 over slots with versions and the write set | `MlpVersioned` |
| `MC…` | small instances for TLC | |

Two views of the index are modelled. `Trie` and what is built on it say *which nodes there are*: the algorithm, with the
arithmetic of bytes and prefixes. `MlpVersioned` and what is built on it say *which slot holds what at which moment*: the
concurrency, with hash functions and versions. `TreeOK` and `Canonical` are the common ground: the slots at rest hold the
tree that the set of keys determines, and so does the trie.

### Trie, SequentialIndex, SortedSet

A key is an integer of `KeyLen` digits (`Digits`), a prefix a pair of length and value. A trie has the bits of the flat bitmaps and the
nodes of the hash table by index prefix. `InsertInto` is all of `Insert`: the split or the extension of the deepest node, the
minimum on its way up (`PushUp`), the leaf, the bits. `LowerBoundInternal` is all of the search: at the node, down to the next
child, up the path (`ParentPath`), and over the flat bitmaps (`FlatMapping`). A promise is a slot's key or the index prefix of a
node that must exist. `SequentialIndex!Implements` is the refinement: with `set` mapped to the leaves and `reply` to `reply`,
every behaviour is one of `SortedSet`. `PromiseKeptBetweenCalls` is about one thread, as in O: it
holds a promise while it inserts, and resolves it when no call is under way. In G `Insert`, `Exist` and both `LowerBound`s hold the mutex
from their first statement to their last and are steps like these, but `Resolve` is not (Gh:251): see `MlpGlobalLock`.
A promise names a slot when the value itself is there, or lies below the minimum of the node beside whose string the search ended (G:1454-1458,
and the same in O). It may lose that slot to a displacement; the trie has no slots, and the property speaks of the other kind.

### CuckooTable

`ht` is the array `ht` with the three slots before and after it that bitmaps may use. A slot keeps its
occupancy, its prefix (index length and bytes), the 3-bit offset and the children stored in it. The
recursive function `HashTableCuckooDisplacement` has an explicit stack: `chain` holds the victims of
the calls in progress, `Descend` is a recursive call, `MoveVictim` and `RelocateVictim` are the calls that
recurse no further, `Unwind` is what a caller does after its recursive call has returned, `GiveUp` is the
round limit (1000 in the code) and `InitReserved` is `Insert` initialising the slot it was given. The
coin toss that picks the first victim is a choice. The source is P3, whose table code is that of V with
line numbers moved. The order in which children are kept in a small node is left out.

`Next` has what `MlpSet` calls with a node in its place: inserting one and adding a child. The two other things that `MlpSet` does to slots are
in `CuckooSplit`, on the same table: a split (P3:1597-1641) goes through `BeginSplit`, the reservation of the lower part's slot with its displacement,
`MoveReserved` (`MoveNode`, `AlterIndexKeyLen`, `AlterHash18bit`), `InitUpper`, `AddSecond` and the place of the debug build's assertions, `EndSplit`;
`DeleteLeaf` is the `hash = 0` of P3:2303-2307. A displacement that gives up is not among its actions.

### MlpVersioned

One action is one access to shared memory, or several accesses that no reader can tell apart. The
writer's `wpc` walks through `Insert`: the flat bitmaps and the search (`TopMiss`, `AlreadyThere`, `FindPath`),
`LOCK_PATH_FROM_LCP` (`LockPath1`, `LockPath2`), reservation of a slot with its displacement (`Reserve`
to `UnlockHole`), the split (`LockX` to `InitHash`) or the extension of the deepest node (`Extend`), the new
minimum on its way up (`Parents`), the new leaf (again `Reserve` and `Init…`), and the unlocking. A
reader's record walks through `QueryLCP`: note the versions (`ReadVersion`), compare hash words
(`Scan`), compare the key (`ReadKey`), the slow path after a collision (`SlowHash`, `SlowKey`,
`SlowEnd`), validate (`ValidateVersion`), return. The loops go level by level and side by side, as in the code.

Data that is abstracted: a key is a short sequence of digits and not of eight bytes, the three hash
functions are constants, and a node's children are a set. The flat levels have one version for the code's
three, which change together. `TopLen` is 1 in the instances and 2 in the code.

Stores that `Exist` cannot tell apart but `LowerBound` can are actions of their own: the child that `AddChild`
adds (`AddSecond`, `Extend`), the minimum (`ExtendKey`), the bit of the last flat level (`FinishTop`). `memset` clears the hash word and `minKey` in one action: both lie in the
first 16 bytes of a slot, which are cleared with one or two wide stores. An execution in which a reader
comes between two narrower stores is not in the model.

The writer's own search sees every slot at rest, so it is a function (`NaiveQueryLCP`). When a
displacement fails the code goes on with position -1, because the assertions are not in the build;
the model goes on likewise, until that slot's version is written (`Crash`).

`Linearizable` is the refinement to `LinearizableSet`: `set` is `known`, the keys of insertions that have returned or that an
`Exist` has found, and the key under way may take effect at any moment of its insertion.

### MlpGlobalLock

The steps of `Insert` are those of `MlpVersioned`. The places where that raises or lowers a version are passed over (`SkipVersion`), `Node::Init` writes
the hash word first, and everything from taking the mutex to the first slot that is touched is one step (`BeginInsert`), because what lies before only sets bits that no
`Resolve` reads. `Exist` and `LowerBound` see slots at rest, so they are functions (`Contains`, `LowerBoundInternal`). `LowerBoundPromise` hands
out a promise; `Resolve` compares the first slot and `ResolveKey` reads `minKey` of the slot chosen, each at any moment of any insertion.
The two words of the comparison are read at once.

`SetAtRest` compares every answer with the set whenever the mutex is free. `ResolvedUnlessMoving` is what remains of the comment on `LowerBound(value)` (Gh:380):
a `Resolve` is right also inside an insertion, but not while a node is on its way between slots (`Moving`). `ResolvedIsLowerBound`
is the comment itself, and is violated.

### MlpLowerBound

A call notes the versions of the flat bitmaps, runs the reader of `MlpVersioned` for the value, and continues at what that
has found: the node's children (`ReadKids`), its minimum (`ReadMin`), the path upwards level by level and side by side
(`ParentHash`, `ParentKey`, `ParentKids`), the flat bitmaps (`Siblings`, `Descend1`). Then it validates the flat bitmaps if it
has used them, and the slots, and ends with a promise that `Resolve` and `ResolveKey` read, after all validation. A child map, and a
node of a flat bitmap, is read in one step. A missing child is -1 in the code, which becomes an index prefix of ones; a full
key length that is not a branching node's makes the answer `Garbage`.

`order` has the keys in the order of their insertion. A promise is right after some number of insertions if it names the
smallest key not below the value among them (or the node above that key); it is linearizable if that number lies between what had
returned when the call began and what had begun when it ended.

### RangeDecomposition

A key is an integer below `Base^KeyLen` and arithmetic wraps, as with `uint64_t`. `Split` is one round of the
loop of `handle_range` with `_handle_range` and both conversions. A perfect range that lies below one child of
its node gets the split index of the round, which is smaller than the split index of its bounds. That
is the case in which `InsertPerfectRange` (P3:2208-2212, "NOT SURE WHY") has to compute the index again;
`PerfectRanges` therefore speaks of the index of the bounds.

### RangedTrie, RangedIndex

A perfect range below the flat levels is put in as the code does: `Insert(low)`, `Insert(high)`, both leaves deleted, the children
between set in the node where they part. On the flat levels it is a run of bits (`TopBits`). `Exists` and `RangeLowerBound`
are P3's `Exist` and `LowerBound`, which look for children without nodes at five places. `RangedIndex` runs `handle_range` (an instance of
`RangeDecomposition`) and inserts its parts one by one; between two of them readers may look, and the invariants
say what they find.

`InFlatRange` excepts values in a range of the flat levels from the properties of `LowerBound`: there `LowerBound` looks beyond the value at
once (P3:1860), and the block that would treat the case (P3:1958-1970) is never reached. `RangedTopLowerBound.cfg` has the property
without the exception.

### MlpRanged

The writer of `MlpVersioned` with the differences of P3: a write set makes `LOCK_PATH_FROM_LCP` set versions odd and note the
slots in place of incrementing, and leaves them odd when `Insert` returns (`LockPath`, `InsertReturns`); the slot of a split is not raised
(`LockSplit`); a single `Insert` does not lock the flat bitmaps (`BeginInsert`). Around it, `InsertRange` (`BeginRange`, `Release`, `EndRange`) and
`InsertPerfectRange` (`LockFlat`, `SetFlat`, `InsertBound`, `DeleteLow` to `AddRun`). `Protected` says which parts get the write set: the first, and the
first after the flat levels. The parts of a range are a constant, what `handle_range` returns for it, because
`RangedIndex` has the computation. The reader notes the versions of the flat bitmaps first (`ReadTops`), and has the range test on the
fast path after the validation (`FastRange`) and on the slow path before it (`SlowRange`), with the slot and full key length of the
first match, which may be another node's. The flags `Insert1SplitNodePOS_flag` and its twin are never set in the code, so
the release of those slots (P3:2160-2164) is not in the model. The loop that sets the children of a range is one step: a reader
looks at one of them, and their order does not show. `ScanR` reads the full key length with the hash word that matched, the same
word of the same slot, which the compiler loads once.

An answer true may come from the table (`KeyLen`, or 9 for a key in a range) or from the flat bitmaps (`InFlat`); the
properties tell them apart.

## The runs

| run | instance | shows |
|---|---|---|
| `cuckoo_table` | 5 prefixes, 4 positions and 6 border slots, 2 child bytes, bitmaps from the second child on, 6 rounds | `TypeOK`, `Placement`, `UniqueNode`, `UnwindTargetFree`, `BitmapsOwned`, `NodesKept`, `DisplacementEnds` (128,210 states) |
| `cuckoo_split` | 6 prefixes, 8 positions, bitmaps from the second child on; one node split for two lower parts, one for another | `BitmapsOwned`, `SplitKept` (36,959 states) |
| `sequential_index` | keys of 6 binary digits, 3 of them flat; 6 inserted, all 64 asked for; a promise held for each of 2 values | `TypeOK`, `Canonical`, `PromiseKeptBetweenCalls`, and `Implements`: the refinement of `SortedSet` (46,756 states) |
| `mlp_versioned` | 4 keys of 5 digits, 8 slots, one reader, every order of insertions | `TypeOK`, `QuiescentEven`, `NoLostKey`, `NoPhantom`, `TreeOK`, and `Linearizable`: the refinement of `LinearizableSet` (1.4 million states) |
| `mlp_crowded` | 4 keys of 3 digits under one node, leaves that share three positions, displacements of at most 2 rounds | `TreeOK` up to the crash, `ExistReturns` |
| `mlp_lower_bound` | 3 keys of 4 digits, 5 values before, between and after them, 8 slots, one caller | `PromiseLinearizable`, `LowerBoundReturns` (562 thousand states) |
| `range_decomposition` | all byte-aligned ranges of 4-byte keys in base 3 | `TypeOK`, `PerfectRanges`, `Partition`, `RootFlag`, `DecompositionEnds` |
| `ranged_index` | keys of 6 ternary digits, 3 of them flat; 13 ranges and keys in every order that does not overlap, every value asked for in every state | `TypeOK`, `ExistExact`, `LowerBoundBelongs`, `LowerBoundFindsKeys` (12,322 states) |
| `mlp_ranged` | keys of 5 digits in base 4, 2 of them flat, 16 slots; a range of three perfect ranges (flat, with the write set, without), 2 single keys, every order and every coin toss, one reader | `QuiescentEven`, `SinglesKept`, `NoPhantomR`, `RangedTreeOK` (1.2 million states) |
| `global_lock` | 5 keys of 5 digits, 10 positions, every order of insertions, a promise for each of 4 values, 13 values compared with the set | `SetAtRest`, `ResolvedUnlessMoving` (65,372 states) |
| `mlp_last_digit` | 3 keys of 4 digits, 16 slots, a node at its second position | violates `NoLostKey` |
| `mlp_ranged_lost` | keys of 5 ternary digits, 8 slots; one perfect range, one key beside it | violates `EveryKeyKept` |

Further instances, each a `.cfg` for the module named, or the `.cfg` of a run with another property, with what TLC says of it:

| instance | module | property | |
|---|---|---|---|
| `MlpMovedLeaf` | `MCMlpVersioned` | `NoLostKey` | violated |
| that of `mlp_versioned` | `MCMlpVersioned` | `ModifiedOnlyOdd` | violated |
| `MlpZeroKey` | `MCMlpSecond` | `NoPhantom` | violated |
| `MlpGlobalLockSplit` | `MCMlpGlobalLock` | `SetAtRest` | violated |
| that of `global_lock` | `MCMlpGlobalLock` | `ResolvedIsLowerBound` | violated |
| that of `mlp_lower_bound` | `MCMlpLowerBound` | `ResolvesToLowerBound` | violated |
| `MlpLowerBoundOddTop` | `MCMlpLowerBound` | `AlwaysLinearizable` | violated |
| `MlpLowerBoundFlat` | `MCMlpLowerBound` | `PromiseLinearizable` | violated |
| `MlpLowerBoundSecond` | `MCMlpLowerBound` | `PromiseLinearizable` | violated |
| `RangedFlatDigits` | `MCRangedIndex` | `ExistExact` | violated |
| that of `ranged_index` | `MCRangedIndex` | `ZeroDigitsBefore` | holds (12,322 states) |
| `RangedParent` | `MCRangedIndex` | `LowerBoundMinimum` | violated |
| `RangedTopLowerBound` | `MCRangedIndex` | `LowerBoundFindsEveryKey` | violated |
| `RangedKeyInRange` | `MCRangedIndex` | `NothingLost` | violated |
| that of `mlp_ranged_lost` | `MCMlpRangedBeside` | `NoFlatPhantom` | violated |
| `MlpRangedStuck` | `MCMlpRangedStuck` | `QuiescentEven` | violated |
| that of `mlp_ranged_lost`, with `FairSpecR` | `MCMlpRangedBeside` | `ExistReturnsR` | holds |

**What the bounds reach.** The table run has overlapping chains, a cycle that only the round limit cuts, a prefix whose
hashes agree, bitmaps in other nodes' positions, in the border, and behind a pointer. In `mlp_versioned` every fingerprint
collides, so the slow path is common, and nodes are displaced by splits and leaves, among them nodes of the locked path;
the node that is being split is displaced there by the new leaf's reservation, not by that of the split itself (`MlpGlobalLockSplit` has that). Versions do not wrap there: `VerMod` is 256 as in the code.

In `cuckoo_split` chains have two victims, the bitmap of the node being split is relocated by its own reservation, nodes with bitmaps are moved while chains
unwind, and a moved bitmap may go behind a pointer or stay beside the node.

In `global_lock` every order of the five insertions has splits on two levels and displacements, also by a split's reservation, and searches turn back at
a node, on the way up and in the bitmaps. All fingerprints collide.

In `mlp_lower_bound` an insertion splits the node between two calls' steps and displaces a leaf, and the values make the
search end at a node, below it, beside its string, above it and in the flat bitmaps. In `mlp_ranged` the parts with and without
the write set share a path, so that the later one meets slots which the write set holds odd; a single key's leaf is split by a bound and
shares a slot with the bounds' leaves, so that bounds are displaced and displace.

**One reader is enough** for the safety properties of the lock-free operations: readers write nothing shared. What a second
reader could add is an earlier answer that the first must not contradict, and `known` has that: it collects the keys of
insertions that have returned and of `Exist` calls that found them, and a call that begins later has to find them.
That this amounts to linearizability is no longer an argument but a check: `Linearizable`.

**What the passing runs leave out, and the other instances show.** The instances of `mlp_versioned` and `mlp_lower_bound` have no two
keys that part in the last digit and no key that is 0 in all its digits, and their positions avoid a displacement into a slot
that is locked. These are not bounds chosen for size. They are the conditions under which the properties hold:

1. *Last level* (`mlp_last_digit`). `__ValidateVersion` (V:13) stops before the last level, so a leaf that a split in the last
   byte moves can be missed.
2. *Key 0* (`MlpZeroKey`). A cleared slot has `minKey` 0. A reader that matched the hash word of a prefix of zeros before
   the clearing takes it for the key 0.
3. *Double increment* (`ModifiedOnlyOdd`). The path lock raises a version twice when a node is at its second position
   (V:1406-1412 after V:1017), so the slot is split under an even version. This alone breaks only the comment on
   `version_lock` (Vh:59-61). With 1 or 2 it breaks the answers of `Exist`, and `LowerBound` it misleads at once (`MlpLowerBoundSecond`).
4. *Parity in displacement, reset in Init* (`MlpMovedLeaf`). V:1167 raises its destination's version whatever its
   parity; V:215 sets a version to 1 whatever it was. Both together hide the move of a leaf.
5. *Promises* (`ResolvesToLowerBound`). What a promise names may move before it is resolved, so that the value returned is too small or
   no key at all. `PromiseLinearizable` is therefore about the promise, not about the value. In a debug build Vh:251 asserts that the first
   slot is equal in the branch where it is not.
6. *Flat bitmaps in `LowerBound`.* Their versions are noted without testing that they are even (V:1648), so a search may lie inside one
   update (`MlpLowerBoundOddTop`; `PromiseLinearizable` excepts such searches). And when the first two bytes are known already, the bit of
   `m_treeDepth2` is set under even versions (V:1583), which no validation sees (`MlpLowerBoundFlat`; the
   instance of `mlp_lower_bound` has no two keys for which it matters).

For ranges, on the trie alone:

7. *Digits before the split* (`RangedFlatDigits`). A flat range that splits in its second or third byte sets its bits without the
   bytes before (P3:2275, 2280), so its keys are found only if those bytes are 0. The flat ranges of `ranged_index` and `mlp_ranged` begin so:
   `ZeroDigitsBefore` says it, and holds on the instance of `ranged_index`.
8. *Children above the value's node* (`RangedParent`). On the way up P3 makes an answer from a child without a node with digits it
   has not cleared (P3:1946-1947, against P3:1890-1892), so the answer is not the smallest. `LowerBoundBelongs`
   says less, and holds.
9. *Flat ranges and `LowerBound`* (`RangedTopLowerBound`), see `InFlatRange` above.
10. *A key in a range* (`RangedKeyInRange`). `Insert` looks for the key without the range test (P3:1533; the test for 9 at P3:1561 is
    never true), so a key inserted where a range is splits its node, and the range is lost. P3h:400 rules such input out.

For ranges, on the slots:

11. *A range is missed* (`mlp_ranged_lost`). The children are read after the validation, and a negative answer is not validated again
    (P3:962). `SinglesKept` is about the keys of single insertions, which do not take this way.
12. *A slot stays odd for ever* (`MlpRangedStuck`). The leaf of a range's lower bound keeps an odd version under the write set. When the leaf of the upper
    bound displaces it, the deletion resets the version where the leaf is now (P3:2305), and the slot where it was, which another
    node has taken, stays odd: every `Exist` of that node's keys spins until an insertion passes by. The TODO at P3:2289 fears something
    like this. In `mlp_ranged` no displacement reaches the leaf of a protected bound whose node existed before.
13. *Bits of single insertions* (`NoFlatPhantom`). A single `Insert` sets a bit of the last flat level with no version raised (P3:1506-1509)
    and, in a table where the node is not there yet, that bit makes `Exist` true for every key below it.

Under one mutex, and without threads:

14. *`Resolve` beside an `Insert`* (`ResolvedIsLowerBound`). `Resolve` holds no mutex. While `ht[pos]` is cleared and not yet rebuilt (G:1249-1264), or a
    displacement is moving the node, the first slot does not match and `minKey` of the second is taken without a comparison: 0, or another node's key.
15. *A split that displaces its own node* (`MlpGlobalLockSplit`). The reservation of the lower part's slot may displace the node at `pos`, which is
    noted before (G:1249; O, V and P3 alike). What is moved then is another node, and keys are lost. This is about `Insert` alone and needs no second
    thread. `SequentialIndex`, which has no slots, does not see it; `Canonical` and `Implements` hold if it does not occur, nor a
    displacement that gives up. Neither occurs in the instances of `global_lock`, `cuckoo_split`, `mlp_versioned`, `mlp_lower_bound` and `mlp_ranged`.

The tests of the repository do not reach the concurrent ones: their parallel readers start after the inserting threads are joined.

**Fairness.** `DisplacementEnds`, `ExistReturns`, `LowerBoundReturns`, `ExistReturnsR` and `DecompositionEnds` assume that a thread in the
middle of a call is scheduled again: weak fairness of the lock's holder and of each reader, never of beginning an insertion. A
reader may starve under insertions without end. The models have finitely many keys, and the properties say that a finished writer
does not leave a reader spinning; for `LowerBound` in both its retry loops, around the flat bitmaps and inside `QueryLCP`.

**Deadlock.** `mlp_crowded` turns the deadlock check off, because a crash stops the process; so do the instances of `RangedIndex`,
which has no step left when all its ranges are in. The others keep it on.

**Mutants.** Next to the definitions stand variants of them with a plausible mistake, each introduced as "a variant": the
checks were tested by putting a variant in the place of its definition and seeing the property fail.

## What is proved

Each theorem holds for every value of the constants that the named assumptions of its module allow: tables, hash functions, keys,
bases, key lengths and numbers of threads of any size. The invariants have been checked by TLC on the instances
above before they were proved.

| module | theorems | from |
|---|---|---|
| `CuckooTableProofs` | `TypeOK`, `Placement`, `UniqueNode`, `BitmapsOwned`, `UnwindTargetFree`, `NodesKept` | the assumptions of `CuckooTable` |
| `SequentialIndexProofs` | `TypeOK`, `Canonical`, `PromiseKeptBetweenCalls`, `Implements` | `BaseAssumption`, `KeyLenAssumption`, `LenAssumption`, `InsertedAssumption`: a base of at least 2, flat levels, and at least one level below |
| `RangeDecompositionProofs` | `TypeOK`, `Partition`, `PerfectRanges`, `RootFlag` | the assumptions of `RangeDecomposition` |
| `RangedIndexProofs` | `TypeOK`, and that the index cuts as `RangeDecomposition` does; `ExistExact`, `NothingLost`, `LowerBoundBelongs`, `LowerBoundFindsKeys` if `ZeroDigitsBefore` always holds | those of `SequentialIndexProofs` for bases and lengths; `RangesAssumption`: single keys and byte-aligned ranges |
| `MlpVersionedProofs` | `TypeOK`, `QuiescentEven`; `NoPhantom` if no key is 0 in all its digits | the assumptions of `MlpVersioned` |

**The hash table.** None of the invariants is inductive alone. The inductive invariant `IInv` has three parts.

- `TableInv`, about the slots: placement, uniqueness and the one-to-one correspondence of offsets and bitmaps need each other. A
  move that follows a wrong offset would clear a node, and so on. Lemmas state for `MoveNode`, `RelocateBitMap`, `ExtendToBitMap`
  and `BitMapSet` that they preserve it, given that the destination is free.
- `DescendInv` and `UnwindInv`, about the stack: successive victims are linked by "the other position of a node"; and *either all
  victims are distinct, or the chain has closed*, in which case every victim's other position is a victim and no call will ever
  find a free slot. This dichotomy is the heart of the proof: a call that does find a slot knows that its chain is distinct,
  so that the moves on the way back never overwrite a victim still waiting; a closed chain can end only in `GiveUp`.
- `ReqInv`, about the caller: no node with the requested prefix is in the table, and the first victim is at one of its positions.

The proof goes action by action (one lemma each), and `NodesKept` follows from the same invariant.

**The sequential index.** The invariant is that the trie is a function of the set `Present` of its leaves' keys (`TrieOf`): there is
a node for a key's prefix just at the first level below the flat bitmaps and wherever the key parts from others directly above
(`Nodes`), and what is in it follows from the keys that share the prefix (`Node`). `Canonical` does not say where there are *no* nodes, and
insertion depends on it: a stray node would end the search of `QueryLCP` too early. `TrieProofs` has the argument.

- *Search.* `QueryFacts`: no key agrees with the one sought in more digits than the deepest node of its path says; so
  `ContainsFacts`, Exist is exact.
- *Insert.* `Grown` says what a tree needs in order to be that of one key more, `GrownTree` that it suffices, and `GrownFlat`, `GrownChild` and
  `GrownSplit` that the three cases of `InsertInto` supply it, with `PushUpFacts` for the minima above.
- *LowerBound.* `Clear(S, k, n)` says that the keys which agree with k in n digits are all behind k. Each turn of the search lowers n: at a
  node, on the way up (`Turn`: where a key in front parts from the path, a node of the path branches), in the bitmaps
  (`FlatClear`), until there is a branch beyond k, whose first key is the next one (`NextGroup`). `LowerBoundFacts` puts this together.

`PromiseKeptBetweenCalls` needs one thing more, `Good`: the prefix that a promise names lies wholly on or above the value asked for, nodes never
disappear (`NodesStay`), and minima only fall. `Implements` follows step by step, with the leaves' keys for the set.

**The decomposition of ranges.** `IInv`: every job on the stack is aligned to its split byte and every range put out is perfect at the byte of its
bounds; together they cover the range, lie inside it and are disjoint; and `Flagged` ties the flag to the job or the range that is
first on its side. Bounds are handled by their quotients by weights, so that `_handle_range`'s conversion at either end of the key
space is plain arithmetic modulo the number of keys.

**Ranges in the trie.** A range leaves children without nodes, so the trie is no longer the tree of its keys. It is the tree of other
keys with some leaves taken out, and that is the invariant (`RangeTrie`): there are keys S, single ones and one for each child of a range; keys G
of ranges in the flat bitmaps, which have all the keys of their prefixes; and prefixes C, such that the nodes are those of the tree of S in the sense of
`TrieProofs` without the leaves at C (`Pruned`), and the keys there are S, G and all keys below C (`Keys`). `Inv` adds that the keys there are
those of the ranges put in so far (`There`), the invariant of the decomposition, and what is still to come.

- *Cutting.* `CutsAsSpecified`: on its variables every step of `RangedIndex` is one of `RangeDecomposition` or a stutter. Its invariant comes along, so
  each part that is put in is perfect and meets no key that is there.
- *Putting in.* `Insert(low)` and `Insert(high)` are steps of the tree (`BothInserted`, from `InsertTree`). The children between are filled in by inserting
  one key for each (`FilledTree`), which no step of the code does: the tree of these keys without their leaves is what the code makes by deleting two
  leaves and setting a run of children (`WithRangeKeepsRangeTrie`). For the flat levels, `TopBitsKeepRangeTrie`.
- *Asking.* `ExistsFacts` has the places where `Exist` looks, `LowerBoundAnswers` the five of `LowerBound`: where the full tree would go to a leaf at C, the search
  of the code stops, and the key it makes from the value and the child lies below C. The search in the full tree is that of `TrieProofs`, whose lemmas are stated
  for bits of which some may belong to ranges.

`ZeroDigitsBefore` is needed for the bits alone (point 7 above): without it the bits of a flat range need not be those of its keys. `Inv(FALSE)`, which leaves out
that the bits are exactly those of the keys, is enough for `TypeOK`. The exceptions in `LowerBoundBelongs` and `LowerBoundFindsKeys` are those of points 8 and 9.

**Readers beside a writer.** `IInv` of `MlpVersionedProofs` is the conjunction of types (`Types`, `Locals`), of `Nodes` (an occupied slot has a key
of an insertion that has begun and is at a position of its prefix, but for the one that is being copied to, which has the header of the one copied), of `Parity` (at each program point of the writer which
slots may have an odd version: those of the path, of the split, of the new leaf, and of the displacement under way) and of
`Searches` (what a reader has noted so far). Parity is why `QuiescentEven` holds although displacement and `Init` disregard the parity they
find: whatever they leave odd is a slot which the unlocking will come to, with an operation that makes odd even and leaves even alone.
`NoPhantom` follows from `Nodes` and `Searches`; its hypothesis is the condition that instance `MlpZeroKey` shows to be needed.

**How.** The provers cannot instantiate theorems that take a predicate, so induction and recursion are done with sets: `NaturalFacts` proves that
a set of naturals that has 0 and successors has them all (from the least element of the rest), and that a recursive definition has a
solution; `PowerDef` and `DescendFacts` use it. In version 1.4.5 the translation for the SMT solver may treat a value as a sequence
once `Len` or `Seq` occurs in an obligation. Obligations about sequences are therefore kept apart from others, behind names such as `Stack`, and all
obligations were also discharged with that axiom restricted to sequences.

**Only model-checked:**

- `NoLostKey`, `TreeOK` and `Linearizable` of `MlpVersioned`, `PromiseLinearizable` of `MlpLowerBound`, `QuiescentEven`, `SinglesKept` and `RangedTreeOK` of `MlpRanged`,
  `SetAtRest` and `ResolvedUnlessMoving` of `MlpGlobalLock`, `SplitKept` of `CuckooSplit`: they are false for some constants (points 1 to 6, 11, 12 and 15 above), so no theorem can state them for all; the condition under which they
  hold is one on displacements that occur, which the constants do not tell.
- `NoPhantomR` of `MlpRanged`. Unlike `NoPhantom`, which the code ensures by reading a whole key, an answer true for a key in a range is put together
  from a length, a key and a child that are read at different times, and only the comparison of versions keeps them together. Versions wrap, so a proof
  needs a bound on the changes of a slot during one search, which neither the code nor the constants give.
- All liveness: it needs fairness and `ENABLED`, which the provers do not handle.

## Not modelled, and why

- *`LowerBound` of P3 on the slots.* `RangedTrie` has its algorithm, `MlpLowerBound` the interleavings of its counterpart in V.
- *Child bitmaps under readers.* `CuckooTable` has bitmaps in neighbouring slots, `MlpVersioned` has nodes of at most eight
  children. A reader that finds a bitmap half copied is in neither.
- *Narrow stores.* Three top versions change together; a child map or a node of a flat bitmap is read at once; `minKey` and the hash
  word are cleared at once.
- *Memory order.* All models are sequentially consistent. The code's slots are plain loads and stores between release stores of
  versions, which allow more.
- *Version wrap.* A reader would have to stall over 128 changes of one slot.
- *Hash functions.* Constants; no property depends on them.
- *Sequential ranges* (`Part2…`). The predecessor of P3's `InsertRange` over the sequential trie: the same decomposition, superseded.
- *Maple tree, RCU, googletest, benchmarks.* Vendored or drivers. They are most of the repository's lines: of about 88,000 the index
  in all its variants has some 14,000, and the variants repeat one another.

## Plan

What could come next:

1. A bound on the changes of a slot during one search, as a constant, and under it `NoPhantomR`, with the invariant of `MlpVersionedProofs` extended by
   the write set.
2. `LowerBound` of P3 over the slots of `MlpRanged`.
3. Child bitmaps in the slots of `MlpVersioned`, so that a reader meets an extension to a bitmap and its relocation.
