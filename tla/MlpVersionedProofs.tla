------------------------- MODULE MlpVersionedProofs -------------------------
(* Proofs about MlpVersioned, for any keys, hash functions, table size and    *)
(* number of readers: the types, that no version stays odd after an Insert,   *)
(* and that Exist finds no key whose Insert has not begun.                    *)
EXTENDS MlpVersioned, NaturalFacts, SequenceTheorems

-----------------------------------------------------------------------------
(* The inductive invariant: where the writer is and what it holds there. *)

Locking == {"lock1", "lock2"}
Moves == {"moveHash", "moveRest", "moveClear", "unlockVictim"}
Displacing == {"lockHole", "lockVictim", "unlockHole"} \cup Moves
Splits == {"lockX", "splitHash", "splitRest", "splitClear", "alterLen", "alterHash"}
Inits == {"initVersion", "initRest", "initHash"}
Extending == {"addChild", "extend", "extendKey", "parents"}
Unlocking == {"unlock1", "unlock2", "unlockX", "unlockLeaf"}
Ending == {"finish", "unlockTop"}
WriterPc == {"idle", "crashed", "setTop", "reserve", "descend"} \cup Locking
              \cup Displacing \cup Splits \cup Inits \cup Extending \cup Unlocking
              \cup Ending
Busy == wpc \notin {"idle", "crashed"}

Hdr == [occ : BOOLEAN, ilen : 0..KeyLen, dlen : 0..KeyLen, fp : Nat]
Version == 0..(VerMod - 1)
ReaderPc == {"idle", "version", "scan", "key", "slow", "slowKey", "slowEnd",
             "validate", "return"}
ReaderState ==
  [pc : ReaderPc, key : Keys \cup {None}, lvl : Level, side : {1, 2},
   set : [{1, 2} -> [Level -> Version]], flen : 0..KeyLen, fpos : Slot,
   res : 0..KeyLen, must : BOOLEAN]

\* The chain of victims.
Stack == chain \in Seq(Slot)
Stacked == chain # <<>>

Types ==
  /\ hdr \in [Slot -> Hdr] /\ kids \in [Slot -> SUBSET Digit]
  /\ ver \in [Slot -> Version] /\ topVer \in Version
  /\ wpc \in WriterPc
  /\ wkey \in Keys \cup {None}
  /\ lcp \in 0..KeyLen /\ nlen \in 0..KeyLen /\ j \in 0..KeyLen
  /\ pos \in Slot \cup {None} /\ x \in Slot \cup {None}
  /\ leaf \in Slot \cup {None} /\ hole \in Slot \cup {None}
  /\ ofp \in Nat /\ wasOdd \in {0, 1}
  /\ Stack
  /\ started \subseteq Keys /\ known \subseteq Keys

\* The locals of the call at each of its points.
Locals ==
  /\ Busy => /\ wkey \in started /\ lcp \in TopLen..(KeyLen - 1)
             /\ nlen \in Level \cup {0}
             /\ nlen # 0 => pos # None
             /\ nlen = 0 => okey = None
  /\ okey \in started \cup {None}
  /\ okey = None => x = None
  /\ wpc \in Locking \cup {"idle", "setTop"} => okey = None
  /\ leaf # None => wpc \in Inits \cup Unlocking \cup Ending \cup {"crashed"}
  /\ wpc \in Splits => okey # None /\ x # None
  /\ wpc \in Inits => leaf # None \/ okey # None
  /\ wpc = "addChild" => okey # None
  /\ wpc \in Locking \cup Extending \cup Unlocking => nlen # 0
  /\ wpc \in Ending \cup {"setTop"} => nlen = 0
  /\ wpc \in {"lock1", "lock2", "unlock1", "unlock2"} => j \in (TopLen + 1)..nlen
  /\ wpc = "parents" => j \in Level
  /\ wpc = "unlockX" => x # None
  /\ wpc = "unlockTop" => leaf # None
  /\ wpc \in Displacing \cup {"descend"} => Stacked
  /\ wpc \in Displacing => hole # None

\* A slot that is taken has the key of an Insert that has begun, and a level.
Sound(s) == hdr[s].occ => mkey[s] \in started /\ hdr[s].ilen \in Level

Nodes ==
  /\ mkey \in [Slot -> started \cup {ZeroKey}]
  /\ \A s \in Slot : \/ Sound(s)
                     \/ wpc = "moveRest" /\ s = hole
                     \/ wpc = "splitRest" /\ s = x
  /\ wpc = "moveRest" => Sound(Victim) /\ hdr[hole] = hdr[Victim]
  /\ wpc = "splitRest" => Sound(pos) /\ hdr[x] = hdr[pos]
  /\ wpc \in Locking => hdr[pos].occ
  /\ wpc = "descend" => hdr[Victim].occ
  /\ wpc = "initHash" => mkey[NewSlot] \in started

\* The positions of the path up to a level.
Path(n) == {PathPos1(l) : l \in (TopLen + 1)..n} \cup {PathPos2(l) : l \in (TopLen + 1)..n}

Odd(v) == v % 2 = 1
OddOnlyIn(S) == \A s \in Slot : Odd(ver[s]) => s \in S

\* What the writer has raised so far and has not lowered again: the path, the
\* lower part of a split node and the leaf.
Held == Path(nlen) \cup {x, leaf}
Holding == {"setTop", "reserve", "descend", "lockHole"} \cup Locking \cup Splits
             \cup Inits \cup Extending \cup Ending

\* A move changes the parity of the hole and then gives it back, and has the
\* victim odd in between.
HoleRaised == \A s \in Slot : (Odd(ver[s]) <=> s # hole) => s \in Held
VictimBefore(s) == IF s = Victim THEN wasOdd = 1 ELSE Odd(ver[s])
BothRaised == /\ Odd(ver[Victim])
              /\ \A s \in Slot : (VictimBefore(s) <=> s # hole) => s \in Held

Parity ==
  /\ wpc = "idle" => OddOnlyIn({})
  /\ wpc \in Holding => OddOnlyIn(Held)
  /\ wpc \in {"lockVictim", "unlockHole"} => HoleRaised
  /\ wpc \in Moves => BothRaised
  /\ wpc = "unlock1" => OddOnlyIn(Path(j) \cup {x, leaf})
  /\ wpc = "unlock2" => OddOnlyIn(Path(j - 1) \cup {PathPos2(j), x, leaf})
  /\ wpc = "unlockX" => OddOnlyIn({x, leaf})
  /\ wpc = "unlockLeaf" => OddOnlyIn({leaf})
  /\ wpc = "idle" \/ (Busy /\ nlen # 0) => ~Odd(topVer)

\* What a reader that ends with the full key may have found.
Searches ==
  /\ rd \in [Readers -> ReaderState]
  /\ \A r \in Readers : /\ rd[r].pc # "idle" => rd[r].key \in Keys
                        /\ rd[r].res = KeyLen => rd[r].key \in started \cup {ZeroKey}

IInv == Types /\ Locals /\ Nodes /\ Parity /\ Searches

-----------------------------------------------------------------------------
(* Constants, prefixes and versions. *)

\* What the assumptions say of the constants.
LEMMA ConstantFacts ==
  /\ KeyLen \in Nat /\ TopLen \in Nat \ {0} /\ TopLen + 2 <= KeyLen
  /\ 0 \in Slot /\ ZeroKey \in Key /\ Keys \subseteq Key
  /\ None \notin Slot /\ None \notin Keys
  /\ \A l \in Level : l \in Nat /\ l \in 1..KeyLen /\ l > TopLen
BY LenAssumption, DigitAssumption, KeysAssumption, MaskAssumption, NoneAssumption
   DEF Slot, ZeroKey, Key, Level

\* The positions of a prefix are slots.
LEMMA HashFacts ==
  ASSUME NEW k \in Keys, NEW l \in Level
  PROVE  /\ Prefix(k, l) \in Prefixes
         /\ Pos1(k, l) \in Slot /\ Pos2(k, l) \in Slot /\ Fp[Prefix(k, l)] \in Nat
<1>1. Prefix(k, l) \in Prefixes
  BY DEF Prefixes
<1>2. QED
  BY <1>1, HashAssumption DEF Pos1, Pos2

\* The length of the common prefix.
LEMMA LCPFacts ==
  ASSUME NEW a, NEW b
  PROVE  /\ LCP(a, b) \in 0..KeyLen
         /\ SamePrefix(a, b, LCP(a, b))
         /\ \A n \in 0..KeyLen : SamePrefix(a, b, n) => n <= LCP(a, b)
<1> DEFINE S == {n \in 0..KeyLen : SamePrefix(a, b, n)}
           Common(n) == SamePrefix(a, b, n) /\ (n < KeyLen => a[n + 1] # b[n + 1])
<1>1. KeyLen \in Nat
  BY LenAssumption
<1>2. 0 \in S
  BY <1>1 DEF SamePrefix
<1>3. PICK m \in S : \A n \in S : n <= m
  <2>1. S \subseteq Int /\ S # {} /\ KeyLen \in Int /\ \A n \in S : n <= KeyLen
    BY <1>1, <1>2
  <2> HIDE DEF S
  <2>2. QED
    BY <2>1, <1>1, GreatestElement
<1>4. Common(m)
  <2>1. SUFFICES ASSUME m < KeyLen, a[m + 1] = b[m + 1]
                 PROVE  FALSE
    OBVIOUS
  <2>2. \A i \in 1..(m + 1) : i \in 1..m \/ i = m + 1
    BY <1>1
  <2>3. SamePrefix(a, b, m + 1) /\ m + 1 \in 0..KeyLen
    BY <2>1, <2>2, <1>1 DEF SamePrefix
  <2>4. QED
    BY <2>3, <1>3
<1>5. LCP(a, b) = CHOOSE n \in 0..KeyLen : Common(n)
  BY DEF LCP
<1>6. LCP(a, b) \in 0..KeyLen /\ Common(LCP(a, b))
  <2> HIDE DEF Common
  <2>1. QED
    BY <1>3, <1>4, <1>5
<1> DEFINE p == LCP(a, b)
<1> HIDE DEF p
<1>7. ASSUME NEW n \in 0..KeyLen, SamePrefix(a, b, n)
      PROVE  n <= p
  <2>1. SUFFICES ASSUME p < n
                 PROVE  FALSE
    BY <1>1, <1>6 DEF p
  <2>2. p + 1 \in 1..n /\ p < KeyLen
    BY <2>1, <1>1, <1>6 DEF p
  <2>3. a[p + 1] = b[p + 1]
    BY <2>2, <1>7 DEF SamePrefix
  <2>4. QED
    BY <2>2, <2>3, <1>6 DEF p
<1>8. QED
  BY <1>6, <1>7 DEF p

\* The deepest of some levels is one of them.
LEMMA DeepestFacts ==
  ASSUME NEW L, L \subseteq Level, L # {}
  PROVE  Deepest(L) \in L
<1>1. L \subseteq Int /\ KeyLen \in Int /\ \A l \in L : l <= KeyLen
  BY ConstantFacts
<1>2. \E m \in L : \A l \in L : l <= m
  BY <1>1, GreatestElement
<1>3. QED
  BY <1>2 DEF Deepest

\* A version's parity, as the writer changes it.
LEMMA VersionFacts ==
  ASSUME NEW v \in Version
  PROVE  /\ IncVersion(v) \in Version /\ IncVersion(v) % 2 = 1 - (v % 2)
         /\ CondIncVersion(v) \in Version /\ CondIncVersion(v) % 2 = 0
         /\ (v + 1 - (v % 2)) % VerMod \in Version
         /\ ((v + 1 - (v % 2)) % VerMod) % 2 = 1
         /\ \A w \in {0, 1} : /\ (v + 1 - w) % VerMod \in Version
                              /\ v % 2 = 1 => ((v + 1 - w) % VerMod) % 2 = w
         /\ v % 2 \in {0, 1}
         /\ 1 \in Version /\ 0 \in Version
<1> DEFINE Reduced(n) == IF n < VerMod THEN n ELSE n - VerMod
<1>1. PICK h \in Nat : VerMod = 2 * h /\ h >= 2
  BY BoundAssumption
<1>2. ASSUME NEW n \in Nat, n < 2 * VerMod
      PROVE  n % VerMod = Reduced(n)
  BY <1>1, <1>2
<1>3. v \in Nat /\ v < VerMod /\ v % 2 \in {0, 1}
  BY <1>1 DEF Version
<1>4. ASSUME NEW n \in Nat, n < 2 * VerMod
      PROVE  n % VerMod \in Version /\ (n % VerMod) % 2 = n % 2
  <2>1. Reduced(n) \in Version /\ Reduced(n) % 2 = n % 2
    BY <1>1, <1>4 DEF Version
  <2>2. QED
    BY <2>1, <1>2, <1>4
<1> HIDE DEF Reduced
<1>5. v + 1 \in Nat /\ v + 1 < 2 * VerMod /\ (v + 1) % 2 = 1 - (v % 2)
  BY <1>1, <1>3
<1>6. v + (v % 2) \in Nat /\ v + (v % 2) < 2 * VerMod /\ (v + (v % 2)) % 2 = 0
  BY <1>1, <1>3
<1>7. v + 1 - (v % 2) \in Nat /\ v + 1 - (v % 2) < 2 * VerMod /\ (v + 1 - (v % 2)) % 2 = 1
  BY <1>1, <1>3
<1>8. ASSUME NEW w \in {0, 1}
      PROVE  /\ v + 1 - w \in Nat /\ v + 1 - w < 2 * VerMod
             /\ v % 2 = 1 => (v + 1 - w) % 2 = w
  BY <1>1, <1>3
<1>9. 1 \in Version /\ 0 \in Version
  BY <1>1 DEF Version
<1>10. QED
  BY <1>3, <1>4, <1>5, <1>6, <1>7, <1>8, <1>9 DEF IncVersion, CondIncVersion

-----------------------------------------------------------------------------
(* What the writer's search answers. *)

\* What the writer's search returns: a slot that is occupied, or none.
LEMMA QueryFacts ==
  ASSUME NEW k \in Keys
  PROVE  LET q == NaiveQueryLCP(k)
         IN  /\ q.lcp \in TopLen..KeyLen
             /\ q.ilen \in Level \cup {0}
             /\ q.ilen # 0 => q.pos \in Slot /\ hdr[q.pos].occ
             /\ q.ilen = 0 => q.pos = None
<1> DEFINE l == Deepest(Fast(k))
           s == IF Matches(Pos1(k, l), k, l) THEN Pos1(k, l) ELSE Pos2(k, l)
           m == Deepest(Slow(k))
           t == IF IsEqualNoHash(Pos1(k, m), k, m) THEN Pos1(k, m) ELSE Pos2(k, m)
           Good(q) == /\ q.lcp \in TopLen..KeyLen
                      /\ q.ilen \in Level \cup {0}
                      /\ q.ilen # 0 => q.pos \in Slot /\ hdr[q.pos].occ
                      /\ q.ilen = 0 => q.pos = None
<1>1. Good(NotFound)
  BY ConstantFacts DEF NotFound
<1>2. ASSUME NEW n \in Level, NEW d \in Slot, hdr[d].occ, SamePrefix(mkey[d], k, n)
      PROVE  Good(Found(k, n, d))
  <2>1. n \in 0..KeyLen /\ n # 0 /\ n > TopLen
    BY ConstantFacts
  <2>2. SamePrefix(k, mkey[d], n)
    BY <1>2 DEF SamePrefix
  <2>3. LCP(k, mkey[d]) \in 0..KeyLen /\ n <= LCP(k, mkey[d])
    BY <2>1, <2>2, LCPFacts
  <2>4. LCP(k, mkey[d]) \in TopLen..KeyLen
    BY <2>1, <2>3, ConstantFacts
  <2>5. QED
    BY <1>2, <2>1, <2>4 DEF Found
<1>3. ASSUME Fast(k) # {}
      PROVE  l \in Level /\ s \in Slot /\ hdr[s].occ
  <2>1. l \in Fast(k)
    BY <1>3, DeepestFacts DEF Fast
  <2>2. l \in Level /\ (Matches(Pos1(k, l), k, l) \/ Matches(Pos2(k, l), k, l))
    BY <2>1 DEF Fast
  <2>3. QED
    BY <2>2, HashFacts DEF Matches
<1>4. ASSUME Slow(k) # {}
      PROVE  m \in Level /\ t \in Slot /\ hdr[t].occ /\ SamePrefix(mkey[t], k, m)
  <2>1. m \in Slow(k)
    BY <1>4, DeepestFacts DEF Slow
  <2>2. m \in Level /\ (IsEqualNoHash(Pos1(k, m), k, m) \/ IsEqualNoHash(Pos2(k, m), k, m))
    BY <2>1 DEF Slow
  <2>3. QED
    BY <2>2, HashFacts DEF IsEqualNoHash
<1>5. NaiveQueryLCP(k) =
        CASE Fast(k) = {} -> NotFound
          [] Fast(k) # {} /\ SamePrefix(mkey[s], k, l) -> Found(k, l, s)
          [] Fast(k) # {} /\ ~SamePrefix(mkey[s], k, l) /\ Slow(k) = {} -> NotFound
          [] OTHER -> Found(k, m, t)
  BY DEF NaiveQueryLCP
<1> HIDE DEF l, s, m, t, Good
<1>6. Good(NaiveQueryLCP(k))
  <2>1. CASE Fast(k) = {}
    BY <2>1, <1>1, <1>5
  <2>2. CASE Fast(k) # {} /\ SamePrefix(mkey[s], k, l)
    BY <2>2, <1>2, <1>3, <1>5
  <2>3. CASE Fast(k) # {} /\ ~SamePrefix(mkey[s], k, l) /\ Slow(k) = {}
    BY <2>3, <1>1, <1>5
  <2>4. CASE Fast(k) # {} /\ ~SamePrefix(mkey[s], k, l) /\ Slow(k) # {}
    BY <2>4, <1>2, <1>4, <1>5
  <2>5. QED
    BY <2>1, <2>2, <2>3, <2>4
<1>7. QED
  BY <1>6 DEF Good

-----------------------------------------------------------------------------
(* What the steps share. *)

USE DEF Locking, Moves, Displacing, Splits, Inits, Extending, Unlocking, Ending, WriterPc, Busy,
        table, top, call, split, displacement, history

\* There is a victim while the stack is not empty.
LEMMA VictimFacts ==
  ASSUME Stack, Stacked
  PROVE  Victim \in Slot
BY EmptySeq, ElementOfSeq DEF Stack, Stacked, Victim

\* Steps that leave the stack alone.
LEMMA ChainKept ==
  ASSUME chain' = chain
  PROVE  /\ Victim' = Victim
         /\ Stack => Stack'
         /\ Stacked => Stacked'
BY DEF Victim, Stack, Stacked

\* A call pushes its victim.
LEMMA ChainPushed ==
  ASSUME Stack, NEW v \in Slot, chain' = <<v>> \/ chain' = Append(chain, v)
  PROVE  Stack' /\ Stacked' /\ Victim' = v
<1>1. CASE chain' = <<v>>
  BY <1>1 DEF Victim, Stack, Stacked
<1>2. CASE chain' = Append(chain, v)
  <2>1. /\ chain' \in Seq(Slot) /\ chain' # <<>>
        /\ Len(chain') = Len(chain) + 1 /\ chain'[Len(chain) + 1] = v
    BY <1>2, AppendProperties DEF Stack
  <2>2. QED
    BY <2>1 DEF Victim, Stack, Stacked
<1>3. QED
  BY <1>1, <1>2

\* A sequence without its last element.
LEMMA FrontFacts ==
  ASSUME NEW S, NEW q \in Seq(S), q # <<>>
  PROVE  LET c == SubSeq(q, 1, Len(q) - 1)
         IN  c \in Seq(S) /\ (Len(q) > 1 => c # <<>>)
<1> DEFINE m == Len(q)
           n == m - 1
           c == SubSeq(q, 1, n)
<1>1. m \in Nat /\ m # 0
  BY EmptySeq
<1>2. \A i \in 1..m : q[i] \in S
  BY ElementOfSeq
<1> HIDE DEF m, c
<1>3. n \in Int /\ 1 \in Int /\ \A i \in 1..n : i \in 1..m
  BY <1>1
<1> HIDE DEF n
<1>4. \A i \in 1..n : q[i] \in S
  BY <1>2, <1>3
<1>5. c \in Seq(S) /\ Len(c) = IF 1 <= n THEN n - 1 + 1 ELSE 0
  BY <1>3, <1>4, SubSeqProperties DEF c
<1>6. n >= 1 => Len(c) # 0
  BY <1>3, <1>5
<1>7. n >= 1 => c # <<>>
  BY <1>6, EmptySeq
<1>8. m > 1 => n >= 1
  BY <1>1 DEF n
<1>9. QED
  BY <1>5, <1>7, <1>8 DEF m, n, c

\* A return pops it.
LEMMA ChainPopped ==
  ASSUME Stack, Stacked, chain' = SubSeq(chain, 1, Len(chain) - 1)
  PROVE  Stack' /\ (Len(chain) > 1 => Stacked')
BY FrontFacts DEF Stack, Stacked

\* The slots of the path depend on the call alone.
LEMMA PathKept ==
  ASSUME call' = call
  PROVE  /\ \A n : Path(n)' = Path(n)
         /\ Path(nlen)' = Path(nlen)
         /\ Held' = Path(nlen) \cup {x', leaf'}
BY DEF Path, PathPos1, PathPos2, Held

\* Steps of the writer leave the readers' records alone.
LEMMA SearchesKept ==
  ASSUME Searches, rd' = rd, started \subseteq started'
  PROVE  Searches'
BY DEF Searches

\* The lower of two keys is one of them.
LEMMA LowerFacts ==
  ASSUME NEW a, NEW b
  PROVE  Lower(a, b) \in {a, b}
BY DEF Lower

\* The path's slots, level by level.
LEMMA PathFacts ==
  /\ Path(TopLen) = {} /\ Path(0) = {}
  /\ \A n \in Level : Path(n) = Path(n - 1) \cup {PathPos1(n), PathPos2(n)}
  /\ \A n \in Nat : \A l \in (TopLen + 1)..n : PathPos1(l) \in Path(n) /\ PathPos2(l) \in Path(n)
<1>1. ASSUME NEW n \in Level
      PROVE  Path(n) = Path(n - 1) \cup {PathPos1(n), PathPos2(n)}
  <2>1. (TopLen + 1)..n = (TopLen + 1)..(n - 1) \cup {n}
    BY ConstantFacts DEF Level
  <2>2. QED
    BY <2>1 DEF Path
<1>2. (TopLen + 1)..TopLen = {} /\ (TopLen + 1)..0 = {}
  BY ConstantFacts
<1>3. QED
  BY <1>1, <1>2 DEF Path

\* The positions on the path are slots.
LEMMA PathSlots ==
  ASSUME Types, Locals, Busy, nlen # 0, NEW l \in (TopLen + 1)..nlen
  PROVE  l \in Level /\ PathPos1(l) \in Slot /\ PathPos2(l) \in Slot
<1>1. wkey \in Keys /\ nlen \in Level /\ pos \in Slot
  BY DEF Types, Locals
<1>2. l \in Level
  BY <1>1, ConstantFacts DEF Level
<1>3. QED
  BY <1>1, <1>2, HashFacts DEF PathPos1, PathPos2

\* Headers that the writer stores.
LEMMA HdrFacts ==
  /\ NoHdr \in Hdr /\ ~NoHdr.occ
  /\ \A i \in 0..KeyLen, d \in 0..KeyLen, f \in Nat :
       NodeHdr(i, d, f) \in Hdr /\ NodeHdr(i, d, f).ilen = i
BY ConstantFacts DEF NoHdr, Hdr, NodeHdr

\* What the ways to change a version do to its parity.
LEMMA OddFacts ==
  ASSUME NEW v \in Version
  PROVE  /\ (Odd(IncVersion(v)) <=> ~Odd(v))
         /\ ~Odd(CondIncVersion(v))
         /\ Odd((v + 1 - (v % 2)) % VerMod)
         /\ \A w \in {0, 1} : Odd(v) => (Odd((v + 1 - w) % VerMod) <=> w = 1)
         /\ (Odd(v) <=> v % 2 = 1)
         /\ Odd(1) /\ ~Odd(0)
<1>1. v % 2 \in {0, 1} /\ \A w \in {0, 1} : w = 1 \/ w = 0
  BY VersionFacts
<1>2. Odd(1) /\ ~Odd(0)
  BY DEF Odd
<1>3. (Odd(IncVersion(v)) <=> ~Odd(v)) /\ ~Odd(CondIncVersion(v))
  <2>1. IncVersion(v) % 2 = 1 - (v % 2) /\ CondIncVersion(v) % 2 = 0
    BY VersionFacts
  <2>2. v % 2 = 0 \/ v % 2 = 1
    BY <1>1
  <2>3. QED
    BY <2>1, <2>2 DEF Odd
<1>4. Odd((v + 1 - (v % 2)) % VerMod) /\ (Odd(v) <=> v % 2 = 1)
  BY VersionFacts DEF Odd
<1>5. ASSUME NEW w \in {0, 1}, Odd(v)
      PROVE  Odd((v + 1 - w) % VerMod) <=> w = 1
  <2>1. ((v + 1 - w) % VerMod) % 2 = w
    BY <1>5, VersionFacts DEF Odd
  <2>2. QED
    BY <2>1 DEF Odd
<1>6. QED
  BY <1>2, <1>3, <1>4, <1>5

\* The other position of a victim, which is not moved before it is found.
LEMMA OtherSlot ==
  ASSUME IInv, wpc = "descend"
  PROVE  Victim \in Slot /\ Other(Victim) \in Slot
<1>1. Victim \in Slot
  BY VictimFacts DEF IInv, Types, Locals
<1>2. Sound(Victim) /\ hdr[Victim].occ
  BY <1>1 DEF IInv, Nodes
<1>3. mkey[Victim] \in Keys /\ hdr[Victim].ilen \in Level
  BY <1>2 DEF IInv, Types, Sound
<1>4. IndexKey(Victim) \in Prefixes
  BY <1>3, HashFacts DEF IndexKey
<1>5. QED
  BY <1>1, <1>4, HashAssumption DEF Other

-----------------------------------------------------------------------------
(* The writer's steps. *)

\* One lemma for each step of the writer: it keeps the invariant.
LEMMA SetTopKept ==
  ASSUME IInv, SetTop
  PROVE  IInv'
<1>c. /\ Victim' = Victim
      /\ Stack => Stack'
      /\ Stacked => Stacked'
  BY ChainKept DEF SetTop
<1>1. Types'
  BY <1>c, VictimFacts, VersionFacts, ConstantFacts
     DEF IInv, Types, Locals, SetTop
<1>2. Locals'
  BY <1>c, ConstantFacts DEF IInv, Types, Locals, SetTop
<1>3. Nodes'
  BY <1>c, VictimFacts DEF IInv, Types, Locals, Nodes, Sound, SetTop
<1>4. Parity'
  <2>1. UNCHANGED call
    BY DEF SetTop
  <2>2. QED
    BY <2>1, <1>c, VictimFacts, PathKept, OddFacts
       DEF IInv, Types, Locals, Parity, OddOnlyIn, HoleRaised, BothRaised,
           VictimBefore, Held, Holding, SetTop
<1>5. QED
  BY <1>1, <1>2, <1>3, <1>4, SearchesKept DEF IInv, SetTop

LEMMA LockPath1Kept ==
  ASSUME IInv, LockPath1
  PROVE  IInv'
<1>c. /\ Victim' = Victim
      /\ Stack => Stack'
      /\ Stacked => Stacked'
  BY ChainKept DEF LockPath1, RaisePath1, SetVersion
<1>j. j \in (TopLen + 1)..nlen /\ Busy /\ nlen \in Level /\ pos \in Slot /\ wkey \in Keys
  BY DEF IInv, Types, Locals, LockPath1, RaisePath1, SetVersion
<1>p. /\ j \in Level /\ PathPos1(j) \in Slot /\ PathPos2(j) \in Slot
      /\ PathPos1(j) \in Path(nlen) /\ PathPos2(j) \in Path(nlen)
  BY <1>j, PathSlots, PathFacts, ConstantFacts DEF IInv
<1>k. UNCHANGED call /\ Path(nlen)' = Path(nlen)
  BY PathKept DEF LockPath1, RaisePath1, SetVersion
<1>1. Types'
  BY <1>c, VictimFacts, VersionFacts, ConstantFacts
     DEF IInv, Types, Locals, LockPath1, RaisePath1, SetVersion
<1>2. Locals'
  BY <1>c, ConstantFacts DEF IInv, Types, Locals, LockPath1, RaisePath1, SetVersion
<1>3. Nodes'
  BY <1>c, VictimFacts DEF IInv, Types, Locals, Nodes, Sound, LockPath1, RaisePath1, SetVersion
<1>4. Parity'
  <2>1. Held' = Held
    BY <1>k, PathKept DEF Held, LockPath1, RaisePath1, SetVersion
  <2>2. Held' = Path(nlen) \cup {x, leaf}
    BY <2>1 DEF Held
  <2>3. OddOnlyIn(Held)
    BY DEF IInv, Parity, Holding, LockPath1, RaisePath1, SetVersion
  <2>4. OddOnlyIn(Held)'
    <3>1. ASSUME NEW s \in Slot, s # PathPos1(j)
          PROVE  ver'[s] = ver[s]
      BY <3>1 DEF IInv, Types, LockPath1, RaisePath1, SetVersion
    <3>2. QED
      BY <1>p, <2>1, <2>2, <2>3, <3>1 DEF OddOnlyIn
  <2>5. QED
    BY <2>4 DEF IInv, Types, Locals, Parity, Holding, LockPath1, RaisePath1, SetVersion
<1>5. QED
  BY <1>1, <1>2, <1>3, <1>4, SearchesKept DEF IInv, LockPath1, RaisePath1, SetVersion

LEMMA LockPath2Kept ==
  ASSUME IInv, LockPath2
  PROVE  IInv'
<1>c. /\ Victim' = Victim
      /\ Stack => Stack'
      /\ Stacked => Stacked'
  BY ChainKept DEF LockPath2, RaisePath2, SetVersion
<1>j. j \in (TopLen + 1)..nlen /\ Busy /\ nlen \in Level /\ pos \in Slot /\ wkey \in Keys
  BY DEF IInv, Types, Locals, LockPath2, RaisePath2, SetVersion
<1>p. /\ j \in Level /\ PathPos1(j) \in Slot /\ PathPos2(j) \in Slot
      /\ PathPos1(j) \in Path(nlen) /\ PathPos2(j) \in Path(nlen)
  BY <1>j, PathSlots, PathFacts, ConstantFacts DEF IInv
<1>k. UNCHANGED call /\ Path(nlen)' = Path(nlen)
  BY PathKept DEF LockPath2, RaisePath2, SetVersion
<1>s. hdr[pos].occ /\ mkey[pos] \in started /\ hdr[pos].fp \in Nat
  BY <1>j DEF IInv, Types, Nodes, Sound, Hdr, LockPath2, RaisePath2, SetVersion
<1>o. okey' \in started \cup {None} /\ ofp' \in Nat
  BY <1>s DEF IInv, Types, Locals, LockPath2, RaisePath2, SetVersion
<1>t. \/ wpc' = "lock1" /\ j' = j - 1 /\ j > TopLen + 1 /\ okey' = okey
      \/ wpc' = "extend" /\ j' = j - 1 /\ okey' = okey
      \/ wpc' = "reserve" /\ j' = j - 1
  BY DEF LockPath2, RaisePath2, SetVersion
<1>i. j \in Int /\ TopLen \in Nat /\ nlen \in Int /\ KeyLen \in Nat
  BY <1>j, ConstantFacts
<1>n. j' \in 0..KeyLen /\ (j > TopLen + 1 => j - 1 \in (TopLen + 1)..nlen)
  BY <1>j, <1>t, <1>i, ConstantFacts
<1>1. Types'
  <2>1. ver' \in [Slot -> Version]
    BY <1>p, VersionFacts DEF IInv, Types, LockPath2, RaisePath2, SetVersion
  <2>2. QED
    BY <2>1, <1>c, <1>o, <1>t, <1>n DEF IInv, Types, LockPath2, RaisePath2, SetVersion
<1>2. Locals'
  <2>1. okey = None /\ x = None /\ leaf = None
    BY DEF IInv, Locals, LockPath2, RaisePath2, SetVersion
  <2>2. started' = started /\ x' = x /\ leaf' = leaf /\ UNCHANGED call
    BY DEF LockPath2, RaisePath2, SetVersion
  <2>3. QED
    BY <2>1, <2>2, <1>c, <1>j, <1>o, <1>t, <1>n DEF IInv, Types, Locals, LockPath2
<1>3. Nodes'
  BY <1>c, VictimFacts DEF IInv, Types, Locals, Nodes, Sound, LockPath2, RaisePath2, SetVersion
<1>4. Parity'
  <2>1. Held' = Held
    BY <1>k, PathKept DEF Held, LockPath2, RaisePath2, SetVersion
  <2>2. Held' = Path(nlen) \cup {x, leaf}
    BY <2>1 DEF Held
  <2>3. OddOnlyIn(Held)
    BY DEF IInv, Parity, Holding, LockPath2, RaisePath2, SetVersion
  <2>4. OddOnlyIn(Held)'
    <3>1. ASSUME NEW s \in Slot, s # PathPos2(j)
          PROVE  ver'[s] = ver[s]
      BY <3>1 DEF IInv, Types, LockPath2, RaisePath2, SetVersion
    <3>2. QED
      BY <1>p, <2>1, <2>2, <2>3, <3>1 DEF OddOnlyIn
  <2>5. QED
    BY <2>4 DEF IInv, Types, Locals, Parity, Holding, LockPath2, RaisePath2, SetVersion
<1>5. QED
  BY <1>1, <1>2, <1>3, <1>4, SearchesKept DEF IInv, LockPath2, RaisePath2, SetVersion

LEMMA ReserveKept ==
  ASSUME IInv, Reserve
  PROVE  IInv'
<1>c. /\ Victim' = Victim
      /\ Stack => Stack'
      /\ Stacked => Stacked'
  BY ChainKept DEF Reserve, Take
<1>b. Busy /\ wkey \in started /\ started \subseteq Keys /\ lcp + 1 \in Level /\ nlen \in 0..KeyLen
  BY ConstantFacts DEF IInv, Types, Locals, Level, Reserve, Take
<1>k. UNCHANGED call /\ Path(nlen)' = Path(nlen)
  BY PathKept DEF Reserve, Take
<1>r. ReserveKey \in Keys /\ Reservable \subseteq Slot
  <2>1. ReserveKey \in Keys
    BY <1>b DEF IInv, Types, Locals, ReserveKey, Splitting
  <2>2. QED
    BY <1>b, <2>1, HashFacts DEF Reservable
<1>a. wpc = "reserve" /\ j' = nlen /\ leaf = None
      /\ UNCHANGED <<table, ver, top, call, okey, ofp, displacement, rd, history>>
  BY DEF IInv, Locals, Reserve, Take
<1>t. \/ /\ okey # None /\ x = None /\ x' \in Slot /\ leaf' = leaf /\ wpc' = "lockX"
      \/ /\ (okey = None \/ x # None)
         /\ leaf' \in Slot /\ x' = x
         /\ \/ wpc' = "initVersion"
            \/ (wpc' = "finish" /\ nlen = 0)
            \/ (wpc' = "unlock1" /\ nlen # 0)
  <2>1. PICK s \in AtOnce :
          Take(s, CASE Splitting -> "lockX"
                    [] ~Splitting /\ Existing = {} -> "initVersion"
                    [] ~Splitting /\ Existing # {} -> AfterLeaf)
    BY DEF Reserve
  <2>2. s \in Slot
    BY <1>r DEF AtOnce, Existing
  <2>3. CASE Splitting
    BY <2>1, <2>2, <2>3 DEF Take, Splitting
  <2>4. CASE ~Splitting
    <3>1. Take(s, IF Existing = {} THEN "initVersion" ELSE AfterLeaf)
      BY <2>1, <2>4
    <3>2. leaf' = s /\ UNCHANGED x /\ (wpc' = "initVersion" \/ wpc' = AfterLeaf)
      BY <2>4, <3>1 DEF Take
    <3>3. QED
      BY <2>2, <2>4, <3>2 DEF Splitting, AfterLeaf
  <2>5. QED
    BY <2>3, <2>4
<1>n. nlen \in Nat /\ TopLen \in Nat
      /\ (nlen # 0 => nlen \in (TopLen + 1)..nlen) /\ (nlen = 0 => okey = None)
  BY <1>a, ConstantFacts DEF IInv, Types, Locals, Level
<1>1. Types'
  BY <1>c, <1>b, <1>a, <1>t, <1>n, ConstantFacts DEF IInv, Types, Locals
<1>2. Locals'
  BY <1>c, <1>b, <1>a, <1>t, <1>n, ConstantFacts DEF IInv, Types, Locals
<1>3. Nodes'
  BY <1>c, <1>a, <1>t DEF IInv, Types, Nodes, Sound, NewSlot, UpperPart
<1>4. Parity'
  <2>1. Held' = Path(nlen) \cup {x', leaf'}
    BY <1>a, PathKept
  <2>2. OddOnlyIn(Path(nlen) \cup {x, leaf})
    BY <1>a DEF IInv, Parity, Held, Holding
  <2>3. {x, leaf} \cap Slot \subseteq {x', leaf'}
    BY <1>a, <1>t, ConstantFacts
  <2>4. OddOnlyIn(Held)'
    BY <1>a, <2>1, <2>2, <2>3 DEF OddOnlyIn
  <2>5. (Path(j) \cup {x, leaf})' = Held'
    BY <1>a, <1>k, <2>1
  <2>6. wpc' # "idle" /\ wpc' \notin {"unlock2", "unlockX", "unlockLeaf", "lockVictim", "unlockHole"}
        /\ wpc' \notin Moves /\ nlen' = nlen /\ topVer' = topVer
    BY <1>a, <1>t
  <2>7. nlen # 0 => ~Odd(topVer)
    BY <1>b DEF IInv, Parity
  <2>8. QED
    BY <2>4, <2>5, <2>6, <2>7 DEF IInv, Parity
<1>5. QED
  BY <1>1, <1>2, <1>3, <1>4, SearchesKept DEF IInv, Reserve, Take

LEMMA ReserveDisplacingKept ==
  ASSUME IInv, ReserveDisplacing
  PROVE  IInv'
<1>b. Busy /\ wkey \in started /\ started \subseteq Keys /\ lcp + 1 \in Level /\ nlen \in 0..KeyLen
  BY ConstantFacts DEF IInv, Types, Locals, Level, ReserveDisplacing
<1>k. UNCHANGED call /\ Path(nlen)' = Path(nlen)
  BY PathKept DEF ReserveDisplacing
<1>r. ReserveKey \in Keys /\ Reservable \subseteq Slot
  <2>1. ReserveKey \in Keys
    BY <1>b DEF IInv, Types, Locals, ReserveKey, Splitting
  <2>2. QED
    BY <1>b, <2>1, HashFacts DEF Reservable
<1>f. UNCHANGED <<table, ver, top, call, split, leaf, rd, history>>
  BY DEF ReserveDisplacing
<1>v. PICK v \in Reservable : chain' = <<v>>
  BY DEF ReserveDisplacing
<1>o. hdr[v].occ
  BY DEF AtOnce, ReserveDisplacing
<1>c. Stack' /\ Stacked' /\ Victim' = v
  BY <1>v, <1>r, ChainPushed DEF IInv, Types
<1>1. Types'
  BY <1>c, VictimFacts, VersionFacts, ConstantFacts
     DEF IInv, Types, Locals, ReserveDisplacing
<1>2. Locals'
  BY <1>c, <1>f, ConstantFacts DEF IInv, Types, Locals, ReserveDisplacing
<1>3. Nodes'
  BY <1>c, <1>f, <1>o, ConstantFacts DEF IInv, Types, Locals, Nodes, Sound, NewSlot, UpperPart, ReserveDisplacing
<1>4. Parity'
  <2>1. Held' = Held
    BY <1>k, <1>f, PathKept DEF Held
  <2>2. OddOnlyIn(Held)
    BY DEF IInv, Parity, Holding, ReserveDisplacing
  <2>3. OddOnlyIn(Held)'
    BY <1>f, <2>1, <2>2 DEF OddOnlyIn
  <2>4. QED
    BY <1>f, <2>3 DEF IInv, Parity, HoleRaised, BothRaised, VictimBefore, OddOnlyIn, ReserveDisplacing
<1>5. QED
  BY <1>1, <1>2, <1>3, <1>4, SearchesKept DEF IInv, ReserveDisplacing

LEMMA DescendKept ==
  ASSUME IInv, Descend
  PROVE  IInv'
<1>k. UNCHANGED call /\ Path(nlen)' = Path(nlen)
  BY PathKept DEF Descend
<1>f. UNCHANGED <<table, ver, top, call, split, leaf, rd, history>>
  BY DEF Descend
<1>o. Other(Victim) \in Slot
  BY OtherSlot DEF Descend
<1>c. Stack' /\ Stacked' /\ Victim' = Other(Victim)
  BY <1>o, ChainPushed DEF IInv, Types, Descend
<1>1. Types'
  BY <1>c, VictimFacts, VersionFacts, ConstantFacts
     DEF IInv, Types, Locals, Descend
<1>2. Locals'
  BY <1>c, <1>f, ConstantFacts DEF IInv, Types, Locals, Descend
<1>3. Nodes'
  BY <1>c, <1>f, ConstantFacts DEF IInv, Types, Locals, Nodes, Sound, NewSlot, UpperPart, Descend
<1>4. Parity'
  <2>1. Held' = Held
    BY <1>k, <1>f, PathKept DEF Held
  <2>2. OddOnlyIn(Held)
    BY DEF IInv, Parity, Holding, Descend
  <2>3. OddOnlyIn(Held)'
    BY <1>f, <2>1, <2>2 DEF OddOnlyIn
  <2>4. QED
    BY <1>f, <2>3 DEF IInv, Parity, HoleRaised, BothRaised, VictimBefore, OddOnlyIn, Descend
<1>5. QED
  BY <1>1, <1>2, <1>3, <1>4, SearchesKept DEF IInv, Descend

LEMMA GiveUpKept ==
  ASSUME IInv, GiveUp
  PROVE  IInv'
<1>b. Busy /\ wkey \in started /\ started \subseteq Keys /\ lcp + 1 \in Level /\ nlen \in 0..KeyLen
  BY ConstantFacts DEF IInv, Types, Locals, Level, GiveUp
<1>k. UNCHANGED call /\ Path(nlen)' = Path(nlen)
  BY PathKept DEF GiveUp
<1>r. ReserveKey \in Keys /\ Reservable \subseteq Slot
  <2>1. ReserveKey \in Keys
    BY <1>b DEF IInv, Types, Locals, ReserveKey, Splitting
  <2>2. QED
    BY <1>b, <2>1, HashFacts DEF Reservable
<1>f. UNCHANGED <<table, ver, top, call, split, leaf, rd, history>>
  BY DEF GiveUp
<1>c. Stack'
  BY EmptySeq DEF Stack, GiveUp
<1>t. \/ wpc' = "crashed"
      \/ (wpc' = "finish" /\ nlen = 0)
      \/ (wpc' = "unlock1" /\ nlen # 0)
  BY DEF AfterLeaf, GiveUp
<1>n. nlen \in Nat /\ TopLen \in Nat
      /\ (nlen # 0 => nlen \in (TopLen + 1)..nlen) /\ (nlen = 0 => okey = None)
  BY ConstantFacts DEF IInv, Types, Locals, Level, GiveUp
<1>a. j' = nlen /\ wpc = "descend"
  BY DEF GiveUp
<1>1. Types'
  BY <1>c, <1>b, <1>f, <1>a, <1>t, ConstantFacts DEF IInv, Types, GiveUp
<1>2. Locals'
  BY <1>c, <1>b, <1>f, <1>a, <1>t, <1>n DEF IInv, Types, Locals
<1>3. Nodes'
  BY <1>f, <1>t, <1>a DEF IInv, Types, Locals, Nodes, Sound
<1>4. Parity'
  <2>1. Held' = Path(nlen) \cup {x', leaf'}
    BY <1>f, PathKept
  <2>2. OddOnlyIn(Path(nlen) \cup {x, leaf})
    BY <1>a DEF IInv, Parity, Held, Holding
  <2>3. OddOnlyIn(Held)'
    BY <1>f, <2>1, <2>2 DEF OddOnlyIn
  <2>4. (Path(j) \cup {x, leaf})' = Held'
    BY <1>a, <1>f, <1>k, <2>1
  <2>5. wpc' # "idle" /\ wpc' \notin {"unlock2", "unlockX", "unlockLeaf", "lockVictim", "unlockHole"}
        /\ wpc' \notin Moves /\ nlen' = nlen /\ topVer' = topVer
    BY <1>f, <1>t
  <2>6. nlen # 0 => ~Odd(topVer)
    BY <1>b DEF IInv, Parity
  <2>7. QED
    BY <2>3, <2>4, <2>5, <2>6 DEF IInv, Parity
<1>5. QED
  BY <1>1, <1>2, <1>3, <1>4, SearchesKept DEF IInv, GiveUp

LEMMA FoundHoleKept ==
  ASSUME IInv, FoundHole
  PROVE  IInv'
<1>k. UNCHANGED call /\ Path(nlen)' = Path(nlen)
  BY PathKept DEF FoundHole
<1>f. UNCHANGED <<table, ver, top, call, split, leaf, rd, history>>
  BY DEF FoundHole
<1>c. /\ Victim' = Victim
      /\ Stack => Stack'
      /\ Stacked => Stacked'
  BY ChainKept DEF FoundHole
<1>o. hole' \in Slot
  BY OtherSlot DEF FoundHole
<1>1. Types'
  BY <1>c, <1>f, <1>o DEF IInv, Types, FoundHole
<1>2. Locals'
  BY <1>c, <1>f, <1>o, ConstantFacts DEF IInv, Types, Locals, FoundHole
<1>3. Nodes'
  BY <1>c, VictimFacts DEF IInv, Types, Locals, Nodes, Sound, FoundHole
<1>4. Parity'
  <2>1. Held' = Held
    BY <1>k, <1>f, PathKept DEF Held
  <2>2. OddOnlyIn(Held)
    BY DEF IInv, Parity, Holding, FoundHole
  <2>3. OddOnlyIn(Held)'
    BY <1>f, <2>1, <2>2 DEF OddOnlyIn
  <2>4. QED
    BY <1>f, <2>3 DEF IInv, Parity, HoleRaised, BothRaised, VictimBefore, OddOnlyIn, FoundHole
<1>5. QED
  BY <1>1, <1>2, <1>3, <1>4, SearchesKept DEF IInv, FoundHole

LEMMA LockHoleKept ==
  ASSUME IInv, LockHole
  PROVE  IInv'
<1>c. /\ Victim' = Victim
      /\ Stack => Stack'
      /\ Stacked => Stacked'
  BY ChainKept DEF LockHole, MoveStep, SetVersion
<1>h. hole \in Slot /\ Victim \in Slot /\ (\A s \in Slot : ver[s] \in Version) /\ wasOdd \in {0, 1}
  BY VictimFacts, ConstantFacts DEF IInv, Types, Locals, LockHole, MoveStep, SetVersion
<1>k. Path(nlen)' = Path(nlen)
  BY PathKept DEF LockHole, MoveStep, SetVersion
<1>1. Types'
  BY <1>c, VictimFacts, VersionFacts, ConstantFacts
     DEF IInv, Types, Locals, LockHole, MoveStep, SetVersion
<1>2. Locals'
  BY <1>c, ConstantFacts DEF IInv, Types, Locals, LockHole, MoveStep, SetVersion
<1>3. Nodes'
  BY <1>c, VictimFacts DEF IInv, Types, Locals, Nodes, Sound, LockHole, MoveStep, SetVersion
<1>4. Parity'
  <2>1. Held' = Held
    BY <1>k, PathKept DEF Held, LockHole, MoveStep, SetVersion
  <2>2. OddOnlyIn(Held)
    BY DEF IInv, Parity, Holding, LockHole, MoveStep, SetVersion
  <2>3. ver' \in [Slot -> Version]
    BY <1>1 DEF Types
  <2>4. ASSUME NEW s \in Slot
        PROVE  Odd(ver'[s]) <=> IF s = hole THEN ~Odd(ver[s]) ELSE Odd(ver[s])
    BY <1>h, OddFacts DEF IInv, Types, LockHole, MoveStep, SetVersion
  <2>5. HoleRaised'
    BY <1>h, <1>c, <2>1, <2>2, <2>4 DEF OddOnlyIn, HoleRaised, BothRaised, VictimBefore, LockHole, MoveStep, SetVersion
  <2>6. QED
    BY <2>5 DEF IInv, Types, Locals, Parity, Holding, LockHole, MoveStep, SetVersion
<1>5. QED
  BY <1>1, <1>2, <1>3, <1>4, SearchesKept DEF IInv, LockHole, MoveStep, SetVersion

LEMMA LockVictimKept ==
  ASSUME IInv, LockVictim
  PROVE  IInv'
<1>c. /\ Victim' = Victim
      /\ Stack => Stack'
      /\ Stacked => Stacked'
  BY ChainKept DEF LockVictim, MoveStep, SetVersion
<1>1. Types'
  BY <1>c, VictimFacts, VersionFacts, ConstantFacts
     DEF IInv, Types, Locals, LockVictim, MoveStep, SetVersion
<1>2. Locals'
  BY <1>c, ConstantFacts DEF IInv, Types, Locals, LockVictim, MoveStep, SetVersion
<1>3. Nodes'
  BY <1>c, VictimFacts DEF IInv, Types, Locals, Nodes, Sound, LockVictim, MoveStep, SetVersion
<1>4. Parity'
  <2>1. UNCHANGED call
    BY DEF LockVictim, MoveStep, SetVersion
  <2>2. QED
    BY <2>1, <1>c, VictimFacts, PathKept, OddFacts
       DEF IInv, Types, Locals, Parity, OddOnlyIn, HoleRaised, BothRaised,
           VictimBefore, Held, Holding, LockVictim, MoveStep, SetVersion
<1>5. QED
  BY <1>1, <1>2, <1>3, <1>4, SearchesKept DEF IInv, LockVictim, MoveStep, SetVersion

LEMMA MoveHashKept ==
  ASSUME IInv, MoveHash
  PROVE  IInv'
<1>c. /\ Victim' = Victim
      /\ Stack => Stack'
      /\ Stacked => Stacked'
  BY ChainKept DEF MoveHash, MoveStep, CopyHash
<1>1. Types'
  BY <1>c, VictimFacts, VersionFacts, ConstantFacts
     DEF IInv, Types, Locals, MoveHash, MoveStep, CopyHash
<1>2. Locals'
  BY <1>c, ConstantFacts DEF IInv, Types, Locals, MoveHash, MoveStep, CopyHash
<1>3. Nodes'
  BY <1>c, VictimFacts DEF IInv, Types, Locals, Nodes, Sound, MoveHash, MoveStep, CopyHash
<1>4. Parity'
  <2>1. UNCHANGED call
    BY DEF MoveHash, MoveStep, CopyHash
  <2>2. QED
    BY <2>1, <1>c, VictimFacts, PathKept, OddFacts
       DEF IInv, Types, Locals, Parity, OddOnlyIn, HoleRaised, BothRaised,
           VictimBefore, Held, Holding, MoveHash, MoveStep, CopyHash
<1>5. QED
  BY <1>1, <1>2, <1>3, <1>4, SearchesKept DEF IInv, MoveHash, MoveStep, CopyHash

LEMMA MoveRestKept ==
  ASSUME IInv, MoveRest
  PROVE  IInv'
<1>c. /\ Victim' = Victim
      /\ Stack => Stack'
      /\ Stacked => Stacked'
  BY ChainKept DEF MoveRest, MoveStep, CopyRest
<1>1. Types'
  BY <1>c, VictimFacts, VersionFacts, ConstantFacts
     DEF IInv, Types, Locals, MoveRest, MoveStep, CopyRest
<1>2. Locals'
  BY <1>c, ConstantFacts DEF IInv, Types, Locals, MoveRest, MoveStep, CopyRest
<1>3. Nodes'
  BY <1>c, VictimFacts DEF IInv, Types, Locals, Nodes, Sound, MoveRest, MoveStep, CopyRest
<1>4. Parity'
  <2>1. UNCHANGED call
    BY DEF MoveRest, MoveStep, CopyRest
  <2>2. QED
    BY <2>1, <1>c, VictimFacts, PathKept, OddFacts
       DEF IInv, Types, Locals, Parity, OddOnlyIn, HoleRaised, BothRaised,
           VictimBefore, Held, Holding, MoveRest, MoveStep, CopyRest
<1>5. QED
  BY <1>1, <1>2, <1>3, <1>4, SearchesKept DEF IInv, MoveRest, MoveStep, CopyRest

LEMMA MoveClearKept ==
  ASSUME IInv, MoveClear
  PROVE  IInv'
<1>c. /\ Victim' = Victim
      /\ Stack => Stack'
      /\ Stacked => Stacked'
  BY ChainKept DEF MoveClear, MoveStep, ClearSlot
<1>h. hole \in Slot /\ Victim \in Slot /\ (\A s \in Slot : ver[s] \in Version) /\ wasOdd \in {0, 1}
  BY VictimFacts, ConstantFacts DEF IInv, Types, Locals, MoveClear, MoveStep, ClearSlot
<1>k. Path(nlen)' = Path(nlen)
  BY PathKept DEF MoveClear, MoveStep, ClearSlot
<1>z. hdr' \in [Slot -> Hdr] /\ kids' \in [Slot -> SUBSET Digit]
  BY HdrFacts DEF IInv, Types, MoveClear, MoveStep, ClearSlot
<1>1. Types'
  BY <1>c, <1>z DEF IInv, Types, MoveClear, MoveStep
<1>2. Locals'
  BY <1>c, ConstantFacts DEF IInv, Types, Locals, MoveClear, MoveStep, ClearSlot
<1>3. Nodes'
  <2>1. mkey' \in [Slot -> started \cup {ZeroKey}]
    BY DEF IInv, Nodes, MoveClear, MoveStep, ClearSlot
  <2>2. ASSUME NEW s \in Slot
        PROVE  Sound(s)'
    BY <1>h, HdrFacts DEF IInv, Types, Nodes, Sound, MoveClear, MoveStep, ClearSlot
  <2>3. QED
    BY <2>1, <2>2 DEF Nodes, MoveClear, MoveStep
<1>4. Parity'
  <2>1. UNCHANGED call
    BY DEF MoveClear, MoveStep, ClearSlot
  <2>2. QED
    BY <2>1, <1>c, VictimFacts, PathKept, OddFacts
       DEF IInv, Types, Locals, Parity, OddOnlyIn, HoleRaised, BothRaised,
           VictimBefore, Held, Holding, MoveClear, MoveStep, ClearSlot
<1>5. QED
  BY <1>1, <1>2, <1>3, <1>4, SearchesKept DEF IInv, MoveClear, MoveStep, ClearSlot

LEMMA UnlockVictimKept ==
  ASSUME IInv, UnlockVictim
  PROVE  IInv'
<1>c. /\ Victim' = Victim
      /\ Stack => Stack'
      /\ Stacked => Stacked'
  BY ChainKept DEF UnlockVictim, MoveStep, SetVersion
<1>h. hole \in Slot /\ Victim \in Slot /\ (\A s \in Slot : ver[s] \in Version) /\ wasOdd \in {0, 1}
  BY VictimFacts, ConstantFacts DEF IInv, Types, Locals, UnlockVictim, MoveStep, SetVersion
<1>k. Path(nlen)' = Path(nlen)
  BY PathKept DEF UnlockVictim, MoveStep, SetVersion
<1>1. Types'
  BY <1>c, VictimFacts, VersionFacts, ConstantFacts
     DEF IInv, Types, Locals, UnlockVictim, MoveStep, SetVersion
<1>2. Locals'
  BY <1>c, ConstantFacts DEF IInv, Types, Locals, UnlockVictim, MoveStep, SetVersion
<1>3. Nodes'
  BY <1>c, VictimFacts DEF IInv, Types, Locals, Nodes, Sound, UnlockVictim, MoveStep, SetVersion
<1>4. Parity'
  <2>1. Held' = Held
    BY <1>k, PathKept DEF Held, UnlockVictim, MoveStep, SetVersion
  <2>2. BothRaised
    BY DEF IInv, Parity, Holding, UnlockVictim, MoveStep, SetVersion
  <2>4. ASSUME NEW s \in Slot
        PROVE  Odd(ver'[s]) <=> VictimBefore(s)
    BY <1>h, <2>2, OddFacts DEF IInv, Types, BothRaised, VictimBefore, UnlockVictim, MoveStep, SetVersion
  <2>5. HoleRaised'
    BY <1>h, <2>1, <2>2, <2>4 DEF HoleRaised, BothRaised, UnlockVictim, MoveStep, SetVersion
  <2>6. QED
    BY <2>5 DEF IInv, Types, Locals, Parity, Holding, UnlockVictim, MoveStep, SetVersion
<1>5. QED
  BY <1>1, <1>2, <1>3, <1>4, SearchesKept DEF IInv, UnlockVictim, MoveStep, SetVersion

LEMMA UnlockHoleKept ==
  ASSUME IInv, UnlockHole
  PROVE  IInv'
<1>h. hole \in Slot /\ Victim \in Slot /\ (\A s \in Slot : ver[s] \in Version) /\ wasOdd \in {0, 1}
  BY VictimFacts, ConstantFacts DEF IInv, Types, Locals, UnlockHole, SetVersion, Take
<1>k. Path(nlen)' = Path(nlen)
  BY PathKept DEF UnlockHole, SetVersion, Take
<1>f. UNCHANGED <<table, top, call, j, okey, ofp, rd, history>>
  BY DEF UnlockHole, SetVersion, Take
<1>c. Stack' /\ (wpc' = "lockHole" => Stacked')
  BY ChainPopped DEF IInv, Types, Locals, UnlockHole, SetVersion, Take
<1>t. \/ (wpc' = "lockHole" /\ hole' = Victim /\ x' = x /\ leaf' = leaf)
      \/ (wpc' = "lockX" /\ hole' = None /\ okey # None /\ x = None /\ x' = Victim /\ leaf' = leaf)
      \/ (wpc' = "initVersion" /\ hole' = None /\ leaf' = Victim /\ x' = x)
  <2>1. CASE Len(chain) > 1
    BY <2>1 DEF UnlockHole, SetVersion, Take
  <2>2. CASE ~(Len(chain) > 1)
    <3>1. hole' = None /\ Take(Victim, IF Splitting THEN "lockX" ELSE "initVersion")
      BY <2>2 DEF UnlockHole
    <3>2. QED
      BY <3>1 DEF Take, Splitting
  <2>3. QED
    BY <2>1, <2>2
<1>l. wpc = "unlockHole" /\ leaf = None /\ wasOdd' = 0
  BY DEF IInv, Locals, UnlockHole, SetVersion, Take
<1>1. Types'
  <2>1. ver' \in [Slot -> Version]
    BY <1>h, VersionFacts DEF IInv, Types, UnlockHole, SetVersion, Take
  <2>2. QED
    BY <1>h, <1>f, <1>c, <1>t, <1>l, <2>1 DEF IInv, Types
<1>2. Locals'
  BY <1>h, <1>f, <1>c, <1>t, <1>l, ConstantFacts DEF IInv, Types, Locals
<1>3. Nodes'
  BY <1>f, <1>t, <1>l, <1>h DEF IInv, Nodes, Sound
<1>4. Parity'
  <2>1. Held' = Path(nlen) \cup {x', leaf'}
    BY <1>f, PathKept
  <2>2. HoleRaised
    BY <1>l DEF IInv, Parity
  <2>3. Held \cap Slot \subseteq Held'
    BY <2>1, <1>t, <1>l, ConstantFacts DEF Held
  <2>4. ASSUME NEW s \in Slot
        PROVE  Odd(ver'[s]) <=> IF s = hole THEN ~Odd(ver[s]) ELSE Odd(ver[s])
    BY <1>h, OddFacts DEF IInv, Types, UnlockHole, SetVersion, Take
  <2>5. OddOnlyIn(Held)'
    BY <2>2, <2>3, <2>4 DEF OddOnlyIn, HoleRaised
  <2>6. Busy /\ (nlen # 0 => ~Odd(topVer))
    BY <1>l DEF IInv, Parity
  <2>7. QED
    BY <1>f, <1>t, <2>5, <2>6 DEF Parity
<1>5. QED
  BY <1>1, <1>2, <1>3, <1>4, SearchesKept DEF IInv, UnlockHole, SetVersion, Take

LEMMA LockXKept ==
  ASSUME IInv, LockX
  PROVE  IInv'
<1>c. /\ Victim' = Victim
      /\ Stack => Stack'
      /\ Stacked => Stacked'
  BY ChainKept DEF LockX, NodeStep, MoveStep, SetVersion
<1>1. Types'
  BY <1>c, VictimFacts, VersionFacts, ConstantFacts
     DEF IInv, Types, Locals, LockX, NodeStep, MoveStep, SetVersion
<1>2. Locals'
  BY <1>c, ConstantFacts DEF IInv, Types, Locals, LockX, NodeStep, MoveStep, SetVersion
<1>3. Nodes'
  BY <1>c, VictimFacts DEF IInv, Types, Locals, Nodes, Sound, LockX, NodeStep, MoveStep, SetVersion
<1>4. Parity'
  <2>1. UNCHANGED call
    BY DEF LockX, NodeStep, MoveStep, SetVersion
  <2>2. QED
    BY <2>1, <1>c, VictimFacts, PathKept, OddFacts
       DEF IInv, Types, Locals, Parity, OddOnlyIn, HoleRaised, BothRaised,
           VictimBefore, Held, Holding, LockX, NodeStep, MoveStep, SetVersion
<1>5. QED
  BY <1>1, <1>2, <1>3, <1>4, SearchesKept DEF IInv, LockX, NodeStep, MoveStep, SetVersion

LEMMA SplitHashKept ==
  ASSUME IInv, SplitHash
  PROVE  IInv'
<1>c. /\ Victim' = Victim
      /\ Stack => Stack'
      /\ Stacked => Stacked'
  BY ChainKept DEF SplitHash, NodeStep, MoveStep, CopyHash
<1>1. Types'
  BY <1>c, VictimFacts, VersionFacts, ConstantFacts
     DEF IInv, Types, Locals, SplitHash, NodeStep, MoveStep, CopyHash
<1>2. Locals'
  BY <1>c, ConstantFacts DEF IInv, Types, Locals, SplitHash, NodeStep, MoveStep, CopyHash
<1>3. Nodes'
  BY <1>c, VictimFacts DEF IInv, Types, Locals, Nodes, Sound, SplitHash, NodeStep, MoveStep, CopyHash
<1>4. Parity'
  <2>1. UNCHANGED call
    BY DEF SplitHash, NodeStep, MoveStep, CopyHash
  <2>2. QED
    BY <2>1, <1>c, VictimFacts, PathKept, OddFacts
       DEF IInv, Types, Locals, Parity, OddOnlyIn, HoleRaised, BothRaised,
           VictimBefore, Held, Holding, SplitHash, NodeStep, MoveStep, CopyHash
<1>5. QED
  BY <1>1, <1>2, <1>3, <1>4, SearchesKept DEF IInv, SplitHash, NodeStep, MoveStep, CopyHash

LEMMA SplitRestKept ==
  ASSUME IInv, SplitRest
  PROVE  IInv'
<1>c. /\ Victim' = Victim
      /\ Stack => Stack'
      /\ Stacked => Stacked'
  BY ChainKept DEF SplitRest, NodeStep, MoveStep, CopyRest
<1>1. Types'
  BY <1>c, VictimFacts, VersionFacts, ConstantFacts
     DEF IInv, Types, Locals, SplitRest, NodeStep, MoveStep, CopyRest
<1>2. Locals'
  BY <1>c, ConstantFacts DEF IInv, Types, Locals, SplitRest, NodeStep, MoveStep, CopyRest
<1>3. Nodes'
  BY <1>c, VictimFacts DEF IInv, Types, Locals, Nodes, Sound, SplitRest, NodeStep, MoveStep, CopyRest
<1>4. Parity'
  <2>1. UNCHANGED call
    BY DEF SplitRest, NodeStep, MoveStep, CopyRest
  <2>2. QED
    BY <2>1, <1>c, VictimFacts, PathKept, OddFacts
       DEF IInv, Types, Locals, Parity, OddOnlyIn, HoleRaised, BothRaised,
           VictimBefore, Held, Holding, SplitRest, NodeStep, MoveStep, CopyRest
<1>5. QED
  BY <1>1, <1>2, <1>3, <1>4, SearchesKept DEF IInv, SplitRest, NodeStep, MoveStep, CopyRest

LEMMA SplitClearKept ==
  ASSUME IInv, SplitClear
  PROVE  IInv'
<1>c. /\ Victim' = Victim
      /\ Stack => Stack'
      /\ Stacked => Stacked'
  BY ChainKept DEF SplitClear, NodeStep, MoveStep, ClearSlot
<1>h. /\ pos \in Slot /\ x \in Slot /\ okey \in Keys /\ okey \in started
      /\ lcp + 1 \in Level /\ lcp + 1 \in 0..KeyLen /\ nlen # 0
  BY ConstantFacts DEF IInv, Types, Locals, Level, SplitClear, NodeStep, MoveStep, ClearSlot
<1>z. hdr' \in [Slot -> Hdr] /\ kids' \in [Slot -> SUBSET Digit]
  BY HdrFacts DEF IInv, Types, SplitClear, NodeStep, MoveStep, ClearSlot
<1>1. Types'
  BY <1>c, <1>z DEF IInv, Types, SplitClear, NodeStep, MoveStep
<1>2. Locals'
  BY <1>c, ConstantFacts DEF IInv, Types, Locals, SplitClear, NodeStep, MoveStep, ClearSlot
<1>3. Nodes'
  <2>1. mkey' \in [Slot -> started \cup {ZeroKey}]
    BY DEF IInv, Nodes, SplitClear, NodeStep, MoveStep, ClearSlot
  <2>2. ASSUME NEW s \in Slot
        PROVE  Sound(s)'
    BY <1>h, HdrFacts DEF IInv, Types, Nodes, Sound, SplitClear, NodeStep, MoveStep, ClearSlot
  <2>3. QED
    BY <2>1, <2>2 DEF Nodes, SplitClear, NodeStep, MoveStep
<1>4. Parity'
  <2>1. UNCHANGED call
    BY DEF SplitClear, NodeStep, MoveStep, ClearSlot
  <2>2. QED
    BY <2>1, <1>c, VictimFacts, PathKept, OddFacts
       DEF IInv, Types, Locals, Parity, OddOnlyIn, HoleRaised, BothRaised,
           VictimBefore, Held, Holding, SplitClear, NodeStep, MoveStep, ClearSlot
<1>5. QED
  BY <1>1, <1>2, <1>3, <1>4, SearchesKept DEF IInv, SplitClear, NodeStep, MoveStep, ClearSlot

LEMMA AlterIndexKeyLenKept ==
  ASSUME IInv, AlterIndexKeyLen
  PROVE  IInv'
<1>c. /\ Victim' = Victim
      /\ Stack => Stack'
      /\ Stacked => Stacked'
  BY ChainKept DEF AlterIndexKeyLen, NodeStep, MoveStep
<1>h. /\ pos \in Slot /\ x \in Slot /\ okey \in Keys /\ okey \in started
      /\ lcp + 1 \in Level /\ lcp + 1 \in 0..KeyLen /\ nlen # 0
  BY ConstantFacts DEF IInv, Types, Locals, Level, AlterIndexKeyLen, NodeStep, MoveStep
<1>z. /\ hdr' \in [Slot -> Hdr]
      /\ \A s \in Slot : hdr'[s].occ = hdr[s].occ /\ hdr'[s].ilen \in {hdr[s].ilen, lcp + 1}
  BY <1>h DEF IInv, Types, Hdr, AlterIndexKeyLen, NodeStep, MoveStep
<1>1. Types'
  BY <1>c, <1>z DEF IInv, Types, AlterIndexKeyLen, NodeStep, MoveStep
<1>2. Locals'
  BY <1>c, ConstantFacts DEF IInv, Types, Locals, AlterIndexKeyLen, NodeStep, MoveStep
<1>3. Nodes'
  BY <1>c, <1>h, <1>z DEF IInv, Types, Nodes, Sound, NodeStep, MoveStep, AlterIndexKeyLen
<1>4. Parity'
  <2>1. UNCHANGED call
    BY DEF AlterIndexKeyLen, NodeStep, MoveStep
  <2>2. QED
    BY <2>1, <1>c, VictimFacts, PathKept, OddFacts
       DEF IInv, Types, Locals, Parity, OddOnlyIn, HoleRaised, BothRaised,
           VictimBefore, Held, Holding, AlterIndexKeyLen, NodeStep, MoveStep
<1>5. QED
  BY <1>1, <1>2, <1>3, <1>4, SearchesKept DEF IInv, AlterIndexKeyLen, NodeStep, MoveStep

LEMMA AlterHash18bitKept ==
  ASSUME IInv, AlterHash18bit
  PROVE  IInv'
<1>c. /\ Victim' = Victim
      /\ Stack => Stack'
      /\ Stacked => Stacked'
  BY ChainKept DEF AlterHash18bit, NodeStep, MoveStep
<1>h. /\ pos \in Slot /\ x \in Slot /\ okey \in Keys /\ okey \in started
      /\ lcp + 1 \in Level /\ lcp + 1 \in 0..KeyLen /\ nlen # 0
  BY ConstantFacts DEF IInv, Types, Locals, Level, AlterHash18bit, NodeStep, MoveStep
<1>z. /\ hdr' \in [Slot -> Hdr]
      /\ \A s \in Slot : hdr'[s].occ = hdr[s].occ /\ hdr'[s].ilen = hdr[s].ilen
  <2>1. Fp[Prefix(okey, lcp + 1)] \in Nat
    BY <1>h, HashFacts
  <2>2. QED
    BY <1>h, <2>1 DEF IInv, Types, Hdr, AlterHash18bit, NodeStep, MoveStep
<1>1. Types'
  BY <1>c, <1>z DEF IInv, Types, AlterHash18bit, NodeStep, MoveStep
<1>2. Locals'
  BY <1>c, ConstantFacts DEF IInv, Types, Locals, AlterHash18bit, NodeStep, MoveStep
<1>3. Nodes'
  BY <1>c, <1>h, <1>z DEF IInv, Types, Nodes, Sound, NodeStep, MoveStep, AlterHash18bit
<1>4. Parity'
  <2>1. UNCHANGED call
    BY DEF AlterHash18bit, NodeStep, MoveStep
  <2>2. QED
    BY <2>1, <1>c, VictimFacts, PathKept, OddFacts
       DEF IInv, Types, Locals, Parity, OddOnlyIn, HoleRaised, BothRaised,
           VictimBefore, Held, Holding, AlterHash18bit, NodeStep, MoveStep
<1>5. QED
  BY <1>1, <1>2, <1>3, <1>4, SearchesKept DEF IInv, AlterHash18bit, NodeStep, MoveStep

LEMMA InitVersionKept ==
  ASSUME IInv, InitVersion
  PROVE  IInv'
<1>c. /\ Victim' = Victim
      /\ Stack => Stack'
      /\ Stacked => Stacked'
  BY ChainKept DEF InitVersion, NodeStep, MoveStep, SetVersion
<1>h. /\ pos \in Slot \cup {None} /\ leaf \in Slot \cup {None} /\ NewSlot \in Slot
      /\ NewSlot \in Held /\ wkey \in started /\ started \subseteq Keys
      /\ (leaf = None => pos \in Slot /\ okey \in started)
      /\ lcp + 1 \in Level /\ lcp + 1 \in 0..KeyLen /\ lcp \in 0..KeyLen /\ nlen \in 0..KeyLen
      /\ (leaf = None => nlen \in Level) /\ x \in Slot \cup {None}
  <2>1. /\ leaf = None => pos \in Slot /\ okey \in started /\ nlen \in Level
        /\ wkey \in started /\ lcp \in TopLen..(KeyLen - 1)
    BY DEF IInv, Types, Locals, InitVersion, NodeStep, MoveStep, SetVersion
  <2>2. lcp + 1 \in Level /\ lcp + 1 \in 0..KeyLen
    BY <2>1, ConstantFacts DEF Level
  <2>3. leaf = None => pos \in Path(nlen)
    <3>1. nlen \in Level => nlen \in Nat /\ nlen \in (TopLen + 1)..nlen
      BY ConstantFacts DEF Level
    <3>2. PathPos1(nlen) = pos
      BY DEF PathPos1
    <3>3. QED
      BY <2>1, <3>1, <3>2, PathFacts
  <2>4. QED
    BY <2>1, <2>2, <2>3 DEF IInv, Types, NewSlot, UpperPart, Held
<1>1. Types'
  BY <1>c, VictimFacts, VersionFacts, ConstantFacts
     DEF IInv, Types, Locals, InitVersion, NodeStep, MoveStep, SetVersion
<1>2. Locals'
  BY <1>c, ConstantFacts DEF IInv, Types, Locals, InitVersion, NodeStep, MoveStep, SetVersion
<1>3. Nodes'
  BY <1>c, VictimFacts DEF IInv, Types, Locals, Nodes, Sound, InitVersion, NodeStep, MoveStep, SetVersion
<1>4. Parity'
  <2>1. Held' = Held
    BY PathKept DEF Held, InitVersion, NodeStep, MoveStep, SetVersion
  <2>2. OddOnlyIn(Held)
    BY DEF IInv, Parity, Holding, InitVersion, NodeStep, MoveStep, SetVersion
  <2>4. ASSUME NEW s \in Slot, s # NewSlot
        PROVE  ver'[s] = ver[s]
    BY <2>4 DEF IInv, Types, InitVersion, NodeStep, MoveStep, SetVersion
  <2>5. OddOnlyIn(Held)'
    BY <1>h, <2>1, <2>2, <2>4 DEF OddOnlyIn
  <2>6. QED
    BY <2>5 DEF IInv, Types, Locals, Parity, Holding, InitVersion, NodeStep, MoveStep, SetVersion
<1>5. QED
  BY <1>1, <1>2, <1>3, <1>4, SearchesKept DEF IInv, InitVersion, NodeStep, MoveStep, SetVersion

LEMMA InitRestKept ==
  ASSUME IInv, InitRest
  PROVE  IInv'
<1>c. /\ Victim' = Victim
      /\ Stack => Stack'
      /\ Stacked => Stacked'
  BY ChainKept DEF InitRest, NodeStep, MoveStep
<1>h. /\ pos \in Slot \cup {None} /\ leaf \in Slot \cup {None} /\ NewSlot \in Slot
      /\ NewSlot \in Held /\ wkey \in started /\ started \subseteq Keys
      /\ (leaf = None => pos \in Slot /\ okey \in started)
      /\ lcp + 1 \in Level /\ lcp + 1 \in 0..KeyLen /\ lcp \in 0..KeyLen /\ nlen \in 0..KeyLen
      /\ (leaf = None => nlen \in Level) /\ x \in Slot \cup {None}
  <2>1. /\ leaf = None => pos \in Slot /\ okey \in started /\ nlen \in Level
        /\ wkey \in started /\ lcp \in TopLen..(KeyLen - 1)
    BY DEF IInv, Types, Locals, InitRest, NodeStep, MoveStep
  <2>2. lcp + 1 \in Level /\ lcp + 1 \in 0..KeyLen
    BY <2>1, ConstantFacts DEF Level
  <2>3. leaf = None => pos \in Path(nlen)
    <3>1. nlen \in Level => nlen \in Nat /\ nlen \in (TopLen + 1)..nlen
      BY ConstantFacts DEF Level
    <3>2. PathPos1(nlen) = pos
      BY DEF PathPos1
    <3>3. QED
      BY <2>1, <3>1, <3>2, PathFacts
  <2>4. QED
    BY <2>1, <2>2, <2>3 DEF IInv, Types, NewSlot, UpperPart, Held
<1>n. NewKey \in started /\ NewKids \in SUBSET Digit
  <2>1. NewKey \in started
    BY <1>h, LowerFacts DEF NewKey, UpperPart
  <2>2. leaf = None => okey[lcp + 1] \in Digit
    <3>1. leaf = None => okey \in [1..KeyLen -> Digit]
      BY <1>h, ConstantFacts DEF Key
    <3>2. lcp + 1 \in 1..KeyLen
      BY <1>h, ConstantFacts
    <3>3. QED
      BY <3>1, <3>2
  <2>3. QED
    BY <2>1, <2>2 DEF NewKids, UpperPart
<1>g. NewSlot' = NewSlot
  BY DEF NewSlot, UpperPart, InitRest, NodeStep, MoveStep
<1>1. Types'
  BY <1>c, <1>n DEF IInv, Types, InitRest, NodeStep, MoveStep
<1>2. Locals'
  BY <1>c, ConstantFacts DEF IInv, Types, Locals, InitRest, NodeStep, MoveStep
<1>3. Nodes'
  <2>1. mkey' \in [Slot -> started \cup {ZeroKey}] /\ mkey'[NewSlot] \in started
    BY <1>h, <1>n DEF IInv, Nodes, InitRest, NodeStep, MoveStep
  <2>2. ASSUME NEW s \in Slot
        PROVE  Sound(s)'
    BY <1>h, <1>n DEF IInv, Types, Nodes, Sound, InitRest, NodeStep, MoveStep
  <2>3. QED
    BY <1>g, <2>1, <2>2 DEF Nodes, InitRest, NodeStep, MoveStep
<1>4. Parity'
  <2>1. UNCHANGED call
    BY DEF InitRest, NodeStep, MoveStep
  <2>2. QED
    BY <2>1, <1>c, VictimFacts, PathKept, OddFacts
       DEF IInv, Types, Locals, Parity, OddOnlyIn, HoleRaised, BothRaised,
           VictimBefore, Held, Holding, InitRest, NodeStep, MoveStep
<1>5. QED
  BY <1>1, <1>2, <1>3, <1>4, SearchesKept DEF IInv, InitRest, NodeStep, MoveStep

LEMMA InitHashKept ==
  ASSUME IInv, InitHash
  PROVE  IInv'
<1>c. /\ Victim' = Victim
      /\ Stack => Stack'
      /\ Stacked => Stacked'
  BY ChainKept DEF InitHash
<1>h. /\ pos \in Slot \cup {None} /\ leaf \in Slot \cup {None} /\ NewSlot \in Slot
      /\ NewSlot \in Held /\ wkey \in started /\ started \subseteq Keys
      /\ (leaf = None => pos \in Slot /\ okey \in started)
      /\ lcp + 1 \in Level /\ lcp + 1 \in 0..KeyLen /\ lcp \in 0..KeyLen /\ nlen \in 0..KeyLen
      /\ (leaf = None => nlen \in Level) /\ x \in Slot \cup {None}
  <2>1. /\ leaf = None => pos \in Slot /\ okey \in started /\ nlen \in Level
        /\ wkey \in started /\ lcp \in TopLen..(KeyLen - 1)
    BY DEF IInv, Types, Locals, InitHash
  <2>2. lcp + 1 \in Level /\ lcp + 1 \in 0..KeyLen
    BY <2>1, ConstantFacts DEF Level
  <2>3. leaf = None => pos \in Path(nlen)
    <3>1. nlen \in Level => nlen \in Nat /\ nlen \in (TopLen + 1)..nlen
      BY ConstantFacts DEF Level
    <3>2. PathPos1(nlen) = pos
      BY DEF PathPos1
    <3>3. QED
      BY <2>1, <3>1, <3>2, PathFacts
  <2>4. QED
    BY <2>1, <2>2, <2>3 DEF IInv, Types, NewSlot, UpperPart, Held
<1>n. NewHdr \in Hdr /\ NewHdr.ilen \in Level
  <2>1. CASE leaf = None
    BY <2>1, <1>h, HdrFacts DEF NewHdr, UpperPart, IInv, Types
  <2>2. CASE leaf # None
    <3>1. Fp[Prefix(wkey, lcp + 1)] \in Nat /\ KeyLen \in 0..KeyLen
      BY <1>h, HashFacts, ConstantFacts
    <3>2. QED
      BY <2>2, <1>h, <3>1, HdrFacts DEF NewHdr, UpperPart
  <2>3. QED
    BY <2>1, <2>2
<1>f. UNCHANGED <<mkey, kids, ver, top, call, split, leaf, displacement, rd, history>>
      /\ wpc = "initHash" /\ j' = nlen
  BY DEF InitHash
<1>t. \/ (wpc' = "addChild" /\ leaf = None /\ okey # None)
      \/ (wpc' = "finish" /\ nlen = 0)
      \/ (wpc' = "unlock1" /\ nlen # 0)
  BY DEF IInv, Locals, UpperPart, AfterLeaf, InitHash
<1>l. nlen \in Nat /\ TopLen \in Nat
      /\ (nlen # 0 => nlen \in (TopLen + 1)..nlen) /\ (nlen = 0 => okey = None)
      /\ (leaf = None => nlen # 0)
  BY <1>f, <1>h, ConstantFacts DEF IInv, Types, Locals, Level
<1>1. Types'
  BY <1>c, <1>f, <1>t, <1>h, <1>n DEF IInv, Types, InitHash
<1>2. Locals'
  BY <1>c, <1>f, <1>t, <1>l, <1>h, ConstantFacts DEF IInv, Types, Locals
<1>3. Nodes'
  <2>1. ASSUME NEW s \in Slot
        PROVE  Sound(s)'
    BY <1>f, <1>h, <1>n DEF IInv, Types, Nodes, Sound, InitHash
  <2>2. QED
    BY <1>f, <1>t, <2>1 DEF IInv, Nodes
<1>4. Parity'
  <2>1. Held' = Path(nlen) \cup {x', leaf'}
    BY <1>f, PathKept
  <2>2. OddOnlyIn(Path(nlen) \cup {x, leaf})
    BY <1>f DEF IInv, Parity, Held, Holding
  <2>3. OddOnlyIn(Held)'
    BY <1>f, <2>1, <2>2 DEF OddOnlyIn
  <2>4. Path(nlen)' = Path(nlen) /\ \A n : Path(n)' = Path(n)
    BY <1>f, PathKept
  <2>5. (Path(j) \cup {x, leaf})' = Held'
    BY <1>f, <2>4, <2>1
  <2>6. Busy /\ (nlen # 0 => ~Odd(topVer))
    BY <1>f DEF IInv, Parity
  <2>7. QED
    BY <1>f, <1>t, <2>3, <2>5, <2>6 DEF Parity
<1>5. QED
  BY <1>1, <1>2, <1>3, <1>4, SearchesKept DEF IInv, InitHash

LEMMA AddSecondKept ==
  ASSUME IInv, AddSecond
  PROVE  IInv'
<1>c. /\ Victim' = Victim
      /\ Stack => Stack'
      /\ Stacked => Stacked'
  BY ChainKept DEF AddSecond, AddChild, AfterNode
<1>h. /\ lcp + 1 \in 1..KeyLen /\ wkey \in started /\ wkey \in [1..KeyLen -> Digit]
      /\ pos \in Slot /\ nlen \in Level /\ nlen \in 1..KeyLen /\ nlen \in Int
  BY ConstantFacts DEF IInv, Types, Locals, Level, Key, AddSecond, AddChild, AfterNode
<1>w. wkey[lcp + 1] \in Digit /\ nlen - 1 \in 0..KeyLen /\ (nlen - 1 > TopLen => nlen - 1 \in Level)
  BY <1>h, ConstantFacts DEF Level
<1>t. /\ j' = nlen - 1
      /\ wpc' = "reserve" \/ (wpc' = "parents" /\ nlen - 1 > TopLen)
      /\ wpc \in Extending
      /\ UNCHANGED <<ver, top, call, split, leaf, displacement, rd, history>>
  BY DEF AddSecond, AddChild, AfterNode
<1>1. Types'
  <2>1. kids' \in [Slot -> SUBSET Digit]
    BY <1>w DEF IInv, Types, AddSecond, AddChild
  <2>2. QED
    BY <1>c, <1>w, <1>t, <2>1 DEF IInv, Types, AddSecond
<1>2. Locals'
  BY <1>c, <1>h, <1>w, <1>t DEF IInv, Types, Locals
<1>3. Nodes'
  BY <1>c, VictimFacts DEF IInv, Types, Locals, Nodes, Sound, AddSecond, AddChild, AfterNode
<1>4. Parity'
  <2>1. UNCHANGED call
    BY DEF AddSecond, AddChild, AfterNode
  <2>2. QED
    BY <2>1, <1>c, VictimFacts, PathKept, OddFacts
       DEF IInv, Types, Locals, Parity, OddOnlyIn, HoleRaised, BothRaised,
           VictimBefore, Held, Holding, AddSecond, AddChild, AfterNode
<1>5. QED
  BY <1>1, <1>2, <1>3, <1>4, SearchesKept DEF IInv, AddSecond, AddChild, AfterNode

LEMMA ExtendKept ==
  ASSUME IInv, Extend
  PROVE  IInv'
<1>c. /\ Victim' = Victim
      /\ Stack => Stack'
      /\ Stacked => Stacked'
  BY ChainKept DEF Extend, AddChild
<1>h. /\ lcp + 1 \in 1..KeyLen /\ wkey \in started /\ wkey \in [1..KeyLen -> Digit]
      /\ pos \in Slot /\ nlen \in Level /\ nlen \in 1..KeyLen /\ nlen \in Int
  BY ConstantFacts DEF IInv, Types, Locals, Level, Key, Extend, AddChild
<1>w. wkey[lcp + 1] \in Digit /\ nlen - 1 \in 0..KeyLen /\ (nlen - 1 > TopLen => nlen - 1 \in Level)
  BY <1>h, ConstantFacts DEF Level
<1>1. Types'
  <2>1. kids' \in [Slot -> SUBSET Digit]
    BY <1>w DEF IInv, Types, Extend, AddChild
  <2>2. QED
    BY <1>c, <1>w, <2>1 DEF IInv, Types, Extend
<1>2. Locals'
  BY <1>c, ConstantFacts DEF IInv, Types, Locals, Extend, AddChild
<1>3. Nodes'
  BY <1>c, VictimFacts DEF IInv, Types, Locals, Nodes, Sound, Extend, AddChild
<1>4. Parity'
  <2>1. UNCHANGED call
    BY DEF Extend, AddChild
  <2>2. QED
    BY <2>1, <1>c, VictimFacts, PathKept, OddFacts
       DEF IInv, Types, Locals, Parity, OddOnlyIn, HoleRaised, BothRaised,
           VictimBefore, Held, Holding, Extend, AddChild
<1>5. QED
  BY <1>1, <1>2, <1>3, <1>4, SearchesKept DEF IInv, Extend, AddChild

LEMMA ExtendKeyKept ==
  ASSUME IInv, ExtendKey
  PROVE  IInv'
<1>c. /\ Victim' = Victim
      /\ Stack => Stack'
      /\ Stacked => Stacked'
  BY ChainKept DEF ExtendKey, AfterNode
<1>h. /\ lcp + 1 \in 1..KeyLen /\ wkey \in started /\ wkey \in [1..KeyLen -> Digit]
      /\ pos \in Slot /\ nlen \in Level /\ nlen \in 1..KeyLen /\ nlen \in Int
  BY ConstantFacts DEF IInv, Types, Locals, Level, Key, ExtendKey, AfterNode
<1>w. wkey[lcp + 1] \in Digit /\ nlen - 1 \in 0..KeyLen /\ (nlen - 1 > TopLen => nlen - 1 \in Level)
  BY <1>h, ConstantFacts DEF Level
<1>t. /\ j' = nlen - 1
      /\ wpc' = "reserve" \/ (wpc' = "parents" /\ nlen - 1 > TopLen)
      /\ wpc \in Extending
      /\ UNCHANGED <<ver, top, call, split, leaf, displacement, rd, history>>
  BY DEF ExtendKey, AfterNode
<1>1. Types'
  BY <1>c, VictimFacts, VersionFacts, ConstantFacts
     DEF IInv, Types, Locals, ExtendKey, AfterNode
<1>2. Locals'
  BY <1>c, <1>h, <1>w, <1>t DEF IInv, Types, Locals
<1>3. Nodes'
  <2>1. mkey' \in [Slot -> started \cup {ZeroKey}]
        /\ \A s \in Slot : mkey'[s] = mkey[s] \/ mkey'[s] \in {wkey, mkey[s]}
    BY <1>h, LowerFacts DEF IInv, Nodes, ExtendKey
  <2>2. ASSUME NEW s \in Slot
        PROVE  Sound(s)'
    BY <1>h, <1>t, <2>1 DEF IInv, Nodes, Sound, ExtendKey
  <2>3. QED
    BY <1>t, <2>1, <2>2 DEF IInv, Nodes
<1>4. Parity'
  <2>1. UNCHANGED call
    BY DEF ExtendKey, AfterNode
  <2>2. QED
    BY <2>1, <1>c, VictimFacts, PathKept, OddFacts
       DEF IInv, Types, Locals, Parity, OddOnlyIn, HoleRaised, BothRaised,
           VictimBefore, Held, Holding, ExtendKey, AfterNode
<1>5. QED
  BY <1>1, <1>2, <1>3, <1>4, SearchesKept DEF IInv, ExtendKey, AfterNode

LEMMA ParentsKept ==
  ASSUME IInv, Parents
  PROVE  IInv'
<1>c. /\ Victim' = Victim
      /\ Stack => Stack'
      /\ Stacked => Stacked'
  BY ChainKept DEF Parents
<1>1. Types'
  BY <1>c, VictimFacts, VersionFacts, ConstantFacts
     DEF IInv, Types, Locals, Parents
<1>2. Locals'
  <2>1. j' = j - 1 /\ (wpc' = "reserve" \/ (wpc' = "parents" /\ j # TopLen + 1)) /\ wpc = "parents"
        /\ UNCHANGED <<call, split, leaf, displacement, history>>
    BY DEF Parents
  <2>2. j \in Level /\ (j # TopLen + 1 => j - 1 \in Level)
    BY <2>1, ConstantFacts DEF IInv, Locals, Level
  <2>3. QED
    BY <1>c, <2>1, <2>2 DEF IInv, Types, Locals
<1>3. Nodes'
  BY <1>c, VictimFacts DEF IInv, Types, Locals, Nodes, Sound, Parents
<1>4. Parity'
  <2>1. UNCHANGED call
    BY DEF Parents
  <2>2. QED
    BY <2>1, <1>c, VictimFacts, PathKept, OddFacts
       DEF IInv, Types, Locals, Parity, OddOnlyIn, HoleRaised, BothRaised,
           VictimBefore, Held, Holding, Parents
<1>5. QED
  BY <1>1, <1>2, <1>3, <1>4, SearchesKept DEF IInv, Parents

LEMMA UnlockPath1Kept ==
  ASSUME IInv, UnlockPath1
  PROVE  IInv'
<1>c. /\ Victim' = Victim
      /\ Stack => Stack'
      /\ Stacked => Stacked'
  BY ChainKept DEF UnlockPath1, SetVersion
<1>p. /\ j \in Level /\ j \in Int /\ TopLen \in Int /\ PathPos1(j) \in Slot /\ PathPos2(j) \in Slot
      /\ Path(j) = Path(j - 1) \cup {PathPos1(j), PathPos2(j)} /\ Path(TopLen) = {}
      /\ j \in (TopLen + 1)..nlen /\ nlen \in Int
  <2>1. j \in (TopLen + 1)..nlen /\ Busy /\ nlen # 0 /\ nlen \in 0..KeyLen
    BY DEF IInv, Types, Locals, UnlockPath1, SetVersion
  <2>2. QED
    BY <2>1, PathSlots, PathFacts, ConstantFacts DEF IInv
<1>k. (\A n : Path(n)' = Path(n)) /\ UNCHANGED <<call, x, leaf, topVer>>
  <2>1. UNCHANGED <<call, x, leaf, topVer>>
    BY DEF UnlockPath1, SetVersion
  <2>2. QED
    BY <2>1, PathKept
<1>1. Types'
  BY <1>c, VictimFacts, VersionFacts, ConstantFacts
     DEF IInv, Types, Locals, UnlockPath1, SetVersion
<1>2. Locals'
  BY <1>c, ConstantFacts DEF IInv, Types, Locals, UnlockPath1, SetVersion
<1>3. Nodes'
  BY <1>c, VictimFacts DEF IInv, Types, Locals, Nodes, Sound, UnlockPath1, SetVersion
<1>4. Parity'
  <2>1. \A s \in Slot : Odd(ver'[s]) => Odd(ver[s]) /\ s # PathPos1(j)
    BY <1>p, OddFacts DEF IInv, Types, UnlockPath1, SetVersion
  <2>2. OddOnlyIn(Path(j) \cup {x, leaf})
    BY DEF IInv, Parity, UnlockPath1, SetVersion
  <2>3. j' = j /\ wpc' = "unlock2" /\ wpc = "unlock1" /\ PathPos2(j)' = PathPos2(j)
    BY DEF PathPos2, UnlockPath1, SetVersion
  <2>4. (Path(j - 1) \cup {PathPos2(j), x, leaf})' = Path(j - 1) \cup {PathPos2(j), x, leaf}
    BY <1>k, <2>3
  <2>5. OddOnlyIn(Path(j - 1) \cup {PathPos2(j), x, leaf})'
    BY <1>p, <2>1, <2>2, <2>4 DEF OddOnlyIn
  <2>6. ~Odd(topVer)
    BY <2>3, <1>p DEF IInv, Parity, Locals
  <2>7. QED
    BY <1>k, <2>3, <2>5, <2>6 DEF Parity, Holding
<1>5. QED
  BY <1>1, <1>2, <1>3, <1>4, SearchesKept DEF IInv, UnlockPath1, SetVersion

LEMMA UnlockPath2Kept ==
  ASSUME IInv, UnlockPath2
  PROVE  IInv'
<1>c. /\ Victim' = Victim
      /\ Stack => Stack'
      /\ Stacked => Stacked'
  BY ChainKept DEF UnlockPath2, SetVersion
<1>p. /\ j \in Level /\ j \in Int /\ TopLen \in Int /\ PathPos1(j) \in Slot /\ PathPos2(j) \in Slot
      /\ Path(j) = Path(j - 1) \cup {PathPos1(j), PathPos2(j)} /\ Path(TopLen) = {}
      /\ j \in (TopLen + 1)..nlen /\ nlen \in Int
  <2>1. j \in (TopLen + 1)..nlen /\ Busy /\ nlen # 0 /\ nlen \in 0..KeyLen
    BY DEF IInv, Types, Locals, UnlockPath2, SetVersion
  <2>2. QED
    BY <2>1, PathSlots, PathFacts, ConstantFacts DEF IInv
<1>k. (\A n : Path(n)' = Path(n)) /\ UNCHANGED <<call, x, leaf, topVer>>
  <2>1. UNCHANGED <<call, x, leaf, topVer>>
    BY DEF UnlockPath2, SetVersion
  <2>2. QED
    BY <2>1, PathKept
<1>t. /\ j' = j - 1 /\ wpc = "unlock2"
      /\ \/ (wpc' = "unlock1" /\ j > TopLen + 1 /\ j - 1 \in (TopLen + 1)..nlen)
         \/ (wpc' = "unlockX" /\ j = TopLen + 1 /\ x # None)
         \/ (wpc' = "unlockLeaf" /\ j = TopLen + 1 /\ x = None)
      /\ UNCHANGED <<table, top, call, split, leaf, displacement, rd, history>>
  <2>1. j > TopLen + 1 => j - 1 \in (TopLen + 1)..nlen
    BY <1>p, ConstantFacts
  <2>2. ~(j > TopLen + 1) => j = TopLen + 1
    BY <1>p, ConstantFacts
  <2>3. QED
    BY <2>1, <2>2 DEF UnlockPath2
<1>1. Types'
  <2>1. ver' \in [Slot -> Version] /\ j - 1 \in 0..KeyLen
    BY <1>p, VersionFacts, ConstantFacts DEF IInv, Types, UnlockPath2, SetVersion
  <2>2. QED
    BY <1>c, <1>t, <2>1 DEF IInv, Types
<1>2. Locals'
  BY <1>c, <1>t DEF IInv, Types, Locals
<1>3. Nodes'
  BY <1>c, VictimFacts DEF IInv, Types, Locals, Nodes, Sound, UnlockPath2, SetVersion
<1>4. Parity'
  <2>1. \A s \in Slot : Odd(ver'[s]) => Odd(ver[s]) /\ s # PathPos2(j)
    BY <1>p, OddFacts DEF IInv, Types, UnlockPath2, SetVersion
  <2>2. OddOnlyIn(Path(j - 1) \cup {PathPos2(j), x, leaf})
    BY DEF IInv, Parity, UnlockPath2, SetVersion
  <2>3. \A s \in Slot : Odd(ver'[s]) => s \in Path(j - 1) \cup {x, leaf}
    BY <2>1, <2>2 DEF OddOnlyIn
  <2>4. ~Odd(topVer)
    BY <1>p, <1>t DEF IInv, Parity, Locals
  <2>5. CASE wpc' = "unlock1"
    <3>1. Path(j)' = Path(j - 1)
      BY <1>k, <1>t
    <3>2. OddOnlyIn(Path(j) \cup {x, leaf})'
      BY <1>k, <2>3, <3>1 DEF OddOnlyIn
    <3>3. QED
      BY <1>k, <2>4, <2>5, <3>2 DEF Parity, Holding
  <2>6. CASE wpc' # "unlock1"
    <3>1. j - 1 = TopLen /\ Path(j - 1) = {}
      BY <1>p, <1>t, <2>6
    <3>2. OddOnlyIn({x, leaf})'
      BY <1>k, <2>3, <3>1 DEF OddOnlyIn
    <3>3. wpc' = "unlockLeaf" => OddOnlyIn({leaf})'
      BY <1>k, <1>t, <3>2, ConstantFacts DEF OddOnlyIn
    <3>4. QED
      BY <1>k, <1>t, <2>4, <2>6, <3>2, <3>3 DEF Parity, Holding
  <2>7. QED
    BY <2>5, <2>6
<1>5. QED
  BY <1>1, <1>2, <1>3, <1>4, SearchesKept DEF IInv, UnlockPath2, SetVersion

LEMMA UnlockXKept ==
  ASSUME IInv, UnlockX
  PROVE  IInv'
<1>c. /\ Victim' = Victim
      /\ Stack => Stack'
      /\ Stacked => Stacked'
  BY ChainKept DEF UnlockX, NodeStep, MoveStep, SetVersion
<1>1. Types'
  BY <1>c, VictimFacts, VersionFacts, ConstantFacts
     DEF IInv, Types, Locals, UnlockX, NodeStep, MoveStep, SetVersion
<1>2. Locals'
  BY <1>c, ConstantFacts DEF IInv, Types, Locals, UnlockX, NodeStep, MoveStep, SetVersion
<1>3. Nodes'
  BY <1>c, VictimFacts DEF IInv, Types, Locals, Nodes, Sound, UnlockX, NodeStep, MoveStep, SetVersion
<1>4. Parity'
  <2>1. UNCHANGED call
    BY DEF UnlockX, NodeStep, MoveStep, SetVersion
  <2>2. QED
    BY <2>1, <1>c, VictimFacts, PathKept, OddFacts
       DEF IInv, Types, Locals, Parity, OddOnlyIn, HoleRaised, BothRaised,
           VictimBefore, Held, Holding, UnlockX, NodeStep, MoveStep, SetVersion
<1>5. QED
  BY <1>1, <1>2, <1>3, <1>4, SearchesKept DEF IInv, UnlockX, NodeStep, MoveStep, SetVersion

LEMMA UnlockLeafKept ==
  ASSUME IInv, UnlockLeaf
  PROVE  IInv'
<1>c. /\ Victim' = Victim
      /\ Stack => Stack'
      /\ Stacked => Stacked'
  BY ChainKept DEF UnlockLeaf, LowerLeaf, Finish, EndInsert, SetVersion
<1>p. leaf \in Slot /\ wkey \in Keys /\ None \notin Slot /\ nlen # 0 /\ Busy /\ 0 \in 0..KeyLen
  BY ConstantFacts DEF IInv, Types, Locals, UnlockLeaf, LowerLeaf, Finish, EndInsert, SetVersion
<1>1. Types'
  <2>1. ver' \in [Slot -> Version] /\ known \cup {wkey} \subseteq Keys
    BY <1>p, VersionFacts DEF IInv, Types, UnlockLeaf, LowerLeaf, Finish, EndInsert, SetVersion
  <2>2. topVer' = topVer
    BY DEF UnlockLeaf, LowerLeaf, Finish, EndInsert, SetVersion
  <2>3. QED
    BY <1>c, <1>p, <2>1, <2>2 DEF IInv, Types, UnlockLeaf, LowerLeaf, Finish, EndInsert, SetVersion
<1>2. Locals'
  BY <1>c, ConstantFacts DEF IInv, Types, Locals, UnlockLeaf, LowerLeaf, Finish, EndInsert, SetVersion
<1>3. Nodes'
  BY <1>c, VictimFacts DEF IInv, Types, Locals, Nodes, Sound, UnlockLeaf, LowerLeaf, Finish, EndInsert, SetVersion
<1>4. Parity'
  <2>1. \A s \in Slot : Odd(ver'[s]) => Odd(ver[s]) /\ s # leaf
    BY <1>p, OddFacts DEF IInv, Types, UnlockLeaf, LowerLeaf, Finish, EndInsert, SetVersion
  <2>2. OddOnlyIn({leaf}) /\ ~Odd(topVer)
    BY <1>p DEF IInv, Parity, UnlockLeaf, LowerLeaf, Finish, EndInsert, SetVersion
  <2>3. OddOnlyIn({})'
    BY <2>1, <2>2 DEF OddOnlyIn
  <2>4. wpc' = "idle" /\ topVer' = topVer
    BY DEF UnlockLeaf, LowerLeaf, Finish, EndInsert, SetVersion
  <2>5. QED
    BY <2>2, <2>3, <2>4 DEF Parity, Holding
<1>5. QED
  BY <1>1, <1>2, <1>3, <1>4, SearchesKept DEF IInv, UnlockLeaf, LowerLeaf, Finish, EndInsert, SetVersion

LEMMA FinishTopKept ==
  ASSUME IInv, FinishTop
  PROVE  IInv'
<1>c. /\ Victim' = Victim
      /\ Stack => Stack'
      /\ Stacked => Stacked'
  BY ChainKept DEF FinishTop
<1>1. Types'
  BY <1>c, VictimFacts, VersionFacts, ConstantFacts
     DEF IInv, Types, Locals, FinishTop
<1>2. Locals'
  BY <1>c, ConstantFacts DEF IInv, Types, Locals, FinishTop
<1>3. Nodes'
  BY <1>c, VictimFacts DEF IInv, Types, Locals, Nodes, Sound, FinishTop
<1>4. Parity'
  <2>1. UNCHANGED call
    BY DEF FinishTop
  <2>2. QED
    BY <2>1, <1>c, VictimFacts, PathKept, OddFacts
       DEF IInv, Types, Locals, Parity, OddOnlyIn, HoleRaised, BothRaised,
           VictimBefore, Held, Holding, FinishTop
<1>5. QED
  BY <1>1, <1>2, <1>3, <1>4, SearchesKept DEF IInv, FinishTop

LEMMA UnlockTopKept ==
  ASSUME IInv, UnlockTop
  PROVE  IInv'
<1>c. /\ Victim' = Victim
      /\ Stack => Stack'
      /\ Stacked => Stacked'
  BY ChainKept DEF UnlockTop, LowerTop, Finish, EndInsert, SetVersion
<1>p. leaf \in Slot /\ wkey \in Keys /\ None \notin Slot /\ nlen = 0 /\ x = None /\ 0 \in 0..KeyLen
  BY ConstantFacts DEF IInv, Types, Locals, UnlockTop, LowerTop, Finish, EndInsert, SetVersion
<1>1. Types'
  <2>1. ver' \in [Slot -> Version] /\ known \cup {wkey} \subseteq Keys
    BY <1>p, VersionFacts DEF IInv, Types, UnlockTop, LowerTop, Finish, EndInsert, SetVersion
  <2>2. topVer' \in Version
    BY VersionFacts DEF IInv, Types, UnlockTop, LowerTop, Finish, EndInsert, SetVersion
  <2>3. QED
    BY <1>c, <1>p, <2>1, <2>2 DEF IInv, Types, UnlockTop, LowerTop, Finish, EndInsert, SetVersion
<1>2. Locals'
  BY <1>c, ConstantFacts DEF IInv, Types, Locals, UnlockTop, LowerTop, Finish, EndInsert, SetVersion
<1>3. Nodes'
  BY <1>c, VictimFacts DEF IInv, Types, Locals, Nodes, Sound, UnlockTop, LowerTop, Finish, EndInsert, SetVersion
<1>4. Parity'
  <2>1. \A s \in Slot : Odd(ver'[s]) => Odd(ver[s]) /\ s # leaf
    BY <1>p, OddFacts DEF IInv, Types, UnlockTop, LowerTop, Finish, EndInsert, SetVersion
  <2>2. OddOnlyIn({leaf})
    <3>1. Held \cap Slot \subseteq {leaf}
      BY <1>p, PathFacts DEF Held
    <3>2. OddOnlyIn(Held)
      BY DEF IInv, Parity, Holding, UnlockTop, LowerTop, Finish, EndInsert, SetVersion
    <3>3. QED
      BY <3>1, <3>2 DEF OddOnlyIn
  <2>3. OddOnlyIn({})'
    BY <2>1, <2>2 DEF OddOnlyIn
  <2>4. wpc' = "idle" /\ ~Odd(topVer')
    BY OddFacts DEF IInv, Types, UnlockTop, LowerTop, Finish, EndInsert, SetVersion
  <2>5. QED
    BY <2>3, <2>4 DEF Parity, Holding
<1>5. QED
  BY <1>1, <1>2, <1>3, <1>4, SearchesKept DEF IInv, UnlockTop, LowerTop, Finish, EndInsert, SetVersion

LEMMA CrashKept ==
  ASSUME IInv, Crash
  PROVE  IInv'
<1>c. /\ Victim' = Victim
      /\ Stack => Stack'
      /\ Stacked => Stacked'
  BY ChainKept DEF Crash
<1>1. Types'
  BY <1>c, VictimFacts, VersionFacts, ConstantFacts
     DEF IInv, Types, Locals, Crash
<1>2. Locals'
  BY <1>c, ConstantFacts DEF IInv, Types, Locals, Crash
<1>3. Nodes'
  BY <1>c, VictimFacts DEF IInv, Types, Locals, Nodes, Sound, Crash
<1>4. Parity'
  <2>1. UNCHANGED call
    BY DEF Crash
  <2>2. QED
    BY <2>1, <1>c, VictimFacts, PathKept, OddFacts
       DEF IInv, Types, Locals, Parity, OddOnlyIn, HoleRaised, BothRaised,
           VictimBefore, Held, Holding, Crash
<1>5. QED
  BY <1>1, <1>2, <1>3, <1>4, SearchesKept DEF IInv, Crash

-----------------------------------------------------------------------------
(* Insert begins. *)

\* What the search hands to the rest of the call, and where it goes on.
GoodStart(q, next) ==
  /\ q.lcp \in TopLen..(KeyLen - 1) /\ q.ilen \in Level \cup {0}
  /\ q.ilen # 0 => q.pos \in Slot /\ hdr[q.pos].occ
  /\ q.ilen = 0 => q.pos = None
  /\ next \in {"setTop", "reserve", "lock1"}
  /\ (next = "lock1") <=> (q.ilen # 0)

LEMMA BeginKept ==
  ASSUME IInv, wpc = "idle", NEW k \in Keys, NEW q, NEW next, Begin(k, q, next),
         GoodStart(q, next), topVer' \in Version,
         q.ilen # 0 => topVer' = topVer
  PROVE  IInv'
<1>c. /\ Victim' = Victim
      /\ Stack => Stack'
      /\ Stacked => Stacked'
  BY ChainKept DEF Begin
<1>f. /\ UNCHANGED <<hdr, mkey, kids, ver, x, okey, ofp, leaf, hole, wasOdd, rd, known>>
      /\ wpc' = next /\ started' = started \cup {k} /\ wkey' = k
      /\ lcp' = q.lcp /\ nlen' = q.ilen /\ pos' = q.pos /\ j' = q.ilen
  BY DEF Begin
<1>q. /\ lcp' \in TopLen..(KeyLen - 1) /\ lcp' \in 0..KeyLen
      /\ nlen' \in Level \cup {0} /\ nlen' \in 0..KeyLen
      /\ nlen' # 0 => pos' \in Slot /\ hdr[pos'].occ
      /\ nlen' = 0 => pos' = None
      /\ wpc' \in {"setTop", "reserve", "lock1"} /\ ((wpc' = "lock1") <=> (nlen' # 0))
      /\ nlen' # 0 => j' \in (TopLen + 1)..nlen' /\ topVer' = topVer
  BY <1>f, ConstantFacts DEF GoodStart, Level
<1>l. okey = None /\ x = None /\ leaf = None
  BY DEF IInv, Locals
<1>1. Types'
  BY <1>c, <1>f, <1>q DEF IInv, Types
<1>2. Locals'
  <2>1. nlen' # 0 => pos' # None
    BY <1>q, ConstantFacts
  <2>2. UNCHANGED <<x, okey, leaf, hole>> /\ wkey' \in started'
    BY <1>f
  <2>3. QED
    BY <1>c, <1>q, <1>l, <2>1, <2>2 DEF Locals
<1>3. Nodes'
  BY <1>c, <1>f, <1>q DEF IInv, Nodes, Sound
<1>4. Parity'
  <2>1. \A s \in Slot : ~Odd(ver'[s])
    BY <1>f DEF IInv, Parity, OddOnlyIn
  <2>2. OddOnlyIn(Held)'
    BY <2>1 DEF OddOnlyIn
  <2>3. nlen' # 0 => ~Odd(topVer')
    BY <1>q DEF IInv, Parity
  <2>4. QED
    BY <1>q, <2>2, <2>3 DEF Parity
<1>5. QED
  BY <1>1, <1>2, <1>3, <1>4, <1>f, SearchesKept DEF IInv

LEMMA TopMissKept ==
  ASSUME IInv, NEW k \in Keys, TopMiss(k)
  PROVE  IInv'
<1>1. topVer' \in Version
  BY VersionFacts DEF IInv, Types, TopMiss
<1>2. GoodStart(NotFound, "setTop")
  BY ConstantFacts DEF GoodStart, NotFound
<1>3. NotFound.ilen = 0
  BY DEF NotFound
<1>4. QED
  BY <1>1, <1>2, <1>3, BeginKept DEF TopMiss

LEMMA FindPathKept ==
  ASSUME IInv, NEW k \in Keys, FindPath(k)
  PROVE  IInv'
<1> DEFINE q == NaiveQueryLCP(k)
           next == IF q.ilen = 0 THEN "reserve" ELSE "lock1"
<1>1. /\ q.lcp \in TopLen..KeyLen /\ q.ilen \in Level \cup {0}
      /\ q.ilen # 0 => q.pos \in Slot /\ hdr[q.pos].occ
      /\ q.ilen = 0 => q.pos = None
  BY QueryFacts
<1>2. q.lcp < KeyLen /\ Begin(k, q, next) /\ topVer' = topVer /\ wpc = "idle"
  BY DEF FindPath
<1> HIDE DEF q
<1>3. q.lcp \in TopLen..(KeyLen - 1)
  BY <1>1, <1>2, ConstantFacts
<1>4. GoodStart(q, next)
  BY <1>1, <1>3 DEF GoodStart
<1>5. topVer' \in Version
  BY <1>2 DEF IInv, Types
<1> HIDE DEF next
<1>6. QED
  BY <1>2, <1>4, <1>5, BeginKept

-----------------------------------------------------------------------------
(* What a reader does leaves the writer's part of the invariant alone. *)

\* Steps that leave the writer alone keep its part of the invariant.
LEMMA WriterKept ==
  ASSUME IInv, UNCHANGED <<table, ver, top, wpc, call, j, split, leaf, displacement>>,
         started \subseteq started', started' \subseteq Keys, known' \subseteq Keys
  PROVE  Types' /\ Locals' /\ Nodes' /\ Parity'
<1>c. /\ Victim' = Victim
      /\ Stack => Stack'
      /\ Stacked => Stacked'
  BY ChainKept
<1>1. Types'
  BY <1>c DEF IInv, Types
<1>2. Locals'
  BY <1>c DEF IInv, Types, Locals
<1>3. Nodes'
  BY <1>c DEF IInv, Nodes, Sound, NewSlot, UpperPart
<1>4. Parity'
  <2>1. UNCHANGED call /\ Held' = Held
    BY PathKept DEF Held
  <2>2. PathPos2(j)' = PathPos2(j)
    BY DEF PathPos2
  <2>3. Path(j)' = Path(j) /\ Path(j - 1)' = Path(j - 1)
    BY <2>1, PathKept DEF Path, PathPos1, PathPos2
  <2>4. \A S : OddOnlyIn(S)' = OddOnlyIn(S)
    BY DEF OddOnlyIn
  <2>5. QED
    BY <1>c, <2>1, <2>2, <2>3
       DEF IInv, Parity, OddOnlyIn, HoleRaised, BothRaised, VictimBefore
<1>5. QED
  BY <1>1, <1>2, <1>3, <1>4

LEMMA AlreadyThereKept ==
  ASSUME IInv, NEW k \in Keys, AlreadyThere(k)
  PROVE  IInv'
<1>1. started \subseteq started' /\ started' \subseteq Keys /\ known' \subseteq Keys /\ rd' = rd
  BY DEF IInv, Types, AlreadyThere
<1>2. Searches'
  BY <1>1, SearchesKept DEF IInv
<1>3. Types' /\ Locals' /\ Nodes' /\ Parity'
  BY <1>1, WriterKept DEF AlreadyThere
<1>4. QED
  BY <1>2, <1>3 DEF IInv

-----------------------------------------------------------------------------
(* The readers' steps. *)

\* What the invariant says of one reader.
GoodReader(c) ==
  /\ c \in ReaderState
  /\ c.pc # "idle" => c.key \in Keys
  /\ c.res = KeyLen => c.key \in started \cup {ZeroKey}

\* Every reader's record is good.
LEMMA ReaderFacts ==
  ASSUME IInv, NEW r \in Readers
  PROVE  GoodReader(rd[r])
BY DEF IInv, Searches, GoodReader

\* A step of one reader keeps the invariant if its record is good afterwards.
LEMMA ReaderKept ==
  ASSUME IInv, NEW r \in Readers, NEW c, GoodReader(c), rd' = [rd EXCEPT ![r] = c],
         UNCHANGED <<table, ver, top, wpc, call, j, split, leaf, displacement, started>>,
         known' \subseteq Keys
  PROVE  IInv'
<1>1. started \subseteq started' /\ started' \subseteq Keys
  BY DEF IInv, Types
<1>2. Searches'
  <2>1. rd \in [Readers -> ReaderState] /\ \A i \in Readers : GoodReader(rd[i])
    BY ReaderFacts DEF IInv, Searches
  <2>2. rd' \in [Readers -> ReaderState] /\ \A i \in Readers : GoodReader(rd'[i])
    BY <2>1 DEF GoodReader
  <2>3. QED
    BY <1>1, <2>2 DEF Searches, GoodReader
<1>3. Types' /\ Locals' /\ Nodes' /\ Parity'
  BY <1>1, WriterKept
<1>4. QED
  BY <1>2, <1>3 DEF IInv

\* So does a step that Become makes.
LEMMA BecomeKept ==
  ASSUME IInv, NEW r \in Readers, NEW c, GoodReader(c), Become(r, c)
  PROVE  IInv'
<1>1. known' \subseteq Keys
  BY DEF IInv, Types, Become
<1>2. QED
  BY <1>1, ReaderKept DEF Become

\* A search that begins, or begins again.
LEMMA SearchFacts ==
  /\ \A k \in Keys, m \in BOOLEAN : GoodReader(Search(k, m))
  /\ GoodReader(IdleReader)
<1>1. /\ TopLen \in 0..KeyLen /\ TopLen # KeyLen /\ KeyLen \in Level /\ 0 \in 0..KeyLen
      /\ 0 \in Slot /\ 0 \in Version
  BY ConstantFacts, BoundAssumption DEF Level, Version
<1>2. NoVersions \in [{1, 2} -> [Level -> Version]]
  BY <1>1 DEF NoVersions
<1> DEFINE Good(c) == c \in ReaderState /\ c.res # KeyLen
<1>3. ASSUME NEW k \in Keys \cup {None}, NEW m \in BOOLEAN
      PROVE  Good(Search(k, m)) /\ Search(k, m).key = k
  BY <1>1, <1>2 DEF Search, ReaderState, ReaderPc
<1>4. \A k \in Keys, m \in BOOLEAN : GoodReader(Search(k, m))
  BY <1>3 DEF GoodReader
<1>5. Good(Search(None, FALSE))
  BY <1>3
<1>6. Good(IdleReader) /\ IdleReader.pc = "idle"
  BY <1>5 DEF IdleReader, ReaderState, ReaderPc
<1>7. QED
  BY <1>4, <1>6 DEF GoodReader

\* The loops over the levels.
LEMMA AdvanceFacts ==
  ASSUME NEW c, GoodReader(c), c.pc # "idle", NEW next \in {"scan", "validate"}
  PROVE  GoodReader(Advance(c, next))
<1>1. /\ TopLen + 1 \in Level /\ KeyLen \in Level
      /\ \A l \in Level : l > TopLen + 1 => l - 1 \in Level
  BY ConstantFacts DEF Level
<1>2. c \in ReaderState /\ c.lvl \in Level /\ c.key \in Keys
  BY DEF GoodReader, ReaderState
<1>3. GoodReader([c EXCEPT !.side = 2])
  BY <1>2 DEF GoodReader, ReaderState
<1>4. c.lvl > TopLen + 1 => GoodReader([c EXCEPT !.side = 1, !.lvl = c.lvl - 1])
  BY <1>1, <1>2 DEF GoodReader, ReaderState
<1>5. ASSUME NEW l \in Level
      PROVE  GoodReader([c EXCEPT !.side = 1, !.pc = next, !.lvl = l])
  BY <1>2 DEF GoodReader, ReaderState, ReaderPc
<1>6. QED
  BY <1>1, <1>3, <1>4, <1>5 DEF Advance

\* A reader looks at slots.
LEMMA PosOfFacts ==
  ASSUME NEW c, GoodReader(c), c.pc # "idle"
  PROVE  PosOf(c.side, c.key, c.lvl) \in Slot /\ PosOf(2, c.key, c.lvl) \in Slot
<1>1. c.key \in Keys /\ c.lvl \in Level /\ c.side \in {1, 2}
  BY DEF GoodReader, ReaderState
<1>2. QED
  BY <1>1, HashFacts DEF PosOf

\* A key that agrees with one that a slot can hold in every byte is that key.
LEMMA WholeKey ==
  ASSUME IInv, NEW k \in Keys, NEW s \in Slot, LCP(mkey[s], k) = KeyLen
  PROVE  k \in started \cup {ZeroKey}
<1>1. mkey[s] \in started \cup {ZeroKey} /\ mkey[s] \in Key /\ k \in Key
  BY ConstantFacts DEF IInv, Types, Nodes
<1> DEFINE m == mkey[s]
<1>2. \A i \in 1..KeyLen : m[i] = k[i]
  BY LCPFacts DEF SamePrefix
<1>3. m \in [1..KeyLen -> Digit] /\ k \in [1..KeyLen -> Digit]
  BY <1>1 DEF Key
<1> HIDE DEF m
<1> DEFINE D == 1..KeyLen
<1>d. m \in [D -> Digit] /\ k \in [D -> Digit] /\ \A i \in D : m[i] = k[i]
  BY <1>2, <1>3
<1> HIDE DEF D
<1>4. m = k
  BY <1>d
<1>5. QED
  BY <1>1, <1>4 DEF m

\* A reader that goes on to validate has a good record.
LEMMA ValidateFacts ==
  ASSUME IInv, NEW c, GoodReader(c), c.pc # "idle", NEW s \in Slot
  PROVE  GoodReader(Validate(c, LCP(mkey[s], c.key)))
<1>1. c \in ReaderState /\ c.key \in Keys /\ TopLen + 1 \in Level
  BY ConstantFacts DEF GoodReader, Level
<1>2. LCP(mkey[s], c.key) \in 0..KeyLen
  BY LCPFacts
<1>3. LCP(mkey[s], c.key) = KeyLen => c.key \in started \cup {ZeroKey}
  BY <1>1, WholeKey
<1> DEFINE n == LCP(mkey[s], c.key)
<1> HIDE DEF n
<1>4. n \in 0..KeyLen /\ (n = KeyLen => c.key \in started \cup {ZeroKey})
  BY <1>2, <1>3 DEF n
<1>5. GoodReader(Validate(c, n))
  BY <1>1, <1>4 DEF Validate, GoodReader, ReaderState, ReaderPc
<1>6. QED
  BY <1>5 DEF n

\* One lemma for each step of a reader.
LEMMA InvokeKept ==
  ASSUME IInv, NEW r \in Readers, NEW k \in Keys, Invoke(r, k)
  PROVE  IInv'
<1> DEFINE m == k \in known
<1>1. m \in BOOLEAN /\ Become(r, Search(k, m))
  BY DEF Invoke
<1> HIDE DEF m
<1>2. GoodReader(Search(k, m))
  BY <1>1, SearchFacts
<1>3. QED
  BY <1>1, <1>2, BecomeKept

LEMMA ReadVersionKept ==
  ASSUME IInv, NEW r \in Readers, ReadVersion(r)
  PROVE  IInv'
<1> DEFINE c == rd[r]
           v == ver[PosOf(c.side, c.key, c.lvl)]
           d == [c EXCEPT !.set[c.side][c.lvl] = v]
<1>1. GoodReader(c) /\ c.pc = "version"
  BY ReaderFacts DEF ReadVersion, At
<1>2. v \in Version
  BY <1>1, PosOfFacts DEF IInv, Types
<1>3. Become(r, Search(c.key, c.must)) \/ Become(r, Advance(d, "scan"))
  BY DEF ReadVersion
<1> HIDE DEF c, v
<1>4. c.key \in Keys /\ c.must \in BOOLEAN
  BY <1>1 DEF GoodReader, ReaderState
<1>5. GoodReader(Search(c.key, c.must))
  BY <1>4, SearchFacts
<1>6. GoodReader(d) /\ d.pc # "idle"
  BY <1>1, <1>2 DEF GoodReader, ReaderState
<1>7. GoodReader(Advance(d, "scan"))
  BY <1>6, AdvanceFacts
<1>8. QED
  BY <1>3, <1>5, <1>7, BecomeKept

LEMMA ScanKept ==
  ASSUME IInv, NEW r \in Readers, Scan(r)
  PROVE  IInv'
<1> DEFINE c == rd[r]
           s == PosOf(c.side, c.key, c.lvl)
<1>1. GoodReader(c) /\ c.pc = "scan"
  BY ReaderFacts DEF Scan, At
<1>2. s \in Slot
  BY <1>1, PosOfFacts
<1>3. \/ Become(r, [c EXCEPT !.pc = "key", !.flen = c.lvl, !.fpos = s])
      \/ Become(r, Advance(c, "validate"))
  BY DEF Scan
<1> HIDE DEF c, s
<1>4. GoodReader([c EXCEPT !.pc = "key", !.flen = c.lvl, !.fpos = s])
  <2>1. \A l \in Level : l \in 0..KeyLen
    BY ConstantFacts
  <2>2. QED
    BY <1>1, <1>2, <2>1 DEF GoodReader, ReaderState, ReaderPc
<1>5. GoodReader(Advance(c, "validate"))
  BY <1>1, AdvanceFacts
<1>6. QED
  BY <1>3, <1>4, <1>5, BecomeKept

LEMMA ReadKeyKept ==
  ASSUME IInv, NEW r \in Readers, ReadKey(r)
  PROVE  IInv'
<1> DEFINE c == rd[r]
           d == [c EXCEPT !.pc = "slow", !.side = 1, !.lvl = KeyLen]
<1>1. GoodReader(c) /\ c.pc = "key" /\ c.fpos \in Slot
  BY ReaderFacts DEF ReadKey, At, GoodReader, ReaderState
<1>2. Become(r, Validate(c, LCP(mkey[c.fpos], c.key))) \/ Become(r, d)
  BY DEF ReadKey
<1> HIDE DEF c
<1>3. GoodReader(Validate(c, LCP(mkey[c.fpos], c.key)))
  BY <1>1, ValidateFacts
<1>4. GoodReader(d)
  <2>1. KeyLen \in Level
    BY ConstantFacts DEF Level
  <2>2. QED
    BY <1>1, <2>1 DEF GoodReader, ReaderState, ReaderPc
<1>5. QED
  BY <1>2, <1>3, <1>4, BecomeKept

\* So does a reader on the slow path.
LEMMA SlowPosFacts ==
  ASSUME NEW c, GoodReader(c), c.pc # "idle"
  PROVE  SlowPos(c) \in Slot
<1>1. /\ c.key \in Keys /\ c.lvl \in Level /\ c.side \in {1, 2} /\ c.fpos \in Slot
      /\ c.lvl \in Int /\ c.flen \in Int
  BY ConstantFacts DEF GoodReader, ReaderState
<1>2. Pos1(c.key, c.lvl) \in Slot /\ Pos2(c.key, c.lvl) \in Slot /\ 0 \in Slot
  BY <1>1, HashFacts, ConstantFacts
<1>3. c.lvl > c.flen \/ c.lvl = c.flen \/ c.lvl < c.flen
  BY <1>1
<1>4. QED
  BY <1>1, <1>2, <1>3 DEF SlowPos

LEMMA SlowHashKept ==
  ASSUME IInv, NEW r \in Readers, SlowHash(r)
  PROVE  IInv'
<1> DEFINE c == rd[r]
<1>1. GoodReader(c) /\ c.pc = "slow"
  BY ReaderFacts DEF SlowHash, At
<1>2. Become(r, [c EXCEPT !.pc = "slowKey"]) \/ Become(r, Advance(c, "validate"))
  BY DEF SlowHash
<1> HIDE DEF c
<1>3. GoodReader([c EXCEPT !.pc = "slowKey"])
  BY <1>1 DEF GoodReader, ReaderState, ReaderPc
<1>4. GoodReader(Advance(c, "validate"))
  BY <1>1, AdvanceFacts
<1>5. QED
  BY <1>2, <1>3, <1>4, BecomeKept

LEMMA SlowKeyKept ==
  ASSUME IInv, NEW r \in Readers, SlowKey(r)
  PROVE  IInv'
<1> DEFINE c == rd[r]
           d == [c EXCEPT !.pc = "slow"]
<1>1. GoodReader(c) /\ c.pc = "slowKey"
  BY ReaderFacts DEF SlowKey, At
<1>2. SlowPos(c) \in Slot
  BY <1>1, SlowPosFacts
<1>3. \/ Become(r, [c EXCEPT !.pc = "slowEnd", !.flen = c.lvl, !.fpos = SlowPos(c)])
      \/ Become(r, Advance(d, "validate"))
  BY DEF SlowKey
<1> HIDE DEF c
<1>4. GoodReader([c EXCEPT !.pc = "slowEnd", !.flen = c.lvl, !.fpos = SlowPos(c)])
  <2>1. \A l \in Level : l \in 0..KeyLen
    BY ConstantFacts
  <2>2. QED
    BY <1>1, <1>2, <2>1 DEF GoodReader, ReaderState, ReaderPc
<1>5. GoodReader(d) /\ d.pc # "idle"
  BY <1>1 DEF GoodReader, ReaderState, ReaderPc
<1>6. GoodReader(Advance(d, "validate"))
  BY <1>5, AdvanceFacts
<1>7. QED
  BY <1>3, <1>4, <1>6, BecomeKept

LEMMA SlowEndKept ==
  ASSUME IInv, NEW r \in Readers, SlowEnd(r)
  PROVE  IInv'
<1> DEFINE c == rd[r]
<1>1. GoodReader(c) /\ c.pc = "slowEnd" /\ c.fpos \in Slot
  BY ReaderFacts DEF SlowEnd, At, GoodReader, ReaderState
<1>2. Become(r, Validate(c, LCP(mkey[c.fpos], c.key)))
  BY DEF SlowEnd
<1> HIDE DEF c
<1>3. GoodReader(Validate(c, LCP(mkey[c.fpos], c.key)))
  BY <1>1, ValidateFacts
<1>4. QED
  BY <1>2, <1>3, BecomeKept

LEMMA ValidateVersionKept ==
  ASSUME IInv, NEW r \in Readers, ValidateVersion(r)
  PROVE  IInv'
<1> DEFINE c == rd[r]
           up == [c EXCEPT !.side = 1, !.lvl = c.lvl + 1]
<1>1. GoodReader(c) /\ c.pc = "validate"
  BY ReaderFacts DEF ValidateVersion, At
<1>2. \/ Become(r, [c EXCEPT !.side = 2])
      \/ (c.lvl + 1 \in ValidatedLevel /\ Become(r, up))
      \/ Become(r, [c EXCEPT !.pc = "return"])
      \/ Become(r, Search(c.key, c.must))
  BY DEF ValidateVersion
<1> HIDE DEF c
<1>3. c.key \in Keys /\ c.must \in BOOLEAN
  BY <1>1 DEF GoodReader, ReaderState
<1>4. GoodReader(Search(c.key, c.must))
  BY <1>3, SearchFacts
<1>5. c.lvl + 1 \in ValidatedLevel => GoodReader(up)
  <2>1. ValidatedLevel \subseteq Level
    BY ConstantFacts DEF ValidatedLevel, Level
  <2>2. QED
    BY <1>1, <2>1 DEF GoodReader, ReaderState
<1>6. GoodReader([c EXCEPT !.side = 2]) /\ GoodReader([c EXCEPT !.pc = "return"])
  BY <1>1 DEF GoodReader, ReaderState, ReaderPc
<1>7. QED
  BY <1>2, <1>4, <1>5, <1>6, BecomeKept

LEMMA ReturnKept ==
  ASSUME IInv, NEW r \in Readers, Return(r)
  PROVE  IInv'
<1>1. rd[r].key \in Keys
  BY ReaderFacts DEF Return, At, GoodReader
<1>2. known' \subseteq Keys
  BY <1>1 DEF IInv, Types, Return
<1>3. QED
  BY <1>2, SearchFacts, ReaderKept DEF Return

-----------------------------------------------------------------------------
(* The invariant holds, and what follows from it. *)

\* The empty index has the invariant.
LEMMA InitIInv == Init => IInv
<1> SUFFICES ASSUME Init
             PROVE  IInv
  OBVIOUS
<1>1. Stack
  BY EmptySeq DEF Init, Stack
<1>2. 0 \in Version /\ 0 \in 0..KeyLen /\ ~Odd(0)
  BY ConstantFacts, BoundAssumption DEF Version, Odd
<1>3. Types
  BY <1>1, <1>2, HdrFacts DEF Init, Types
<1>4. Locals
  BY <1>2 DEF Init, Locals
<1>5. Nodes
  BY HdrFacts DEF Init, Nodes, Sound
<1>6. Parity
  BY <1>2 DEF Init, Parity, OddOnlyIn, Holding
<1>7. Searches
  <2>1. GoodReader(IdleReader)
    BY SearchFacts
  <2>2. QED
    BY <2>1 DEF Init, Searches, GoodReader
<1>8. QED
  BY <1>3, <1>4, <1>5, <1>6, <1>7 DEF IInv

\* A stuttering step keeps the invariant.
LEMMA StutterKept ==
  ASSUME IInv, UNCHANGED vars
  PROVE  IInv'
<1>1. started' = started /\ started \subseteq Keys /\ known' \subseteq Keys /\ rd' = rd
  BY DEF IInv, Types, vars
<1>2. Searches'
  BY <1>1, SearchesKept DEF IInv
<1>3. Types' /\ Locals' /\ Nodes' /\ Parity'
  BY <1>1, WriterKept DEF vars
<1>4. QED
  BY <1>2, <1>3 DEF IInv

\* Each step of the writer keeps it.
LEMMA WriterStep ==
  ASSUME IInv, Writer
  PROVE  IInv'
BY SetTopKept, LockPath1Kept, LockPath2Kept, ReserveKept,
   ReserveDisplacingKept, DescendKept, GiveUpKept, FoundHoleKept,
   LockHoleKept, LockVictimKept, MoveHashKept, MoveRestKept, MoveClearKept,
   UnlockVictimKept, UnlockHoleKept, LockXKept, SplitHashKept, SplitRestKept,
   SplitClearKept, AlterIndexKeyLenKept, AlterHash18bitKept, InitVersionKept,
   InitRestKept, InitHashKept, AddSecondKept, ExtendKept, ExtendKeyKept,
   ParentsKept, UnlockPath1Kept, UnlockPath2Kept, UnlockXKept,
   UnlockLeafKept, FinishTopKept, UnlockTopKept, CrashKept
   DEF Writer

\* The inductive invariant: what the writer holds at each of its steps, whose
\* keys the slots have, which versions are odd, and what a reader can answer.
THEOREM InvariantHolds == Spec => []IInv
<1>1. IInv /\ [Next]_vars => IInv'
  <2> SUFFICES ASSUME IInv, [Next]_vars
               PROVE  IInv'
    OBVIOUS
  <2>1. ASSUME NEW k \in Keys, Insert(k)
        PROVE  IInv'
    BY <2>1, TopMissKept, AlreadyThereKept, FindPathKept DEF Insert
  <2>2. CASE Writer
    BY <2>2, WriterStep
  <2>3. ASSUME NEW r \in Readers, NEW k \in Keys, Invoke(r, k)
        PROVE  IInv'
    BY <2>3, InvokeKept
  <2>4. ASSUME NEW r \in Readers, Exist(r)
        PROVE  IInv'
    BY <2>4, ReadVersionKept, ScanKept, ReadKeyKept, SlowHashKept, SlowKeyKept,
       SlowEndKept, ValidateVersionKept, ReturnKept DEF Exist
  <2>5. CASE UNCHANGED vars
    BY <2>5, StutterKept
  <2>6. QED
    BY <2>1, <2>2, <2>3, <2>4, <2>5 DEF Next
<1>2. QED
  BY <1>1, InitIInv, PTL DEF Spec

\* Every variable of the index, of the thread that inserts and of the threads
\* that search has its type: no position leaves the table, whatever
\* displacements and splits do.
THEOREM TypeCorrect == Spec => []TypeOK
<1>1. IInv => TypeOK
  <2> SUFFICES ASSUME IInv
               PROVE  TypeOK
    OBVIOUS
  <2>1. mkey \in [Slot -> Key \cup {ZeroKey}] /\ okey \in Key \cup {None}
    BY ConstantFacts DEF IInv, Types, Locals, Nodes
  <2>2. hdr \in [Slot -> Hdr] /\ ver \in [Slot -> Version]
    BY DEF IInv, Types
  <2>3. ASSUME NEW r \in Readers
        PROVE  /\ rd[r].key \in Keys \cup {None}
               /\ rd[r].lvl \in Level /\ rd[r].side \in {1, 2}
               /\ rd[r].set \in [{1, 2} -> [Level -> 0..(VerMod - 1)]]
               /\ rd[r].flen \in 0..KeyLen /\ rd[r].fpos \in Slot
               /\ rd[r].res \in 0..KeyLen /\ rd[r].must \in BOOLEAN
    BY DEF IInv, Searches, ReaderState, Version
  <2>4. chain \in Seq(Slot)
    BY DEF IInv, Types, Stack
  <2>5. hdr \in [Slot -> [occ : BOOLEAN, ilen : 0..KeyLen, dlen : 0..KeyLen, fp : Nat]]
        /\ ver \in [Slot -> 0..(VerMod - 1)] /\ topVer \in 0..(VerMod - 1)
    BY <2>2 DEF IInv, Types, Hdr, Version
  <2>6. QED
    BY <2>1, <2>3, <2>4, <2>5 DEF IInv, Types, TypeOK
<1>2. QED
  BY <1>1, InvariantHolds, PTL

\* When no Insert is running every version is even: UNLOCK_PATH_FROM_LCP lowers
\* whatever the call has raised, if two of its positions are one slot, if a
\* displacement has moved a node of the path, and if a version has wrapped.
THEOREM QuiescentEvenHolds == Spec => []QuiescentEven
<1>1. IInv => QuiescentEven
  <2> SUFFICES ASSUME IInv, wpc = "idle"
               PROVE  (\A s \in Slot : ver[s] % 2 = 0) /\ topVer % 2 = 0
    BY DEF QuiescentEven
  <2>1. \A v \in Version : ~Odd(v) => v % 2 = 0
    BY VersionFacts DEF Odd
  <2>2. (\A s \in Slot : ver[s] \in Version) /\ topVer \in Version
    BY DEF IInv, Types
  <2>3. (\A s \in Slot : ~Odd(ver[s])) /\ ~Odd(topVer)
    BY DEF IInv, Parity, OddOnlyIn
  <2>4. QED
    BY <2>1, <2>2, <2>3
<1>2. QED
  BY <1>1, InvariantHolds, PTL

\* Exist finds no key whose Insert has not begun, although it takes no lock and
\* may see a node that is half moved: a slot never has the minKey of any other
\* key but the zero of a slot that is clear, so the key 0 is left out here.
THEOREM NoPhantomHolds ==
  ASSUME ZeroKey \notin Keys
  PROVE  Spec => []NoPhantom
<1>1. IInv => NoPhantom
  BY DEF IInv, Searches, NoPhantom, Finds
<1>2. QED
  BY <1>1, InvariantHolds, PTL

=============================================================================
