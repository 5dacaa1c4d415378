----------------------------- MODULE MlpRanged ------------------------------
(***************************************************************************)
(* The range version of the index on its slots: InsertRange puts perfect   *)
(* ranges into the table one by one, under the global lock, beside readers *)
(* that take no lock.  A perfect range below the flat levels is made by    *)
(* the insertion of its two bounds, the deletion of their leaves and the   *)
(* setting of the children between them.  When it is the "root" of its     *)
(* InsertRange, the two insertions leave the versions of their path odd    *)
(* and note the slots in a write set, which is released at the very end.   *)
(*                                                                         *)
(* Insert and QueryLCP are those of MlpVersioned but for what this module  *)
(* says.  Exist also tells keys of ranges and of the flat bitmaps.         *)
(***************************************************************************)
EXTENDS MlpVersioned

CONSTANTS
  Singles,  \* keys inserted one by one
  Ranges    \* ranges inserted: the bounds, and what handle_range returns for
            \* them, perfect ranges with their split bytes and the root flag

PartOf(R, i) == R.parts[i]
Split(p) == LCP(p.lo, p.hi)  \* InsertPerfectRange computes sb anew
Within(k, lo, hi) == ~LessThan(k, lo) /\ ~LessThan(hi, k)
KeysOf(R) == {k \in Keys : Within(k, R.low, R.high)}

ASSUME RangesAssumption ==
  /\ Singles \subseteq Keys
  /\ \A R \in Ranges :
       /\ \A i \in DOMAIN R.parts :
            LET p == PartOf(R, i)
            IN  /\ Within(p.lo, R.low, p.hi) /\ Within(p.hi, p.lo, R.high)
                /\ Split(p) < KeyLen
                /\ Split(p) > TopLen => {p.lo, p.hi} \subseteq Keys
       /\ \A k \in KeysOf(R) :
            Cardinality({i \in DOMAIN R.parts :
                           Within(k, PartOf(R, i).lo, PartOf(R, i).hi)}) = 1

VARIABLES
  ins,   \* the InsertRange under way, or None: its range, the number of the
         \* perfect range it is at, the bounds of that inserted so far, and
         \* parent_pos, low_pos and high_pos
  wset,  \* its write set: a slot for each insertion, level and side
  more   \* of each reader: the version of the flat bitmaps that it has noted, and
         \* len, allPositions1[len] and dlen of the node that matched first

rangeVars == <<ins, wset, more>>
allVars == <<vars, rangeVars>>

NoMore == [top |-> 0, lvl |-> 0, slot |-> 0, dlen |-> 0]
InitR == Init /\ ins = None /\ wset = <<>> /\ more = [r \in Readers |-> NoMore]

Part == PartOf(ins.range, ins.part)

\* Which perfect ranges get the write set: the first, and the first that follows
\* the flat levels, if the root flag is set.
Down(R, i) == PartOf(R, i - 1).sb <= TopLen /\ PartOf(R, i).sb >= TopLen
Protected(R, i) ==
  R.root /\ i \in {1} \cup {m \in 2..i : Down(R, m) /\ \A n \in 2..(m - 1) : ~Down(R, n)}
Holds == ins # None /\ Protected(ins.range, ins.part)

\* A variant of CondLockedVersion that makes the version even.
CondEvenVersion(v) == (v + (v % 2)) % VerMod
CondLockedVersion(v) == (v + 1 - (v % 2)) % VerMod

-----------------------------------------------------------------------------
(* Insert. *)

\* The flat bitmaps are locked only if there is a write set.
BeginInsert(k) ==
  \/ /\ Prefix(k, TopLen) \notin bits
     /\ topVer' = IF Holds THEN IncVersion(topVer) ELSE topVer
     /\ Begin(k, NotFound, "setTop")
     /\ UNCHANGED bits
  \/ /\ Prefix(k, TopLen) \in bits
     /\ NaiveQueryLCP(k).lcp < KeyLen
     /\ Begin(k, NaiveQueryLCP(k),
              IF NaiveQueryLCP(k).ilen = 0 THEN "reserve" ELSE "lock1")
     /\ UNCHANGED top

\* InsertRange of a single key.
InsertKey(k) ==
  /\ wpc = "idle"
  /\ ~\E R \in Ranges : k \in KeysOf(R) /\ KeysOf(R) \subseteq started
  /\ BeginInsert(k) \/ AlreadyThere(k)
  /\ UNCHANGED rangeVars

AddToWriteSet(side, s) ==
  LET place == <<ins.bounds, j, side>>
  IN  wset' = [q \in DOMAIN wset \cup {place} |-> IF q = place THEN s ELSE wset[q]]

LockPath ==
  /\ IF Holds
     THEN \/ RaisePath1(CondLockedVersion(ver[PathPos1(j)])) /\ AddToWriteSet(1, PathPos1(j))
          \/ RaisePath2(CondLockedVersion(ver[PathPos2(j)])) /\ AddToWriteSet(2, PathPos2(j))
     ELSE (LockPath1 \/ LockPath2) /\ UNCHANGED wset
  /\ UNCHANGED <<ins, more>>

\* The slot of a split is raised only if there is no write set.
LockSplit ==
  /\ IF Holds THEN NodeStep("lockX", "splitHash") /\ UNCHANGED <<table, ver>>
     ELSE LockX
  /\ UNCHANGED rangeVars

\* parent_pos is the node that got the second bound's child.
NodeDone ==
  /\ AddSecond \/ ExtendKey
  /\ ins' = IF ins = None THEN None ELSE IF ins.bounds = 1 THEN ins
            ELSE [ins EXCEPT !.parent = IF IsEqualNoHash(pos, wkey, nlen) THEN pos
                                        ELSE PathPos2(nlen)]
  /\ UNCHANGED <<wset, more>>

\* Everything else that is as in MlpVersioned.
InsertStep ==
  /\ \/ SetTop \/ Reserve \/ ReserveDisplacing \/ Descend \/ GiveUp \/ FoundHole
     \/ LockHole \/ LockVictim \/ MoveHash \/ MoveRest \/ MoveClear
     \/ UnlockVictim \/ UnlockHole \/ SplitHash \/ SplitRest \/ SplitClear
     \/ AlterIndexKeyLen \/ AlterHash18bit \/ InitVersion \/ InitRest \/ InitHash
     \/ Extend \/ Parents \/ FinishTop \/ Crash
     \/ (~Holds /\ (UnlockPath1 \/ UnlockPath2 \/ UnlockX))
  /\ UNCHANGED rangeVars

\* Insert returns, to InsertPerfectRange if a range is under way.
Return1 ==
  /\ IF ins = None THEN Finish /\ UNCHANGED ins
     ELSE /\ EndInsert(IF ins.bounds = 1 THEN "part" ELSE "deleteLow")
          /\ ins' = [ins EXCEPT !.high = leaf]
          /\ UNCHANGED known
  /\ UNCHANGED <<wset, more>>

InsertReturns ==
  /\ \/ ~Holds /\ (LowerTop \/ LowerLeaf)
     \/ Holds /\ wpc \in {"unlockTop", "unlock1"} /\ UNCHANGED <<ver, top>>
  /\ Return1

-----------------------------------------------------------------------------
(* InsertRange and InsertPerfectRange. *)

\* The lock is taken.  No key of the range is there, as InsertRange assumes.
BeginRange(R) ==
  /\ wpc = "idle"
  /\ KeysOf(R) \cap started = {}
  /\ started' = started \cup KeysOf(R)
  /\ ins' = [range |-> R, part |-> 1, bounds |-> 0, parent |-> None, low |-> None,
             high |-> None]
  /\ wset' = <<>>
  /\ wpc' = "part"
  /\ UNCHANGED <<table, ver, top, call, j, split, leaf, displacement, rd, known, more>>

RangeStep(from, to) ==
  /\ wpc = from
  /\ wpc' = to
  /\ UNCHANGED <<call, j, split, leaf, displacement, rd, history, more>>

\* The next perfect range, or the release of the write set.
NextPart(from) ==
  /\ RangeStep(from, IF ins.part < Len(ins.range.parts) THEN "part" ELSE "release")
  /\ ins' = IF ins.part < Len(ins.range.parts)
            THEN [ins EXCEPT !.part = @ + 1, !.bounds = 0] ELSE ins

LockFlat ==
  /\ RangeStep("part", "flat")
  /\ Split(Part) <= TopLen
  /\ topVer' = CondLockedVersion(topVer)
  /\ UNCHANGED <<table, ver, bits, ins, wset>>

\* The bits of level n, which are named by the digits from the split on.
FlatBits(p, n) ==
  LET s == Split(p)
  IN  {q \in [1..n -> Digit] :
         IF n <= s THEN q = [i \in 1..n |-> IF i = n THEN p.lo[n] ELSE 0]
         ELSE (\A i \in 1..s : q[i] = 0) /\ q[s + 1] \in p.lo[s + 1]..p.hi[s + 1]}

SetFlat ==
  /\ NextPart("flat")
  /\ bits' = bits \cup UNION {FlatBits(Part, n) : n \in 1..(TopLen + 1)}
  /\ UNCHANGED <<table, ver, topVer, wset>>

\* Insert(low), then Insert(high).
InsertBound ==
  /\ wpc = "part"
  /\ Split(Part) > TopLen
  /\ ins' = [ins EXCEPT !.bounds = @ + 1]
  /\ BeginInsert(IF ins.bounds = 0 THEN Part.lo ELSE Part.hi)
  /\ UNCHANGED <<wset, more>>

\* Lookup of low's leaf on the level of high's; then its hash word is cleared,
\* and its version.  The rest of the slot stays.  Without them slot -1 is hit.
LowLeaf ==
  {s \in {Pos1(Part.lo, hdr[ins.high].ilen), Pos2(Part.lo, hdr[ins.high].ilen)} :
     IsEqual(s, Part.lo, hdr[ins.high].ilen)}
DeleteLow ==
  /\ wpc = "deleteLow"
  /\ IF ins.high # None /\ LowLeaf # {}
     THEN /\ RangeStep("deleteLow", "resetLow")
          /\ \E s \in LowLeaf : /\ ins' = [ins EXCEPT !.low = s]
                               /\ hdr' = [hdr EXCEPT ![s] = NoHdr]
     ELSE RangeStep("deleteLow", "crashed") /\ UNCHANGED <<ins, hdr>>
  /\ UNCHANGED <<mkey, kids, ver, top, wset>>

ResetLow ==
  /\ RangeStep("resetLow", "deleteHigh")
  /\ SetVersion(ins.low, 0)
  /\ UNCHANGED <<table, top, ins, wset>>

DeleteHigh ==
  /\ RangeStep("deleteHigh", "resetHigh")
  /\ hdr' = [hdr EXCEPT ![ins.high] = NoHdr]
  /\ UNCHANGED <<mkey, kids, ver, top, ins, wset>>

ResetHigh ==
  /\ RangeStep("resetHigh", "addRun")
  /\ SetVersion(ins.high, 0)
  /\ UNCHANGED <<table, top, ins, wset>>

\* The children between the bounds.  A reader looks at one of them.
Run(p) == p.lo[Split(p) + 1]..p.hi[Split(p) + 1]
\* A variant of AddRun that takes the bytes before those where the bounds part.
AddRunBefore ==
  /\ NextPart("addRun")
  /\ kids' = [kids EXCEPT ![ins.parent] =
                @ \cup (Part.lo[Split(Part)]..Part.hi[Split(Part)])]
  /\ UNCHANGED <<hdr, mkey, ver, top, wset>>

AddRun ==
  /\ NextPart("addRun")
  /\ kids' = [kids EXCEPT ![ins.parent] = @ \cup Run(Part)]
  /\ UNCHANGED <<hdr, mkey, ver, top, wset>>

\* Level by level, the slots of the first insertion before those of the second.
Sooner(p, q) == \/ p[2] < q[2]
                \/ p[2] = q[2] /\ p[1] < q[1]
                \/ p[2] = q[2] /\ p[1] = q[1] /\ p[3] < q[3]

Release ==
  /\ wpc = "release"
  /\ \E p \in DOMAIN wset :
       /\ \A q \in DOMAIN wset \ {p} : Sooner(p, q)
       /\ SetVersion(wset[p], CondIncVersion(ver[wset[p]]))
       /\ wset' = [q \in DOMAIN wset \ {p} |-> wset[q]]
  /\ UNCHANGED <<table, top, wpc, call, j, split, leaf, displacement, rd, history,
                 ins, more>>

\* A variant of EndRange that forgets the flat bitmaps.
EndRangeLocked ==
  /\ wpc = "release" /\ DOMAIN wset = {}
  /\ wpc' = "idle"
  /\ ins' = None
  /\ known' = known \cup KeysOf(ins.range)
  /\ UNCHANGED <<table, ver, top, call, j, split, leaf, displacement, rd, started,
                 wset, more>>

\* The flat bitmaps are unlocked, and the global lock is released.
EndRange ==
  /\ wpc = "release" /\ DOMAIN wset = {}
  /\ topVer' = CondIncVersion(topVer)
  /\ wpc' = "idle"
  /\ ins' = None
  /\ known' = known \cup KeysOf(ins.range)
  /\ UNCHANGED <<table, ver, bits, call, j, split, leaf, displacement, rd, started,
                 wset, more>>

WriterR ==
  \/ LockPath \/ LockSplit \/ NodeDone \/ InsertStep \/ InsertReturns
  \/ LockFlat \/ SetFlat \/ InsertBound
  \/ DeleteLow \/ ResetLow \/ DeleteHigh \/ ResetHigh \/ AddRun
  \/ Release \/ EndRange

-----------------------------------------------------------------------------
(* Exist. *)

BecomeR(r, c, m) == Become(r, c) /\ more' = [more EXCEPT ![r] = m]
                    /\ UNCHANGED <<ins, wset>>
KeepMore == UNCHANGED rangeVars

InvokeR(r, k) ==
  /\ At(r, "idle")
  /\ BecomeR(r, [Search(k, k \in known) EXCEPT !.pc = "tops"], NoMore)

\* Note the versions of the flat bitmaps, again and again until all are even.
ReadTops(r) ==
  /\ At(r, "tops")
  /\ topVer % 2 = 0
  /\ BecomeR(r, Search(rd[r].key, rd[r].must), [NoMore EXCEPT !.top = topVer])

ReadVersionR(r) ==
  /\ ReadVersion(r)
  /\ more' = [more EXCEPT ![r] = [NoMore EXCEPT !.top = more[r].top]]
  /\ UNCHANGED <<ins, wset>>

\* The full key length is read with the hash word that matches.
ScanR(r) ==
  LET s == PosOf(rd[r].side, rd[r].key, rd[r].lvl)
  IN  /\ Scan(r)
      /\ more' = IF Matches(s, rd[r].key, rd[r].lvl)
                 THEN [more EXCEPT ![r] = [top |-> more[r].top, lvl |-> rd[r].lvl,
                                           slot |-> s, dlen |-> hdr[s].dlen]]
                 ELSE more
      /\ UNCHANGED <<ins, wset>>

\* BitMapIsExist.  The children of a leaf are -1 and those of a cleared slot 0,
\* which stand for the last byte and the first.
HasChild(s, d) ==
  IF kids[s] # {} THEN d \in kids[s]
  ELSE IF mkey[s] = ZeroKey THEN d = 0 ELSE \A e \in Digit : e <= d

\* RETURN_IF_KEY_EXISTS_IN_RANGE, for the node that matched first.
MayBeInRange(c, m) == c.res < KeyLen /\ c.res >= m.dlen
\* A variant of InRange that takes the byte before.
InRangeBefore(c, m, s) == HasChild(s, c.key[m.dlen])
InRange(c, m, s) == HasChild(s, c.key[m.dlen + 1])

\* A 9 is returned for a key in a range; one in the flat bitmaps is set apart here.
Nine == KeyLen + 1
InFlat == KeyLen + 2

\* On the slow path the range is looked at before the validation,
SlowEndR(r) ==
  /\ At(r, "slowEnd")
  /\ BecomeR(r, [rd[r] EXCEPT !.pc = "slowRange", !.res = LCP(mkey[rd[r].fpos], rd[r].key)],
             more[r])

SlowRange(r) ==
  LET c == rd[r]
      m == more[r]
      s == IF c.flen = m.lvl THEN c.fpos ELSE m.slot
  IN  /\ At(r, "slowRange")
      /\ BecomeR(r, Validate(c, IF MayBeInRange(c, m) /\ InRange(c, m, s) THEN Nine
                               ELSE c.res),
                 [m EXCEPT !.dlen = KeyLen])

\* on the fast path after it.  If the key is in the range, the versions are
\* compared once more; if not, that is the answer.
FastRange(r) ==
  LET c == rd[r]
  IN  /\ At(r, "return")
      /\ c.res > TopLen /\ MayBeInRange(c, more[r])
      /\ BecomeR(r, IF InRange(c, more[r], more[r].slot) THEN Validate(c, Nine)
                    ELSE [c EXCEPT !.pc = "answer"], more[r])

\* No node: the flat bitmaps tell, if they have not changed.
FlatCovers(r) ==
  LET k == rd[r].key
  IN  /\ At(r, "return")
      /\ rd[r].res = TopLen
      /\ BecomeR(r, [rd[r] EXCEPT !.pc = "checkTops",
                     !.res = IF \A n \in 1..(TopLen + 1) : Prefix(k, n) \in bits
                             THEN InFlat ELSE TopLen], more[r])

CheckTops(r) ==
  /\ At(r, "checkTops")
  /\ BecomeR(r, [rd[r] EXCEPT !.pc = IF topVer = more[r].top THEN "answer" ELSE "tops"],
             more[r])

\* What QueryLCP returned needs nothing more.
Answers(r) ==
  \/ At(r, "answer")
  \/ At(r, "return") /\ rd[r].res # TopLen
                     /\ ~(rd[r].res > TopLen /\ MayBeInRange(rd[r], more[r]))
FindsR(r) == rd[r].res >= KeyLen
FindsInTable(r) == rd[r].res \in {KeyLen, Nine}

ReturnR(r) ==
  /\ Answers(r)
  /\ rd' = [rd EXCEPT ![r] = IdleReader]
  /\ more' = [more EXCEPT ![r] = NoMore]
  /\ known' = IF FindsInTable(r) THEN known \cup {rd[r].key} ELSE known
  /\ UNCHANGED <<table, ver, top, wpc, call, j, split, leaf, displacement, started,
                 ins, wset>>

ExistR(r) ==
  \/ ReadTops(r) \/ ReadVersionR(r) \/ ScanR(r)
  \/ (ReadKey(r) \/ SlowHash(r) \/ SlowKey(r) \/ ValidateVersion(r)) /\ KeepMore
  \/ SlowEndR(r) \/ SlowRange(r) \/ FastRange(r) \/ FlatCovers(r) \/ CheckTops(r)
  \/ ReturnR(r)

NextR ==
  \/ \E k \in Singles : InsertKey(k)
  \/ \E R \in Ranges : BeginRange(R)
  \/ WriterR
  \/ \E r \in Readers, k \in Keys : InvokeR(r, k)
  \/ \E r \in Readers : ExistR(r)

SpecR == InitR /\ [][NextR]_allVars
FairSpecR == SpecR /\ WF_allVars(WriterR) /\ \A r \in Readers : WF_allVars(ExistR(r))

-----------------------------------------------------------------------------
(* Properties. *)

\* A key inserted by Insert is not lost while ranges come beside it, although their
\* bounds split the nodes above it and move its leaf.
SinglesKept ==
  \A r \in Readers : Answers(r) /\ rd[r].must /\ rd[r].key \in Singles => FindsR(r)

\* The same for every key.
EveryKeyKept == \A r \in Readers : Answers(r) /\ rd[r].must => FindsR(r)

\* Exist finds no key before the insertion of it, or of its range, has begun:
\* not in the table,
NoPhantomR ==
  \A r \in Readers : Answers(r) /\ FindsInTable(r) => rd[r].key \in started

\* and not in the flat bitmaps.
NoFlatPhantom ==
  \A r \in Readers : Answers(r) /\ rd[r].res = InFlat => rd[r].key \in started

\* When the lock is free the table is the tree of the single keys and the bounds
\* of the ranges, without the leaves of the bounds, and each range is a run of
\* children where its bounds part.
Parts == {p \in UNION {{PartOf(R, i) : i \in DOMAIN R.parts} : R \in Ranges} :
            Split(p) > TopLen /\ p.lo \in started}
Bounds == UNION {{p.lo, p.hi} : p \in Parts}
RunsAt(n) == UNION {Run(p) : p \in {q \in Parts : /\ Split(q) = n.dlen
                                                 /\ SamePrefix(q.lo, n.mkey, n.dlen)}}
RangedTree ==
  {[n EXCEPT !.kids = @ \cup RunsAt(n)] :
     n \in {n \in Tree((started \cap Singles) \cup Bounds) :
              n.dlen < KeyLen \/ n.mkey \notin Bounds}}
RangedTreeOK ==
  wpc = "idle" =>
    /\ {[ilen |-> hdr[s].ilen, dlen |-> hdr[s].dlen, fp |-> hdr[s].fp,
         mkey |-> mkey[s], kids |-> kids[s]] : s \in Occupied} = RangedTree
    /\ Cardinality(Occupied) = Cardinality(RangedTree)
    /\ \A s \in Occupied : s \in {H1[IndexKey(s)], H2[IndexKey(s)]}

\* Every Exist returns, unless the process crashes.
ExistReturnsR ==
  \A r \in Readers :
    (rd[r].pc # "idle") ~> (rd[r].pc = "idle" \/ wpc = "crashed")
=============================================================================
