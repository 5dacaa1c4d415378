--------------------------- MODULE MlpGlobalLock ----------------------------
(***************************************************************************)
(* The index under one mutex (Global_lock): the writer of MlpVersioned     *)
(* without versions, LowerBound on the slots, and the one operation that   *)
(* holds no mutex: Promise::Resolve, after LowerBound(value) has returned. *)
(*                                                                         *)
(* Exist and both LowerBounds hold the mutex, and see the slots as every   *)
(* Insert leaves them.  They are functions of the slots at such a moment.  *)
(* Resolve is two reads of slots, each at any moment.  The steps of Insert *)
(* are those of MlpVersioned, the versions that it notes, raises and       *)
(* lowers left out: ver, topVer, wasOdd and rd keep their initial values.  *)
(***************************************************************************)
EXTENDS MlpVersioned

CONSTANTS
  Inserted,  \* the keys that are inserted
  Asked      \* the values for which LowerBound hands out its promise

ASSUME InsertedAssumption == Inserted \subseteq Keys /\ Asked \subseteq Keys

VARIABLE
  held  \* the promise that a thread holds, and its Resolve

versions == <<ver, topVer, wasOdd, rd>>
lockVars == <<vars, held>>

-----------------------------------------------------------------------------
(* LowerBoundInternal, while the mutex is held and no Insert is under way.   *)

NoPromise == [kind |-> "none"]
\* Promise(&ht[s]).
Direct(s) == [kind |-> "direct", slot |-> s]
\* GetLookupMustExistPromise of an index prefix.
Lookup(p) == [kind |-> "lookup", pre |-> p]

FirstOf(D) == CHOOSE d \in D : \A e \in D : d <= e

\* The node of the path of k at level l.
Holders(k, l) == {s \in {Pos1(k, l), Pos2(k, l)} : IsEqualNoHash(s, k, l)}
Holder(k, l) == IF Pos1(k, l) \in Holders(k, l) THEN Pos1(k, l) ELSE Pos2(k, l)

\* A variant of Beyond that looks from the key's own child on.
BeyondFrom(k, l) ==
  LET s == Holder(k, l) IN {d \in kids[s] : d >= k[hdr[s].dlen + 1]}

\* Its children beyond the one of k.
Beyond(k, l) ==
  LET s == Holder(k, l) IN {d \in kids[s] : d > k[hdr[s].dlen + 1]}

\* The flat bitmaps: the siblings beyond the key's prefix of n digits, and from
\* a prefix down to the last flat level, first child after first child.
Siblings(k, n) == {d \in Digit : d > k[n] /\ Append(Prefix(k, n - 1), d) \in bits}
FirstBelow(p) ==
  LET down[n \in Len(p)..(TopLen + 1)] ==
        IF n = Len(p) THEN p
        ELSE Append(down[n - 1], FirstOf({d \in Digit : Append(down[n - 1], d) \in bits}))
  IN  down[TopLen + 1]

FlatMapping(k) ==
  LET up == {n \in 1..(TopLen + 1) : Siblings(k, n) # {}}
      n == Deepest(up)
  IN  IF up = {} THEN NoPromise
      ELSE Lookup(FirstBelow(Append(Prefix(k, n - 1), FirstOf(Siblings(k, n)))))

\* The way up: the first level above l whose node has a child beyond that of k.
ParentPath(k, l) ==
  LET up == {m \in (TopLen + 1)..(l - 1) : Holders(k, m) # {} /\ Beyond(k, m) # {}}
      m == Deepest(up)
      n == hdr[Holder(k, m)].dlen
  IN  IF up = {} THEN FlatMapping(k)
      ELSE Lookup(Append(Prefix(k, n), FirstOf(Beyond(k, m))))

LowerBoundInternal(k) ==
  LET q == NaiveQueryLCP(k)
      matched == hdr[q.pos].dlen = q.lcp
      D == {d \in kids[q.pos] : d >= k[q.lcp + 1]}
  IN  CASE q.lcp = TopLen -> FlatMapping(k)
        [] q.lcp = KeyLen -> Direct(q.pos)
        [] q.lcp \in Level \ {KeyLen} /\ matched /\ D # {} ->
             Lookup(Append(Prefix(k, q.lcp), FirstOf(D)))
        [] q.lcp \in Level \ {KeyLen} /\ ~matched /\ LessThan(k, mkey[q.pos]) ->
             Direct(q.pos)
        [] OTHER -> ParentPath(k, q.ilen)

\* Exist.
Contains(k) == NaiveQueryLCP(k).lcp = KeyLen

-----------------------------------------------------------------------------
(* Resolve.  Which slot it reads, and what comes of it at once.              *)

\* A variant of Chosen that trusts the first slot.
ChosenFirst(p) == IF p.kind = "direct" THEN p.slot ELSE H1[p.pre]

Chosen(p) ==
  IF p.kind = "direct" THEN p.slot
  ELSE IF IsEqual(H1[p.pre], p.pre, Len(p.pre)) THEN H1[p.pre] ELSE H2[p.pre]
Resolved(p) == mkey[Chosen(p)]

\* No promise, or none that is still to be resolved.
Nothing == [pc |-> "nothing", key |-> None, promise |-> NoPromise, first |-> None,
            slot |-> None, still |-> TRUE, res |-> None]

\* LowerBound(value): the mutex is released with the promise.  first is what it
\* would be resolved to at once.
LowerBoundPromise(k) ==
  LET p == LowerBoundInternal(k)
  IN  /\ wpc = "idle" /\ held.pc = "nothing"
      /\ p # NoPromise
      /\ held' = [Nothing EXCEPT !.pc = "promise", !.key = k, !.promise = p,
                                 !.first = Resolved(p)]
      /\ UNCHANGED vars

\* A node is on its way from one slot to another, or a split has cleared it and
\* not yet made its upper part.
Moving == \/ wpc \in {"moveHash", "moveRest", "moveClear", "splitHash",
                      "splitRest", "splitClear", "alterLen", "alterHash"}
          \/ wpc \in {"initVersion", "initRest"} /\ UpperPart

\* The first slot is compared: hash word and minKey.
Resolve ==
  /\ held.pc = "promise" /\ wpc # "crashed"
  /\ held' = [held EXCEPT !.pc = "chosen", !.slot = Chosen(held.promise),
                          !.still = ~Moving]
  /\ UNCHANGED vars

\* minKey of the slot chosen is read.
ResolveKey ==
  /\ held.pc = "chosen" /\ wpc # "crashed"
  /\ held' = [held EXCEPT !.pc = "resolved", !.res = mkey[held.slot]]
  /\ UNCHANGED vars

Forget == held.pc = "resolved" /\ held' = Nothing /\ UNCHANGED vars

-----------------------------------------------------------------------------
(* Insert. *)

\* The mutex is taken, the search is done, and the first two bitmaps have their
\* bits.  A node that is to be split is noted.
BeginInsert(k) ==
  LET q == IF Prefix(k, TopLen) \in bits THEN NaiveQueryLCP(k) ELSE NotFound
      splits == q.ilen > 0 /\ hdr[q.pos].dlen # q.lcp
  IN  /\ wpc = "idle"
      /\ q.lcp < KeyLen
      /\ started' = started \cup {k}
      /\ wkey' = k /\ lcp' = q.lcp /\ nlen' = q.ilen /\ pos' = q.pos /\ j' = q.ilen
      /\ bits' = bits \cup {Prefix(k, n) : n \in 1..TopLen}
      /\ okey' = IF splits THEN mkey[q.pos] ELSE None
      /\ ofp' = IF splits THEN hdr[q.pos].fp ELSE 0
      /\ wpc' = IF q.ilen > 0 /\ ~splits THEN "extend" ELSE "reserve"
      /\ UNCHANGED <<table, x, leaf, chain, hole, known, versions>>

\* Where MlpVersioned raises or lowers a version, nothing happens here.
Unversioned == [lockHole |-> "moveHash", unlockVictim |-> "unlockHole",
                lockX |-> "splitHash"]
SkipVersion ==
  /\ wpc \in DOMAIN Unversioned
  /\ wpc' = Unversioned[wpc]
  /\ UNCHANGED <<table, bits, call, j, split, leaf, chain, hole, history, versions>>

\* HashTableCuckooDisplacement returns: see UnlockHole.
Displaced ==
  /\ wpc = "unlockHole"
  /\ chain' = SubSeq(chain, 1, Len(chain) - 1)
  /\ IF Len(chain) > 1
     THEN wpc' = "lockHole" /\ hole' = Victim /\ UNCHANGED <<x, leaf>>
     ELSE hole' = None /\ Take(Victim, IF Splitting THEN "lockX" ELSE "initVersion")
  /\ UNCHANGED <<table, bits, call, j, okey, ofp, history, versions>>

\* Node::Init: here the hash word comes first.
InitHashFirst ==
  /\ wpc = "initVersion"
  /\ hdr' = [hdr EXCEPT ![NewSlot] = NewHdr]
  /\ wpc' = "initRest"
  /\ UNCHANGED <<mkey, kids, bits, call, j, split, leaf, chain, hole, history, versions>>

InitLast ==
  /\ wpc = "initRest"
  /\ mkey' = [mkey EXCEPT ![NewSlot] = NewKey]
  /\ kids' = [kids EXCEPT ![NewSlot] = NewKids]
  /\ wpc' = IF UpperPart THEN "addChild" ELSE AfterLeaf
  /\ j' = nlen
  /\ UNCHANGED <<hdr, bits, call, split, leaf, chain, hole, history, versions>>

\* The end, whether a leaf was put in or no slot was found for it: m_treeDepth2
\* gets its bit and the mutex is released.
InsertReturns ==
  /\ wpc \in {"finish", "unlock1"}
  /\ bits' = bits \cup {Prefix(wkey, n) : n \in {m \in {TopLen + 1} : lcp = TopLen}}
  /\ Finish
  /\ UNCHANGED <<ver, topVer>>

Mutator ==
  \/ SkipVersion \/ Reserve \/ ReserveDisplacing \/ Descend \/ GiveUp \/ FoundHole
  \/ MoveHash \/ MoveRest \/ MoveClear \/ Displaced
  \/ SplitHash \/ SplitRest \/ SplitClear \/ AlterIndexKeyLen \/ AlterHash18bit
  \/ InitHashFirst \/ InitLast \/ AddSecond \/ Extend \/ ExtendKey \/ Parents
  \/ InsertReturns

\* A step of Insert; a Resolve between its reads will know that a node has moved.
Step == Mutator /\ held' = [held EXCEPT !.still = @ /\ ~(held.pc = "chosen" /\ Moving)]

InitG == Init /\ held = Nothing
NextG ==
  \/ \E k \in Inserted : (BeginInsert(k) \/ AlreadyThere(k)) /\ UNCHANGED held
  \/ Step
  \/ \E k \in Asked : LowerBoundPromise(k)
  \/ Resolve \/ ResolveKey \/ Forget

SpecG == InitG /\ [][NextG]_lockVars

-----------------------------------------------------------------------------
(* Properties. *)

\* What Exist and LowerBound(value, found) say when they get the mutex is what a
\* sorted set of the keys inserted says, for every value: displacements, splits
\* and minima on their way up have left nodes, children and bits where the
\* search looks for them, at whichever level it turns back.
SetAtRest ==
  wpc = "idle" =>
    \A k \in Keys :
      LET S == {l \in started : ~LessThan(l, k)}
          p == LowerBoundInternal(k)
      IN  /\ Contains(k) <=> k \in started
          /\ (p = NoPromise) <=> (S = {})
          /\ S # {} => Resolved(p) = Smallest(S)

\* A promise of an index prefix is resolved to a key of the set, not below the
\* value and not above what was its lower bound when it was handed out, however
\* many insertions have come between, and also in the middle of one, of the leaf,
\* of a new child or of a minimum on its way up: unless the Insert is about to
\* move a node, or moves one between the two reads.
ResolvedUnlessMoving ==
  held.pc = "resolved" /\ held.still /\ held.promise.kind = "lookup" =>
    held.res \in started /\ ~LessThan(held.res, held.key)
                         /\ ~LessThan(held.first, held.res)

\* The comment on LowerBound(value): the promise can be resolved to get the lower
\* bound.  So the value is a key of the set, and not below the one asked for.
ResolvedIsLowerBound ==
  held.pc = "resolved" /\ held.promise.kind = "lookup" =>
    held.res \in started /\ ~LessThan(held.res, held.key)
=============================================================================
