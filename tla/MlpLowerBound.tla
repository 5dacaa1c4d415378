--------------------------- MODULE MlpLowerBound ----------------------------
(***************************************************************************)
(* MlpSet::LowerBound of the versioned index, beside one writer.           *)
(*                                                                         *)
(* A call notes the versions of the top levels, runs QueryLCP (the steps   *)
(* of MlpVersioned's readers, with their own retries), goes down, up, or   *)
(* over to the flat bitmaps for the next larger subtree, validates the     *)
(* versions it has noted, and is left with a promise: a slot, or the index *)
(* prefix of a node that must exist.  The promise is resolved after that,  *)
(* and nothing is validated any more.                                      *)
(***************************************************************************)
EXTENDS MlpVersioned

CONSTANTS
  Inserted,  \* the keys that are inserted
  Queries    \* the values LowerBound is called with

\* A child that is missing, -1, makes a key of ones (see Descend below).
MaxPrefix == [i \in 1..(TopLen + 1) |-> CHOOSE d \in Digit : \A e \in Digit : e <= d]

ASSUME InsertedAssumption == Inserted \subseteq Keys /\ Queries \subseteq Keys
ASSUME MaxPrefixAssumption == MaxPrefix \in Prefixes

VARIABLES
  lb,    \* the local state of each call of LowerBound
  order  \* the keys inserted so far, the one under way included, in order

lbVars == <<lb, order>>
allVars == <<vars, lbVars>>

-----------------------------------------------------------------------------
(* Promises. *)

NoAnswer == [kind |-> "none"]
\* Promise(&ht[s]); m is the key that the search has seen there.
Direct(s, m) == [kind |-> "direct", slot |-> s, min |-> m]
\* GetLookupMustExistPromise.
Lookup(p) == [kind |-> "lookup", pre |-> p]
\* What comes of a full key length that is not of a branching node.
Garbage == [kind |-> "garbage"]

Call(k, n) ==
  [pc |-> "tops", key |-> k, since |-> n, topv |-> 0, lvl |-> TopLen + 1,
   side |-> 1, pre |-> <<>>, flat |-> FALSE, ans |-> NoAnswer, res |-> None]
IdleCall == [Call(None, 0) EXCEPT !.pc = "idle"]

InitLB == Init /\ lb = [r \in Readers |-> IdleCall] /\ order = <<>>

AtLB(r, l) == lb[r].pc = l /\ wpc # "crashed"
BecomeLB(r, c) == lb' = [lb EXCEPT ![r] = c] /\ UNCHANGED <<vars, order>>

Go(c, l) == [c EXCEPT !.pc = l]
\* ValidateVersion(), before the answer a is given.
Validated(c, a) == [c EXCEPT !.pc = "validate", !.lvl = TopLen + 1, !.side = 1,
                             !.ans = a]
\* VValidateTopLevels() before that.
ValidatedTop(c, a) == [Validated(c, a) EXCEPT !.pc = "validateTop", !.flat = TRUE]
\* goto _retry.
Again(c) == Call(c.key, c.since)

SmallestDigit(D) == CHOOSE d \in D : \A e \in D : d <= e
\* The index prefix of the child d of a node with the first n digits of k.
ChildOf(k, n, d) == Append(Prefix(k, n), d)

-----------------------------------------------------------------------------
(* The search. *)

InvokeLB(r, k) ==
  /\ AtLB(r, "idle")
  /\ BecomeLB(r, Call(k, Cardinality(known)))

\* The versions of the top levels, odd or not.
ReadTops(r) ==
  /\ AtLB(r, "tops")
  /\ lb' = [lb EXCEPT ![r] = [@ EXCEPT !.pc = "query", !.topv = topVer]]
  /\ rd' = [rd EXCEPT ![r] = Search(lb[r].key, FALSE)]
  /\ UNCHANGED <<table, ver, top, wpc, call, j, split, leaf, displacement,
                 history, order>>

QueryLCP(r) ==
  /\ AtLB(r, "query")
  /\ \/ ReadVersion(r) \/ Scan(r) \/ ReadKey(r) \/ SlowHash(r) \/ SlowKey(r)
     \/ SlowEnd(r) \/ ValidateVersion(r)
  /\ UNCHANGED lbVars

\* The way up begins above the node that was found.
ToParent(c, l) ==
  IF l > TopLen THEN [c EXCEPT !.pc = "parent", !.lvl = l, !.side = 1]
  ELSE [c EXCEPT !.pc = "flat", !.lvl = TopLen + 1]

\* What QueryLCP has found: the key, nothing, or a node, whose full key length
\* is compared with the common prefix.
Dispatch(r) ==
  LET c == lb[r]
      q == rd[r]
  IN  /\ AtLB(r, "query") /\ q.pc = "return"
      /\ BecomeLB(r, CASE q.res = KeyLen -> Validated(c, Direct(q.fpos, c.key))
                       [] q.res = TopLen -> ToParent(c, TopLen)
                       [] q.res \in (TopLen + 1)..(KeyLen - 1) ->
                            Go(c, IF hdr[q.fpos].dlen = q.res THEN "kids" ELSE "min"))

\* LowerBoundChild at the node that was found.
ReadKids(r) ==
  LET c == lb[r]
      q == rd[r]
      D == {d \in kids[q.fpos] : d >= c.key[q.res + 1]}
  IN  /\ AtLB(r, "kids")
      /\ BecomeLB(r, IF D = {} THEN ToParent(c, q.flen - 1)
                     ELSE Validated(c, Lookup(ChildOf(c.key, q.res, SmallestDigit(D)))))

\* The value is beside the node's compressed string: before or after it.
ReadMin(r) ==
  LET c == lb[r]
      q == rd[r]
      m == mkey[q.fpos]
  IN  /\ AtLB(r, "min")
      /\ BecomeLB(r, IF LessThan(c.key, m) THEN Validated(c, Direct(q.fpos, m))
                     ELSE ToParent(c, q.flen - 1))

\* The way up: at each level the two positions, until one holds the parent.
ParentSlot(c) == PosOf(c.side, c.key, c.lvl)
NextParent(c) ==
  IF c.side = 1 THEN [c EXCEPT !.pc = "parent", !.side = 2] ELSE ToParent(c, c.lvl - 1)

ParentHash(r) ==
  LET c == lb[r]
      h == hdr[ParentSlot(c)]
  IN  /\ AtLB(r, "parent")
      /\ BecomeLB(r, IF h.occ /\ h.ilen = c.lvl THEN Go(c, "parentKey")
                     ELSE NextParent(c))

ParentKey(r) ==
  LET c == lb[r]
  IN  /\ AtLB(r, "parentKey")
      /\ BecomeLB(r, IF SamePrefix(mkey[ParentSlot(c)], c.key, c.lvl)
                     THEN Go(c, "parentKids") ELSE NextParent(c))

\* A variant of ParentKids that looks from the value's own child on.
ParentKidsFrom(r) ==
  LET c == lb[r]
      s == ParentSlot(c)
      n == hdr[s].dlen
      D == {d \in kids[s] : d >= c.key[n + 1]}
  IN  /\ AtLB(r, "parentKids")
      /\ BecomeLB(r, CASE n \notin c.lvl..(KeyLen - 1) -> Validated(c, Garbage)
                       [] n \in c.lvl..(KeyLen - 1) /\ D = {} -> ToParent(c, c.lvl - 1)
                       [] OTHER -> Validated(c, Lookup(ChildOf(c.key, n, SmallestDigit(D)))))

\* LowerBoundChild beyond the value's own child.
ParentKids(r) ==
  LET c == lb[r]
      s == ParentSlot(c)
      n == hdr[s].dlen
      D == {d \in kids[s] : d > c.key[n + 1]}
  IN  /\ AtLB(r, "parentKids")
      /\ BecomeLB(r, CASE n \notin c.lvl..(KeyLen - 1) -> Validated(c, Garbage)
                       [] n \in c.lvl..(KeyLen - 1) /\ D = {} -> ToParent(c, c.lvl - 1)
                       [] OTHER -> Validated(c, Lookup(ChildOf(c.key, n, SmallestDigit(D)))))

\* The flat bitmaps, from the last level upwards: the next sibling.
Siblings(k, n) == {d \in Digit : d > k[n] /\ ChildOf(k, n - 1, d) \in bits}

FlatMapping(r) ==
  LET c == lb[r]
      D == Siblings(c.key, c.lvl)
      p == ChildOf(c.key, c.lvl - 1, SmallestDigit(D))
  IN  /\ AtLB(r, "flat")
      /\ BecomeLB(r, CASE D # {} /\ c.lvl = TopLen + 1 -> ValidatedTop(c, Lookup(p))
                       [] D # {} /\ c.lvl <= TopLen -> [c EXCEPT !.pc = "descend", !.pre = p]
                       [] D = {} /\ c.lvl > 1 -> [c EXCEPT !.lvl = @ - 1]
                       [] D = {} /\ c.lvl = 1 -> ValidatedTop(c, NoAnswer))

\* The first child of the sibling.  If there is none the code goes on with -1,
\* which is all ones in the key it looks for.
FirstChildren(p) == {d \in Digit : Append(p, d) \in bits}

Descend1(r) ==
  LET c == lb[r]
      D == FirstChildren(c.pre)
      p == Append(c.pre, SmallestDigit(D))
  IN  /\ AtLB(r, "descend")
      /\ BecomeLB(r, CASE D = {} -> ValidatedTop(c, Lookup(MaxPrefix))
                       [] D # {} /\ Len(c.pre) = TopLen -> ValidatedTop(c, Lookup(p))
                       [] D # {} /\ Len(c.pre) < TopLen -> [c EXCEPT !.pre = p])

-----------------------------------------------------------------------------
(* The validation and the promise. *)

ValidateTops(r) ==
  LET c == lb[r]
  IN  /\ AtLB(r, "validateTop")
      /\ BecomeLB(r, IF topVer = c.topv THEN Go(c, "validate") ELSE Again(c))

\* __ValidateVersion, again without the last level.
ValidateSlots(r) ==
  LET c == lb[r]
      same == ver[PosOf(c.side, c.key, c.lvl)] = rd[r].set[c.side][c.lvl]
      next == IF c.side = 1 THEN [c EXCEPT !.side = 2]
              ELSE IF c.lvl + 1 \in ValidatedLevel
              THEN [c EXCEPT !.side = 1, !.lvl = @ + 1]
              ELSE Go(c, "promise")
  IN  /\ AtLB(r, "validate")
      /\ BecomeLB(r, IF same THEN next ELSE Again(c))

\* Resolve: the slot's key now, or the first slot of the prefix is compared.
Resolve(r) ==
  LET c == lb[r]
      a == c.ans
  IN  /\ AtLB(r, "promise")
      /\ BecomeLB(r,
           CASE a.kind = "none" -> Go(c, "return")
             [] a.kind = "garbage" -> Go(c, "return")
             [] a.kind = "direct" -> [c EXCEPT !.pc = "return", !.res = mkey[a.slot]]
             [] a.kind = "lookup" -> Go(c, IF IsEqual(H1[a.pre], a.pre, Len(a.pre))
                                           THEN "first" ELSE "second"))

\* Its minKey, or else that of the second slot, whatever is there.
ResolveKey(r) ==
  LET c == lb[r]
      s == IF c.pc = "first" THEN H1[c.ans.pre] ELSE H2[c.ans.pre]
  IN  /\ AtLB(r, "first") \/ AtLB(r, "second")
      /\ BecomeLB(r, [c EXCEPT !.pc = "return", !.res = mkey[s]])

ReturnLB(r) ==
  /\ AtLB(r, "return")
  /\ lb' = [lb EXCEPT ![r] = IdleCall]
  /\ rd' = [rd EXCEPT ![r] = IdleReader]
  /\ UNCHANGED <<table, ver, top, wpc, call, j, split, leaf, displacement,
                 history, order>>

LowerBound(r) ==
  \/ ReadTops(r) \/ QueryLCP(r) \/ Dispatch(r) \/ ReadKids(r) \/ ReadMin(r)
  \/ ParentHash(r) \/ ParentKey(r) \/ ParentKids(r)
  \/ FlatMapping(r) \/ Descend1(r)
  \/ ValidateTops(r) \/ ValidateSlots(r)
  \/ Resolve(r) \/ ResolveKey(r) \/ ReturnLB(r)

InsertLB(k) ==
  /\ Insert(k)
  /\ order' = IF k \in started THEN order ELSE Append(order, k)
  /\ UNCHANGED lb
WriterLB == Writer /\ UNCHANGED lbVars

NextLB ==
  \/ \E k \in Inserted : InsertLB(k)
  \/ WriterLB
  \/ \E r \in Readers, k \in Queries : InvokeLB(r, k)
  \/ \E r \in Readers : LowerBound(r)

SpecLB == InitLB /\ [][NextLB]_allVars
FairSpecLB == SpecLB /\ WF_allVars(WriterLB)
                     /\ \A r \in Readers : WF_allVars(LowerBound(r))

-----------------------------------------------------------------------------
(* Properties. *)

\* The set after the first i insertions, and what a promise says of it.
FirstKeys(i) == {order[n] : n \in 1..i}
NotBelow(i, k) == {l \in FirstKeys(i) : ~LessThan(l, k)}
Answers(c, i) ==
  LET S == NotBelow(i, c.key)
  IN  CASE c.ans.kind = "none" -> S = {}
        [] c.ans.kind = "garbage" -> FALSE
        [] c.ans.kind = "direct" -> S # {} /\ Smallest(S) = c.ans.min
        [] c.ans.kind = "lookup" -> S # {} /\ Prefix(Smallest(S), Len(c.ans.pre)) = c.ans.pre

\* Insertions take effect one after the other, each between its beginning and
\* its end.  So a call of LowerBound is linearizable when its promise says what
\* is right after so many of them, as many as had returned when it was called at
\* least, and as many as have begun at most.
Right(c) == \E i \in c.since..Len(order) : Answers(c, i)

\* A promise whose search found the top levels at rest, or did not need them,
\* is right at some moment of the call, while splits, displacements and
\* minima on their way up change the tree under it.
PromiseLinearizable ==
  \A r \in Readers :
    lb[r].pc = "promise" /\ (lb[r].flat => lb[r].topv % 2 = 0) => Right(lb[r])

\* The same, wherever the search has looked: the comment on LowerBound says
\* that it returns the minimum value greater or equal to the specified one.
AlwaysLinearizable == \A r \in Readers : lb[r].pc = "promise" => Right(lb[r])

\* The value that LowerBound returns is a key of the set, not smaller than the
\* value it was asked for.
ResolvesToLowerBound ==
  \A r \in Readers :
    lb[r].pc = "return" /\ lb[r].ans.kind # "none" =>
      lb[r].res \in started /\ ~LessThan(lb[r].res, lb[r].key)

\* Every call of LowerBound returns.
LowerBoundReturns == \A r \in Readers : (lb[r].pc # "idle") ~> (lb[r].pc = "idle")
=============================================================================
