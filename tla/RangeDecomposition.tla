------------------------- MODULE RangeDecomposition -------------------------
(***************************************************************************)
(* How InsertRange cuts a range of keys into "perfect" ranges, each of     *)
(* which is a run of whole child subtrees of one tree node, so that it can *)
(* be stored as a run of bits in that node's child bitmap: handle_range    *)
(* and the functions it calls.                                             *)
(*                                                                         *)
(* A key is an unsigned integer of KeyLen bytes; its arithmetic wraps.     *)
(* handle_range keeps the ranges it still has to cut on a stack; a step    *)
(* takes one from the top, outputs the perfect range in its middle, if     *)
(* there is one, and pushes what is left over on its two sides.            *)
(***************************************************************************)
EXTENDS Digits, Sequences

VARIABLES
  phase,      \* "split" while handle_range runs
  low, high,  \* the range that InsertRange was called with
  job,        \* Job: the ranges still to be cut, the next one last
  out,        \* low_values, high_values and sb_values
  rootExists  \* ret_val

vars == <<phase, low, high, job, out, rootExists>>

-----------------------------------------------------------------------------
(* Keys. *)

KeyCount == Weight[KeyLen]
Wrap(x) == x % KeyCount

\* get_byte: byte 1 is the most significant one.
Byte(x, b) == (x \div Weight[KeyLen - b]) % Base

\* A variant that counts the bytes from 1.
SplitIndexFromOne(x, y) ==
  CHOOSE s \in 1..(KeyLen + 1) :
    /\ \A b \in 1..(s - 1) : Byte(x, b) = Byte(y, b)
    /\ s <= KeyLen => Byte(x, s) # Byte(y, s)

\* get_split_byte_index: how many leading bytes are the same.
SplitIndex(x, y) ==
  CHOOSE s \in 0..KeyLen :
    /\ \A b \in 1..s : Byte(x, b) = Byte(y, b)
    /\ s < KeyLen => Byte(x, s + 1) # Byte(y, s + 1)

\* The keys below one child of a node whose prefix has s bytes.
Unit(s) == Weight[KeyLen - s - 1]

\* A variant without the test of a bound that is perfect already.
PerfectLowerSteps(x, s) ==
  IF s >= KeyLen - 1 THEN x ELSE Wrap((x \div Unit(s) + 1) * Unit(s))

\* convert_to_perfect_lower_bound.
PerfectLower(x, s) ==
  IF s >= KeyLen - 1 \/ (x \div Unit(s)) * Unit(s) = x THEN x
  ELSE Wrap((x \div Unit(s) + 1) * Unit(s))

\* A variant that cuts off one key too many.
PerfectUpperShort(y, s) ==
  IF s >= KeyLen - 1 \/ Wrap((y \div Unit(s) + 1) * Unit(s) - 1) = y THEN y
  ELSE Wrap((y \div Unit(s)) * Unit(s) - 2)

\* convert_to_perfect_upper_bound.  The last key of all wraps to 0 and back.
PerfectUpper(y, s) ==
  IF s >= KeyLen - 1 \/ Wrap((y \div Unit(s) + 1) * Unit(s) - 1) = y THEN y
  ELSE Wrap((y \div Unit(s)) * Unit(s) - 1)

-----------------------------------------------------------------------------
(* handle_range. *)

Init ==
  /\ phase = "idle"
  /\ low = 0 /\ high = 0
  /\ job = <<>> /\ out = <<>>
  /\ rootExists = TRUE

\* InsertRange takes ranges that begin and end at a byte boundary.
Begin(l, h) ==
  /\ phase = "idle"
  /\ l < h /\ l % Base = 0 /\ (h + 1) % Base = 0
  /\ phase' = "split"
  /\ low' = l /\ high' = h
  /\ job' = <<[lo |-> l, hi |-> h]>>
  /\ out' = <<>>
  /\ rootExists' = TRUE

\* A variant that loses the last byte of a leftover range.
LeftoverShort(l, h) ==
  IF Wrap(h - l + 1) > Base THEN <<[lo |-> l, hi |-> h]>> ELSE <<>>

\* A leftover of less than Base keys would be dropped (its assertion is not in
\* the build).
Leftover(l, h) ==
  IF Wrap(h - l + 1) >= Base THEN <<[lo |-> l, hi |-> h]>> ELSE <<>>

\* A variant of Split that leaves a range without a perfect part on the stack.
SplitRetries ==
  LET r == job[Len(job)]
      s == SplitIndex(r.lo, r.hi)
      x == PerfectLower(r.lo, s)
      y == PerfectUpper(r.hi, s)
  IN  /\ phase = "split"
      /\ job # <<>>
      /\ out' = IF x < y THEN Append(out, [lo |-> x, hi |-> y, sb |-> s]) ELSE out
      /\ rootExists' = (rootExists /\ x < y)
      /\ job' = IF x >= y THEN job
                ELSE SubSeq(job, 1, Len(job) - 1)
                       \o (IF x # r.lo THEN Leftover(r.lo, Wrap(x - 1)) ELSE <<>>)
                       \o (IF y # r.hi THEN Leftover(Wrap(y + 1), r.hi) ELSE <<>>)
      /\ UNCHANGED <<phase, low, high>>

\* One round of the loop, with _handle_range.
Split ==
  LET r == job[Len(job)]
      s == SplitIndex(r.lo, r.hi)
      x == PerfectLower(r.lo, s)
      y == PerfectUpper(r.hi, s)
  IN  /\ phase = "split"
      /\ job # <<>>
      /\ out' = IF x < y THEN Append(out, [lo |-> x, hi |-> y, sb |-> s]) ELSE out
      /\ rootExists' = (rootExists /\ x < y)
      /\ job' = SubSeq(job, 1, Len(job) - 1)
                  \o (IF x # r.lo THEN Leftover(r.lo, Wrap(x - 1)) ELSE <<>>)
                  \o (IF y # r.hi THEN Leftover(Wrap(y + 1), r.hi) ELSE <<>>)
      /\ UNCHANGED <<phase, low, high>>

\* The stack is empty: handle_range returns.
End ==
  /\ phase = "split"
  /\ job = <<>>
  /\ phase' = "idle"
  /\ UNCHANGED <<low, high, job, out, rootExists>>

Next == (\E l, h \in Key : Begin(l, h)) \/ Split \/ End

Spec == Init /\ [][Next]_vars
FairSpec == Spec /\ WF_vars(Split \/ End)

-----------------------------------------------------------------------------
(* Properties. *)

KeyRange == [lo : Key, hi : Key]
OutRange == [lo : Key, hi : Key, sb : 0..(KeyLen - 1)]
Called == high > low

\* Every variable has its type.  The bounds of an output range split at one of
\* their bytes, so InsertPerfectRange never takes its early return.
TypeOK ==
  /\ phase \in {"idle", "split"}
  /\ low \in Key /\ high \in Key
  /\ job \in Seq(KeyRange) /\ out \in Seq(OutRange)
  /\ rootExists \in BOOLEAN

\* Whatever has been cut so far, each key of the range is in exactly one of
\* the ranges that are done or still to do, and no other key is: no leftover is
\* lost or overlaps, not even where the keys end and the arithmetic wraps.
Partition ==
  Called => \A k \in Key :
    LET Done == {i \in 1..Len(out) : out[i].lo <= k /\ k <= out[i].hi}
        ToDo == {i \in 1..Len(job) : job[i].lo <= k /\ k <= job[i].hi}
    IN  IF low <= k /\ k <= high
        THEN \/ ToDo = {} /\ \E i \in Done : Done = {i}
             \/ Done = {} /\ \E i \in ToDo : ToDo = {i}
        ELSE Done = {} /\ ToDo = {}

\* What InsertPerfectRange assumes of a range: after the byte in which its
\* bounds split, its lower bound is all zero and its upper bound all ones.
\* So the run of bits that is set in the node stands for exactly this range.
PerfectRanges ==
  \A i \in 1..Len(out) :
    \A b \in (SplitIndex(out[i].lo, out[i].hi) + 2)..KeyLen :
      Byte(out[i].lo, b) = 0 /\ Byte(out[i].hi, b) = Base - 1

\* handle_range clears its result in any round; InsertRange takes it to say
\* that the first range of the list is the one in the middle of the whole
\* range.  Only the first round can have no perfect range, so this is right.
RootFlag ==
  phase = "idle" /\ Called =>
    /\ out # <<>>
    /\ rootExists <=> out[1].sb = SplitIndex(low, high)

\* The cutting ends: every leftover splits at a later byte than its range.
DecompositionEnds == (phase = "split") ~> (phase = "idle")
=============================================================================
