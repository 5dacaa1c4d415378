----------------------------- MODULE RangedTrie -----------------------------
(***************************************************************************)
(* The trie of the range version: beside single keys it keeps "perfect"    *)
(* ranges, each a run of whole child subtrees of one node, as children of  *)
(* that node that have no node of their own.  A run below the root or a    *)
(* flat level is a run of bits in the flat bitmaps.                        *)
(***************************************************************************)
EXTENDS Trie

\* get_split_byte_index: how many leading digits are the same.
SplitIndex(a, b) == LCP(a, b)

-----------------------------------------------------------------------------
(* Exist. *)

\* IS_VAL_COVERED_BY_TOP_LEVELS.
CoveredByTop(t, k) == \A n \in 1..(TopLen + 1) : Prefix(k, n) \in t.flat

\* A variant of InRange that does not compare the compressed string first.
InRangeUnchecked(t, k) ==
  LET q == QueryLCP(t, k)
      p == Prefix(k, q.ilen)
  IN  /\ q.ilen > 0
      /\ t.node[p].dlen < KeyLen
      /\ DigitAfter(k, t.node[p].dlen) \in t.node[p].kids

\* A variant of InRange that wants the key to part from the smallest key right
\* after the compressed string.
InRangeAtEnd(t, k) ==
  LET q == QueryLCP(t, k)
      p == Prefix(k, q.ilen)
  IN  /\ q.ilen > 0
      /\ q.lcp < KeyLen /\ q.lcp = t.node[p].dlen
      /\ DigitAfter(k, t.node[p].dlen) \in t.node[p].kids

\* RETURN_IF_KEY_EXISTS_IN_RANGE: the key agrees with the whole string of the
\* deepest node of its path, and the node has a child for it.
InRange(t, k) ==
  LET q == QueryLCP(t, k)
      p == Prefix(k, q.ilen)
  IN  /\ q.ilen > 0
      /\ q.lcp < KeyLen /\ q.lcp >= t.node[p].dlen
      /\ DigitAfter(k, t.node[p].dlen) \in t.node[p].kids

Exists(t, k) ==
  LET q == QueryLCP(t, k)
  IN  IF q.lcp = TopLen THEN CoveredByTop(t, k) ELSE q.lcp = KeyLen \/ InRange(t, k)

-----------------------------------------------------------------------------
(* InsertPerfectRange. *)

\* The bits of flat level n for a range that splits after s digits: a single
\* digit above the split, the run of digits at it, their subtrees below.  A bit
\* is named by its digits from the split on, not by those before them.
Width(n, s) == Weight[n - s - 1]
FlatRun(lo, hi, s, n) ==
  IF n <= s THEN {DigitAfter(lo, n - 1)}
  ELSE (DigitAfter(lo, s) * Width(n, s))..((DigitAfter(hi, s) + 1) * Width(n, s) - 1)

TopBits(lo, hi) ==
  UNION {{<<n, b>> : b \in FlatRun(lo, hi, SplitIndex(lo, hi), n)} : n \in 1..(TopLen + 1)}

\* Its lower and upper bound are inserted, which makes the node where the range
\* splits; their leaves are deleted; the children between them are added.
WithRange(t, lo, hi) ==
  LET low == InsertInto(t, lo)
      both == InsertInto(low, hi)
      q == QueryLCP(low, hi)
      left == DOMAIN both.node \ {Prefix(lo, q.lcp + 1), Prefix(hi, q.lcp + 1)}
      s == SplitIndex(lo, hi)
      run == DigitAfter(lo, s)..DigitAfter(hi, s)
  IN  [both EXCEPT !.node = [p \in left |->
         IF p = Prefix(hi, q.ilen) THEN [both.node[p] EXCEPT !.kids = @ \cup run]
         ELSE both.node[p]]]

InsertPerfect(t, lo, hi) ==
  IF SplitIndex(lo, hi) <= TopLen THEN [t EXCEPT !.flat = @ \cup TopBits(lo, hi)]
  ELSE WithRange(t, lo, hi)

-----------------------------------------------------------------------------
(* LowerBound.  A child without a node is a range: the answer is a key.      *)

\* The key k, its digit after n digits replaced by d.
ReplaceDigit(k, n, d) == k + (d - DigitAfter(k, n)) * Weight[KeyLen - n - 1]

\* The smallest key of the node at p, or else k.
NodeOr(t, p, k) == IF Has(t, p) THEN t.node[p].mkey ELSE k

FlatLowerBound(t, k, none) ==
  LET promise == FlatMapping(t, k)
  IN  IF promise = NoPromise THEN none
      ELSE NodeOr(t, promise.node, FirstKey(promise.node))

\* On the way up the digits after the replaced one stay as they are.
ParentLowerBound(t, k, l, none) ==
  LET up == {m \in PathLevels(t, k) : m < l /\ Beyond(t, k, m) # {}}
      n == t.node[Prefix(k, Max(up))].dlen
      key == ReplaceDigit(k, n, Min(Beyond(t, k, Max(up))))
  IN  IF up = {} THEN FlatLowerBound(t, k, none)
      ELSE NodeOr(t, Prefix(key, n + 1), key)

RangeLowerBound(t, k, none) ==
  LET q == QueryLCP(t, k)
      p == Prefix(k, q.ilen)
      below == Children(t, p, DigitAfter(k, q.lcp))
      child == Child(Prefix(k, q.lcp), Min(below))
  IN  CASE q.lcp = TopLen -> FlatLowerBound(t, k, none)
        [] q.lcp = KeyLen -> k
        [] InRange(t, k) -> k
        [] OTHER ->
             IF t.node[p].dlen = q.lcp
             THEN IF below # {} THEN NodeOr(t, child, FirstKey(child))
                  ELSE ParentLowerBound(t, k, q.ilen, none)
             ELSE IF k < t.node[p].mkey THEN t.node[p].mkey
             ELSE ParentLowerBound(t, k, q.ilen, none)
=============================================================================
