---------------------------- MODULE MCMlpRanged -----------------------------
(* Keys of five quaternary digits.  R is cut into a perfect range of the     *)
(* flat levels, one with the write set and one without; S parts from the     *)
(* last after three digits, and T shares a slot with the bounds' leaves.     *)
EXTENDS MlpRanged, TLC

CONSTANT r1

S == <<0, 3, 1, 2, 0>>
Bound(lo, hi, n) == [lo |-> lo, hi |-> hi, sb |-> n]
R == [low |-> <<0, 1, 0, 0, 0>>, high |-> <<0, 3, 1, 1, 3>>, root |-> TRUE,
      parts |-> <<Bound(<<0, 1, 0, 0, 0>>, <<0, 2, 3, 3, 3>>, 1),
                  Bound(<<0, 3, 0, 0, 0>>, <<0, 3, 0, 3, 3>>, 2),
                  Bound(<<0, 3, 1, 0, 0>>, <<0, 3, 1, 1, 3>>, 3)>>]
T == <<1, 0, 0, 0, 0>>
MCSingles == {S, T}
MCRanges == {R}
MCKeys == {S, T, R.low} \cup UNION {{R.parts[i].lo, R.parts[i].hi} : i \in 2..3}

MCNode == (<<0, 3>> :> <<1, 2>>) @@ (<<0, 3, 0>> :> <<3, 4>>) @@ (<<0, 3, 1>> :> <<5, 4>>)
   @@ (<<0, 3, 0, 0>> :> <<7, 8>>) @@ (<<0, 3, 0, 3>> :> <<7, 8>>)
   @@ (<<0, 3, 1, 0>> :> <<7, 10>>) @@ (<<0, 3, 1, 1>> :> <<11, 10>>)
   @@ (<<0, 3, 1, 2>> :> <<9, 12>>) @@ (<<1, 0>> :> <<7, 13>>)
MCH1 == [p \in Prefixes |-> IF p \in DOMAIN MCNode THEN MCNode[p][1] ELSE 0]
MCH2 == [p \in Prefixes |-> IF p \in DOMAIN MCNode THEN MCNode[p][2] ELSE 0]
MCFp == [p \in Prefixes |-> p[Len(p) - 1]]
=============================================================================
