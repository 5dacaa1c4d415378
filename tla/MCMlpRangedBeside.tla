-------------------------- MODULE MCMlpRangedBeside -------------------------
(* Keys of five ternary digits.  The range L is one perfect range, of the   *)
(* last digit; the key S parts from it after two digits, so that its        *)
(* insertion splits the node that has L's children.                         *)
EXTENDS MlpRanged, TLC

CONSTANT r1

S == <<1, 1, 0, 0, 1>>
L == [low |-> <<1, 1, 1, 1, 0>>, high |-> <<1, 1, 1, 1, 2>>, root |-> TRUE,
      parts |-> <<[lo |-> <<1, 1, 1, 1, 0>>, hi |-> <<1, 1, 1, 1, 2>>, sb |-> 4]>>]
MCSingles == {S}
MCRanges == {L}
MCKeys == {S, L.low, L.high}

MCNode == (<<1, 1>> :> <<1, 2>>) @@ (<<1, 1, 1>> :> <<3, 4>>) @@ (<<1, 1, 0>> :> <<5, 4>>)
   @@ (L.low :> <<6, 2>>) @@ (L.high :> <<7, 6>>)
MCH1 == [p \in Prefixes |-> IF p \in DOMAIN MCNode THEN MCNode[p][1] ELSE 0]
MCH2 == [p \in Prefixes |-> IF p \in DOMAIN MCNode THEN MCNode[p][2] ELSE 0]
MCFp == [p \in Prefixes |-> p[Len(p)] + 3 * p[Len(p) - 1]]
=============================================================================
