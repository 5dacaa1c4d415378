-------------------------- MODULE MCMlpRangedStuck --------------------------
(* The upper bound's leaf of a protected range displaces a node, and that    *)
(* the lower bound's leaf, whose slot the write set does not know.           *)
EXTENDS MlpRanged, TLC

CONSTANT r1

S == <<1, 1, 0, 0, 1>>
U == <<1, 2, 0, 0, 0>>
L == [low |-> <<1, 1, 0, 1, 0>>, high |-> <<1, 1, 0, 2, 2>>, root |-> TRUE,
      parts |-> <<[lo |-> <<1, 1, 0, 1, 0>>, hi |-> <<1, 1, 0, 2, 2>>, sb |-> 3]>>]
MCSingles == {S, U}
MCRanges == {L}
MCKeys == {S, U, L.low, L.high}

MCNode == (<<1, 1>> :> <<1, 2>>) @@ (<<1, 2>> :> <<5, 6>>)
   @@ (<<1, 1, 0, 0>> :> <<3, 4>>) @@ (<<1, 1, 0, 1>> :> <<6, 7>>)
   @@ (<<1, 1, 0, 2>> :> <<5, 1>>)
MCH1 == [p \in Prefixes |-> IF p \in DOMAIN MCNode THEN MCNode[p][1] ELSE 0]
MCH2 == [p \in Prefixes |-> IF p \in DOMAIN MCNode THEN MCNode[p][2] ELSE 0]
MCFp == [p \in Prefixes |-> p[Len(p)] + 3 * p[Len(p) - 1]]
=============================================================================
