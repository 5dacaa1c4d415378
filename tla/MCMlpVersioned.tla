--------------------------- MODULE MCMlpVersioned ---------------------------
(* Four keys of five digits, no two of which part in the last digit: A and B *)
(* part after three digits, C from both after two, and D from all after one, *)
(* where the flat bitmaps end.  All fingerprints collide, so that searches    *)
(* take the slow path, and the positions overlap, so that every order of the *)
(* insertions displaces some node, at times the one a split has just made.   *)
EXTENDS MlpVersioned, TLC

CONSTANT r1

A == <<1, 1, 1, 1, 1>>
B == <<1, 1, 1, 0, 1>>
C == <<1, 1, 2, 0, 1>>
D == <<1, 0, 0, 0, 1>>
MCKeys == {A, B, C, D}
MCNode == (<<1, 1>> :> <<1, 2>>) @@ (<<1, 0>> :> <<7, 3>>)
            @@ (<<1, 1, 1>> :> <<3, 4>>) @@ (<<1, 1, 2>> :> <<3, 5>>)
            @@ (<<1, 1, 1, 1>> :> <<6, 7>>) @@ (<<1, 1, 1, 0>> :> <<6, 5>>)
MCH1 == [p \in Prefixes |-> IF p \in DOMAIN MCNode THEN MCNode[p][1] ELSE 0]
MCH2 == [p \in Prefixes |-> IF p \in DOMAIN MCNode THEN MCNode[p][2] ELSE 0]
MCFp == [p \in Prefixes |-> 0]

\* Other positions: a displacement of two moves first the node that a split works
\* on, then the leaf of a key that somebody is looking for, into the slot it has
\* left.
MovedNode == (<<1, 0>> :> <<1, 3>>) @@ MCNode
MovedH1 == [p \in Prefixes |-> IF p \in DOMAIN MCNode THEN MovedNode[p][1] ELSE 0]
MovedH2 == [p \in Prefixes |-> IF p \in DOMAIN MCNode THEN MovedNode[p][2] ELSE 0]
MovedFp == [p \in Prefixes |-> p[Len(p)]]
=============================================================================
