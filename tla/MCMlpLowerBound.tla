-------------------------- MODULE MCMlpLowerBound ---------------------------
(* Three or four keys of four digits, no two of which part in the last one.  *)
(* A and B share the node 11, which one of them splits; D shares the first    *)
(* digit with them, C none.  Inserting B's leaf or A's displaces a leaf.      *)
EXTENDS MlpLowerBound, TLC

CONSTANT r1

A == <<1, 1, 1, 1>>
B == <<1, 1, 2, 1>>
C == <<2, 1, 1, 1>>
D == <<1, 2, 1, 1>>
MCInserted == {A, B, C, D}
\* Values before and after each subtree, in the node's string and beside it.
MCQueries == {<<0, 1, 1, 1>>, <<1, 1, 0, 1>>, <<1, 1, 1, 1>>, <<1, 1, 1, 2>>,
              <<1, 1, 2, 2>>}
Few == {A, B, D}
FewQueries == {<<1, 1, 0, 1>>, <<1, 1, 1, 2>>}
\* Two pairs of keys, each of which shares its first digit, and a value between
\* the keys of the first pair.
E == <<2, 2, 1, 1>>
Pairs == {A, C, D, E}
PairsQueries == {<<1, 1, 1, 2>>}
MCKeys == MCInserted \cup MCQueries \cup {E}

MCNode == (<<1, 1>> :> <<1, 2>>) @@ (<<1, 2>> :> <<3, 4>>) @@ (<<2, 1>> :> <<5, 6>>)
            @@ (<<2, 2>> :> <<6, 5>>)
            @@ (<<1, 1, 1>> :> <<7, 3>>) @@ (<<1, 1, 2>> :> <<7, 3>>)
MCH1 == [p \in Prefixes |-> IF p \in DOMAIN MCNode THEN MCNode[p][1] ELSE 0]
MCH2 == [p \in Prefixes |-> IF p \in DOMAIN MCNode THEN MCNode[p][2] ELSE 0]
\* The node 11 is at its second position when D is inserted first.
SecondNode == (<<1, 2>> :> <<1, 4>>) @@ MCNode
SecondH1 == [p \in Prefixes |-> IF p \in DOMAIN MCNode THEN SecondNode[p][1] ELSE 0]
SecondH2 == [p \in Prefixes |-> IF p \in DOMAIN MCNode THEN SecondNode[p][2] ELSE 0]
\* The node 12 is where the value between the pairs does not look.
ApartNode == (<<1, 2>> :> <<4, 3>>) @@ MCNode
ApartH1 == [p \in Prefixes |-> IF p \in DOMAIN MCNode THEN ApartNode[p][1] ELSE 0]
ApartH2 == [p \in Prefixes |-> IF p \in DOMAIN MCNode THEN ApartNode[p][2] ELSE 0]
MCFp == [p \in Prefixes |-> p[Len(p)]]
=============================================================================
