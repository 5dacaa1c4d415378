-------------------------- MODULE MCMlpGlobalLock ---------------------------
(* Five keys of five digits: A and B part after three digits, C from both     *)
(* after two, D from all three after one, and E at once.  All fingerprints    *)
(* collide, and every order of the insertions displaces some node, but a split  *)
(* that reserves the slot of its lower part never the node that is split.     *)
EXTENDS MlpGlobalLock, TLC

A == <<1, 1, 1, 1, 1>>
B == <<1, 1, 1, 0, 1>>
C == <<1, 1, 2, 0, 1>>
D == <<1, 0, 0, 0, 1>>
E == <<2, 1, 1, 1, 1>>
MCInserted == {A, B, C, D, E}
\* Values whose search goes down to a child, up the path, and to each flat level.
MCAsked == {<<1, 1, 0, 0, 1>>, <<1, 1, 1, 2, 1>>, <<1, 0, 1, 1, 1>>, <<1, 2, 0, 0, 1>>}
NoneAsked == {}
\* Values that are only compared with the set.
MCOthers == {<<0, 0, 0, 0, 1>>, <<1, 1, 1, 1, 2>>, <<1, 1, 2, 2, 2>>, <<2, 2, 2, 2, 2>>}
MCKeys == MCInserted \cup MCAsked \cup MCOthers

MCNode == (<<1, 1>> :> <<1, 2>>) @@ (<<1, 0>> :> <<7, 9>>) @@ (<<2, 1>> :> <<6, 8>>)
            @@ (<<1, 1, 1>> :> <<3, 4>>) @@ (<<1, 1, 2>> :> <<5, 7>>)
            @@ (<<1, 1, 1, 1>> :> <<6, 7>>) @@ (<<1, 1, 1, 0>> :> <<6, 5>>)
MCH1 == [p \in Prefixes |-> IF p \in DOMAIN MCNode THEN MCNode[p][1] ELSE 0]
MCH2 == [p \in Prefixes |-> IF p \in DOMAIN MCNode THEN MCNode[p][2] ELSE 0]
\* E's leaf may go where the node of A and B is: a split of that node that
\* displaces E's leaf displaces the node itself.
ThroughNode == (<<2, 1>> :> <<6, 1>>) @@ MCNode
ThroughH1 == [p \in Prefixes |-> IF p \in DOMAIN MCNode THEN ThroughNode[p][1] ELSE 0]
ThroughH2 == [p \in Prefixes |-> IF p \in DOMAIN MCNode THEN ThroughNode[p][2] ELSE 0]
MCFp == [p \in Prefixes |-> 0]
=============================================================================
