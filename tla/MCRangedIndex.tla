--------------------------- MODULE MCRangedIndex ----------------------------
(* Keys of six ternary digits, the first three in the flat levels.            *)
EXTENDS RangedIndex

\* Ranges and single keys within one node and across several, which split, and
\* are split by, one another.
Low == {<<0, 2>>, <<3, 3>>, <<5, 5>>, <<6, 11>>, <<12, 56>>, <<59, 59>>, <<60, 80>>,
        <<252, 260>>, <<264, 275>>}
\* Ranges of whole flat levels: from the first digit on, or after zeros.
Top == {<<0, 53>>, <<0, 62>>, <<0, 242>>, <<243, 728>>}
MCRanges == Low \cup Top

\* Below the flat levels only.
Deep == {<<0, 2>>, <<5, 5>>, <<6, 8>>, <<15, 26>>, <<82, 82>>, <<84, 89>>,
         <<91, 91>>, <<93, 95>>, <<720, 728>>}
\* A range after a digit that is not zero.
Shifted == {<<162, 242>>, <<243, 485>>}

\* A range, and a key in it.
Overlapping == {<<0, 8>>, <<4, 4>>, <<13, 13>>}
=============================================================================
