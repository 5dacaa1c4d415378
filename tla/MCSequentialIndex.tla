------------------------- MODULE MCSequentialIndex --------------------------
(* Keys of six binary digits, the first three in the flat levels, as in the  *)
(* code; the inserted ones end, begin and skip subtrees on every level.       *)
EXTENDS SequentialIndex

MCInserted == {3, 8, 9, 10, 14, 22}
MCAsked == {1, 11}
=============================================================================
