------------------------ MODULE MCRangeDecomposition ------------------------
(* Every range that begins and ends at a byte boundary, of keys of four      *)
(* bytes with three values each.  The first and the last key are among the   *)
(* bounds, and every pattern of full and partial subtrees at three levels.   *)
EXTENDS RangeDecomposition
=============================================================================
