--------------------------- MODULE MCCuckooTable ---------------------------
(* A small table: five prefixes, four positions, bitmaps from the second    *)
(* child on.  The hash functions make two overlapping displacement chains,  *)
(* a cycle that the bound on the rounds cuts, and a prefix both of whose    *)
(* hashes agree.                                                            *)
EXTENDS CuckooTable, TLC
CONSTANTS p1, p2, p3, p4, p5

MCPrefix == {p1, p2, p3, p4, p5}
MCH1 == (p1 :> 1) @@ (p2 :> 1) @@ (p3 :> 2) @@ (p4 :> 2) @@ (p5 :> 0)
MCH2 == (p1 :> 2) @@ (p2 :> 0) @@ (p3 :> 3) @@ (p4 :> 1) @@ (p5 :> 0)
=============================================================================
