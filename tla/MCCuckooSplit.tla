--------------------------- MODULE MCCuckooSplit ---------------------------
(* A node p1 that is split for one lower part, and again for another one above *)
(* it, and a node p4 that is split for p5.  p4, p6 and the lower parts of p1     *)
(* share the positions 0 and 3 to 6, along which a reservation displaces them;  *)
(* it never displaces the node that is split, but may meet its bitmap, and       *)
(* those of other nodes.                                                        *)
EXTENDS CuckooSplit, TLC
CONSTANTS p1, p2, p3, p4, p5, p6

MCPrefix == {p1, p2, p3, p4, p5, p6}
MCH1 == (p1 :> 2) @@ (p2 :> 4) @@ (p3 :> 3) @@ (p4 :> 5) @@ (p6 :> 0) @@ (p5 :> 7)
MCH2 == (p1 :> 1) @@ (p2 :> 5) @@ (p3 :> 5) @@ (p4 :> 0) @@ (p6 :> 6) @@ (p5 :> 7)
MCDeeper == (p1 :> {p2, p3}) @@ (p4 :> {p5}) @@ [s \in MCPrefix |-> {}]
=============================================================================
