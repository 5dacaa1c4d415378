---------------------------- MODULE MCMlpCrowded ----------------------------
(* Four keys that part in the last of their three digits and share three       *)
(* positions for their leaves: the third is added to a node that branches     *)
(* already, and the fourth finds no room.  Its displacement gives up and the  *)
(* insertion crashes.                                                         *)
EXTENDS MlpVersioned, TLC
CONSTANT r1

MCKeys == {<<1, 1, d>> : d \in Digit}
MCPlace(p) == IF Len(p) = 2 THEN <<0, 1>>
              ELSE <<2, IF p[3] = 0 THEN 4 ELSE 3>>
MCH1 == [p \in Prefixes |-> MCPlace(p)[1]]
MCH2 == [p \in Prefixes |-> MCPlace(p)[2]]
MCFp == [p \in Prefixes |-> p[Len(p)]]
=============================================================================
