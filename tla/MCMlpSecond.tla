---------------------------- MODULE MCMlpSecond ----------------------------
(* Four-digit keys.  The prefixes of two digits share their first position    *)
(* and no other two nodes do: of two nodes of that length the later one sits   *)
(* at its second position, whose version the path lock then raises twice.     *)
(* The keys of LastDigit part in the last digit or after the first one;       *)
(* WithZero has the key 0, two keys with its first two digits, and another.   *)
EXTENDS MlpVersioned, TLC
CONSTANT r1

LastDigit == {<<1, 1, 1, 1>>, <<1, 1, 1, 2>>, <<1, 2, 1, 1>>}
WithZero == {<<0, 0, 0, 0>>, <<0, 0, 1, 1>>, <<0, 0, 2, 1>>, <<0, 1, 1, 1>>}

\* The first of the two positions of a prefix that is longer than two digits.
Place(p) == (IF Len(p) = 3 THEN 5 ELSE 9) + 2 * p[Len(p)]
MCH1 == [p \in Prefixes |-> IF Len(p) = 2 THEN 1 ELSE Place(p)]
MCH2 == [p \in Prefixes |-> IF Len(p) = 2 THEN 2 + p[2] ELSE Place(p) + 1]
MCFp == [p \in Prefixes |-> p[Len(p)]]
=============================================================================
