------------------------------- MODULE Digits -------------------------------
(* Keys as numbers of KeyLen digits: the weights of the digits are what the  *)
(* code's shifts by whole bytes multiply and divide by.                      *)
EXTENDS Integers

CONSTANTS
  Base,   \* values of a digit (256)
  KeyLen  \* digits of a key (8)

ASSUME BaseAssumption == Base \in Nat /\ Base >= 2
ASSUME KeyLenAssumption == KeyLen \in Nat /\ KeyLen >= 2

Power[n \in Nat] == IF n = 0 THEN 1 ELSE Base * Power[n - 1]
Weight == [n \in 0..KeyLen |-> Power[n]]

Key == 0..(Weight[KeyLen] - 1)
=============================================================================
