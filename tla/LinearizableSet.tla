-------------------------- MODULE LinearizableSet ---------------------------
(***************************************************************************)
(* What Insert and Exist of the concurrent index promise together: a set   *)
(* that only grows, one insertion at a time, and readers whose answers fit *)
(* a moment of their call.  An insertion takes effect at some moment       *)
(* between its beginning and its end, and at the latest when somebody has  *)
(* been told of it.                                                        *)
(***************************************************************************)
CONSTANTS Key, Reader, None

VARIABLES
  set,   \* the keys whose insertion has taken effect for certain
  pend,  \* the key that is being inserted, None when none is
  call   \* the call of each reader

Idle == [key |-> None, must |-> FALSE, answer |-> None]

Init == set = {} /\ pend = None /\ call = [r \in Reader |-> Idle]

\* An insertion that will return true, and one that returns false: this one
\* changes nothing, so it is not an action.
InsertBegin(k) == pend = None /\ k \notin set /\ pend' = k /\ UNCHANGED <<set, call>>
InsertEnd ==
  pend # None /\ set' = set \cup {pend} /\ pend' = None /\ UNCHANGED call

ExistBegin(r, k) ==
  /\ call[r] = Idle
  /\ call' = [call EXCEPT ![r] = [key |-> k, must |-> k \in set, answer |-> None]]
  /\ UNCHANGED <<set, pend>>

\* True of a key whose insertion has begun at least, false of one whose
\* insertion had not taken effect for certain when the call began.
Answer(r, a) ==
  /\ call[r].key # None /\ call[r].answer = None
  /\ IF a THEN call[r].key \in set \cup {pend} ELSE ~call[r].must
  /\ call' = [call EXCEPT ![r].answer = a]
  /\ UNCHANGED <<set, pend>>

ExistEnd(r) ==
  /\ call[r].answer # None
  /\ set' = IF call[r].answer THEN set \cup {call[r].key} ELSE set
  /\ call' = [call EXCEPT ![r] = Idle]
  /\ UNCHANGED pend

Next == \/ \E k \in Key : InsertBegin(k)
        \/ InsertEnd
        \/ \E r \in Reader, k \in Key : ExistBegin(r, k)
        \/ \E r \in Reader, a \in BOOLEAN : Answer(r, a)
        \/ \E r \in Reader : ExistEnd(r)

Spec == Init /\ [][Next]_<<set, pend, call>>
=============================================================================
