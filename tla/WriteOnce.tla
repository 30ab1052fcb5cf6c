------------------------------- MODULE WriteOnce -------------------------------
(***************************************************************************)
(* What the pages of the sign-up may rely on: a value that is set at most  *)
(* once and never changes after.                                           *)
(***************************************************************************)
CONSTANTS Values, Unset

VARIABLE value

Init == value = Unset

Write(v) == value = Unset /\ value' = v

Next == \E v \in Values : Write(v)

Spec == Init /\ [][Next]_value
===============================================================================
