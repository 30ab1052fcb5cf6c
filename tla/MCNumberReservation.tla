-------------------------- MODULE MCNumberReservation --------------------------
(* NumberReservation with a few interchangeable numbers.                   *)
EXTENDS NumberReservation, TLC

Symmetry == Permutations(Numbers)
=============================================================================
