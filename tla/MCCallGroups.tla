----------------------------- MODULE MCCallGroups -----------------------------
(* CallGroups for TLC: the groups are interchangeable.                     *)
EXTENDS CallGroups, TLC

Symmetry == Permutations(Groups)
===============================================================================
