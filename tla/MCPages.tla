-------------------------------- MODULE MCPages --------------------------------
(* Pages for TLC.                                                          *)
EXTENDS Pages

CONSTANTS a, b, c

MCMembers == <<a, b>>
MCFirstNumber == [l1 |-> "n0"]
MCFirstAddress == [street |-> "s1", state |-> "CA"]
MCDeliverable == {MCFirstAddress, [street |-> "s2", state |-> "NV"]}
MCFirstPlan == [lines |-> 3, product |-> "monthly"]

\* Bound: the account's page is opened before the others, or after it has been open.
AccountFirst == page' = "account" => page = "account" \/ sent = 0 \/ opened # 0

MCSpec == Init /\ [][Next /\ AccountFirst]_vars
===============================================================================
