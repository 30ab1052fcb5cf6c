-------------------------------- MODULE MCShell --------------------------------
(* Shell for TLC: the places, and how their pages behave.                   *)
EXTENDS Shell

MCLogin == [main |-> "auth", sub |-> "login"]
MCHome == [main |-> "config", sub |-> "index"]
MCPlaces == {MCLogin, MCHome, [main |-> "config", sub |-> "users"],
             [main |-> "account", sub |-> "index"], [main |-> "account", sub |-> "rates"],
             [main |-> "plans", sub |-> "index"]}
================================================================================
