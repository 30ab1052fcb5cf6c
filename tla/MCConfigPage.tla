------------------------------ MODULE MCConfigPage ------------------------------
(* ConfigPage for TLC: the order in which the directory lists the items.    *)
EXTENDS ConfigPage

CONSTANTS u1, u2, b1, b2, g1

MCUsers == {u1, u2}
MCBundles == {b1, b2}
MCGroups == {g1}
MCOrder == <<Main, u1, u2, b1, b2, g1>>
MCSubs == {"all", "users"}

\* Kept is the filter of the standard library, on every sequence of length up
\* to three over two users and a bundle.
ASSUME KeptIsSelectSeq ==
  \A n \in 0..3 : \A s \in [1..n -> {u1, u2, b1}] : \A T \in SUBSET {u1, u2, b1} :
    Kept(s, T) = SelectSeq(s, LAMBDA x : x \in T)
================================================================================
