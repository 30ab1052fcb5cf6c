------------------------------ MODULE NumberLife ------------------------------
(***************************************************************************)
(* What becomes of a telephone number, as the customer of one order sees   *)
(* it.  A number is free or another customer's.  A free one may be granted *)
(* to the order; a granted one is put to use, or is stranded.  One number  *)
(* is in use at a time, from its grant on until another granted one takes  *)
(* its place: then it is returning, and ends up free or stranded.  A       *)
(* number in use is never free, and a stranded one stays as it is.         *)
(***************************************************************************)
CONSTANT Numbers

VARIABLE life

Init == life \in [Numbers -> {"free", "other"}]

\* The number n goes from one life to the next.
Goes(n, from, to) == life[n] = from /\ life' = [life EXCEPT ![n] = to]

\* Another customer takes a number, or gives it up.
Others(n) == Goes(n, "free", "other") \/ Goes(n, "other", "free")

Grant(n) == Goes(n, "free", "granted")

\* n is put to use, in the place of the number that is in use, if there is one.
Use(n) ==
  /\ life[n] = "granted"
  /\ life' = [m \in Numbers |-> IF m = n THEN "used"
                                ELSE IF life[m] = "used" THEN "returning"
                                ELSE life[m]]

Strand(n) == \E from \in {"granted", "returning"} : Goes(n, from, "stranded")

Return(n) == Goes(n, "returning", "free")

Next == \E n \in Numbers : Others(n) \/ Grant(n) \/ Use(n) \/ Strand(n) \/ Return(n)

Spec == Init /\ [][Next]_life
===============================================================================
