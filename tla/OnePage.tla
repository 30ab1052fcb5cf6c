-------------------------------- MODULE OnePage --------------------------------
(***************************************************************************)
(* What the pages of one tab share: one of them is shown at a time, and    *)
(* all send their requests to the same backend.  A page that is left does  *)
(* not take its requests with it: they are carried out and answered while  *)
(* another one is shown.                                                   *)
(***************************************************************************)
EXTENDS Naturals

CONSTANT MaxSent  \* bound: requests sent, pages opened and steps built, together

ASSUME SentAssumption == MaxSent \in Nat

VARIABLES
  page,  \* the page shown
  sent   \* number of requests, of pages opened and of steps built so far

pageVars == <<page, sent>>

PageNames == {"other", "group", "plans", "wizard", "account"}

PageInit == page = "other" /\ sent = 0

\* A request is sent: its number is the new value of sent.
Send == sent < MaxSent /\ sent' = sent + 1

\* The page p is shown in place of another.  Bound: one more request can be sent.
OpenPage(p) == page # p /\ page' = p /\ sent + 1 < MaxSent /\ Send

PageTypeOK == page \in PageNames /\ sent \in 0..MaxSent
===============================================================================
