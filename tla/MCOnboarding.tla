----------------------------- MODULE MCOnboarding -----------------------------
(* Onboarding, checked as it stands: the bounds are in the configurations.  *)
EXTENDS Onboarding
===============================================================================
