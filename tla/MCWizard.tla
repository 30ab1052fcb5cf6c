------------------------------- MODULE MCWizard -------------------------------
(* Wizard for TLC: the wizard is the only page that sends anything, and it can  *)
(* be left.                                                                     *)
EXTENDS Wizard

MCFirstNumber == [l1 |-> "n0"]

Leave == page = "wizard" /\ page' = "other" /\ UNCHANGED <<sent, wizardVars>>

Init == PageInit /\ WizardInit

Next ==
  \/ WizardRest
  \/ picking = {} /\ WizardClicks
  \/ Leave

Spec == Init /\ [][Next]_<<pageVars, wizardVars>>
===============================================================================
