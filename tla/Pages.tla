--------------------------------- MODULE Pages ---------------------------------
(***************************************************************************)
(* The pages of one tab that do not go through the onboarding or the       *)
(* directory: the user goes from one to another, and what a page has sent  *)
(* goes on while another is shown.  So do its dialogs: one that is open    *)
(* covers the page that is shown, whosever it is.                          *)
(***************************************************************************)
EXTENDS GroupSettings, Plans, Wizard, Account

vars == <<pageVars, groupVars, planVars, wizardVars, accountVars>>

Init == PageInit /\ GroupInit /\ PlanInit /\ WizardInit /\ AccountInit

\* A modal dialog is open.  What is not under it can be done: the browser's history
\* is followed, and what was sent is answered.
Covered == DialogOpen \/ picking # {}

\* Another page than these is shown, such as the one with the directory.
Elsewhere ==
  /\ page # "other" /\ page' = "other"
  /\ UNCHANGED <<sent, groupVars, planVars, wizardVars, accountVars>>

Next ==
  \/ (GroupRest \/ (~Covered /\ GroupClicks)) /\ UNCHANGED <<planVars, wizardVars, accountVars>>
  \/ (PlanRest \/ (~Covered /\ PlanClicks)) /\ UNCHANGED <<groupVars, wizardVars, accountVars>>
  \/ (WizardRest \/ (~Covered /\ WizardClicks)) /\ UNCHANGED <<groupVars, planVars, accountVars>>
  \/ (AccountRest \/ (~Covered /\ AccountClicks)) /\ UNCHANGED <<groupVars, planVars, wizardVars>>
  \/ Elsewhere

Spec == Init /\ [][Next]_vars

TypeOK == PageTypeOK /\ GroupTypeOK /\ PlanTypeOK /\ WizardTypeOK /\ AccountTypeOK
===============================================================================
