SPECIFICATION Spec
CONSTANTS
  MaxSent = 5
  MaxWizardSent = 5
  Lines = {"l1"}
  Numbers = {"n0", "n1", "n2"}
  Phones = {p1, p2}
  FirstNumber <- MCFirstNumber
  FirstPhone = p1
  NoNumber = NoNumber
CHECK_DEADLOCK FALSE
INVARIANTS OrderIsAsConfirmed
