SPECIFICATION Spec
CONSTANTS
  Groups = {g1, g2}
  MaxChanges = 2
  MaxLists = 2
  MaxSaves = 2
SYMMETRY Symmetry
CHECK_DEADLOCK FALSE
INVARIANTS TypeOK ShownIsNoted RequestsAgree SettledIsCurrent
