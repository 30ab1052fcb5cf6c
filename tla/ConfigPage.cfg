SPECIFICATION Spec
CONSTANTS
  u1 = u1
  u2 = u2
  b1 = b1
  b2 = b2
  g1 = g1
  Main = Main
  Unassigned = Unassigned
  None = None
  Users <- MCUsers
  Bundles <- MCBundles
  Groups <- MCGroups
  Order <- MCOrder
  Subs <- MCSubs
  MaxWrites = 3
  MaxLoads = 3
CHECK_DEADLOCK FALSE
INVARIANTS TypeOK ShownIsDirectory ConfirmedIsShown SettledIsCurrent
