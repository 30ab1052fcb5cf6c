\* Three numbers: the one in use, the one taking its place and one more.
CONSTANTS
  n1 = n1
  n2 = n2
  n3 = n3
  Numbers = {n1, n2, n3}
  NoNumber = NoNumber
  MaxAsks = 2
  MaxSearches = 1
SPECIFICATION Spec
SYMMETRY Symmetry
INVARIANTS
  TypeOK
  HeldAccounted
  RolesDisjoint
  MainIsHeld
PROPERTIES
  AutoNeverOverwrites
  NumbersLive
