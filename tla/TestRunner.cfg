\* A dozen changes: several of them meet a run that is already in debt.
CONSTANT MaxChanges = 12
SPECIFICATION Spec
INVARIANTS
  TypeOK
  OneRun
  NothingForgotten
PROPERTIES
  LatestReported
  EveryChangeTested
CHECK_DEADLOCK FALSE
