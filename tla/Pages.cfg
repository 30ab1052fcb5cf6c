SPECIFICATION MCSpec
CONSTANTS
  a = a
  b = b
  c = c
  MaxSent = 5
  MaxGroupSent = 4
  MaxWizardSent = 4
  Users = {a, b, c}
  Members <- MCMembers
  Options = {"attendant", "greeting", "members"}
  Playable = {"attendant", "members"}
  FirstOption = "attendant"
  LineCounts = {1, 3}
  Products = {"monthly", "yearly"}
  FirstPlan <- MCFirstPlan
  NoProduct = NoProduct
  Lines = {"l1"}
  Numbers = {"n0", "n1", "n2"}
  Phones = {p1, p2}
  FirstNumber <- MCFirstNumber
  FirstPhone = p1
  NoNumber = NoNumber
  Streets = {"s1", "s2"}
  States = {"CA", "NV"}
  Deliverable <- MCDeliverable
  FirstAddress <- MCFirstAddress
  MaxInfos = 2
CHECK_DEADLOCK FALSE
INVARIANTS TypeOK RowsAreMembers SettledIsBackends TotalIsThePlans VerdictIsTheAddress HeldIsChosen SummaryIsCurrent AddressIsSaved
