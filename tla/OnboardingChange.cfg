\* A change made after the account is created.
CONSTANTS
  MaxPosts = 1
  MaxLoads = 1
SPECIFICATION Spec
PROPERTY ChangeTriggersCreate
CHECK_DEADLOCK FALSE
