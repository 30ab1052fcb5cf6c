\* Two requests of each kind, one load of each page in flight.
CONSTANTS
  MaxPosts = 2
  MaxLoads = 1
SPECIFICATION Spec
INVARIANTS
  TypeOK
  NoStepSkipped
  LinksMatchPage
  OneSignup
  AccountsAgree
  WaitersServed
PROPERTIES
  AccountWrittenOnce
CHECK_DEADLOCK FALSE
