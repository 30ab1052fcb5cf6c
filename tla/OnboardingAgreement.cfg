\* One request of each kind is enough to sign up without the agreement.
CONSTANTS
  MaxPosts = 1
  MaxLoads = 1
SPECIFICATION Spec
INVARIANT SignupNeedsAgreement
CHECK_DEADLOCK FALSE
