SPECIFICATION FairSpec
CONSTANTS
  Requests = {r1, r2, r3}
  Limit = 2
  Window = 2
CHECK_DEADLOCK FALSE
INVARIANTS
  TypeOK
  AdmissionBounded
PROPERTIES
  WindowEndsUnlessLost
