SPECIFICATION FairSpec
CONSTANTS
  Requests = {r1, r2}
  Limit = 1
  Window = 1
CHECK_DEADLOCK FALSE
PROPERTIES
  WindowEnds
