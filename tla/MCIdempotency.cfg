SPECIFICATION FairSpec
CONSTANTS
  Keys = {k1, k2}
  Requests = {r1, r2, r3}
  None = None
  CommitOrders = {"before"}
  Lapses <- MCLapses
CHECK_DEADLOCK FALSE
INVARIANTS
  SingleRunUnlessLapsed
  OkIsEffective
  AnswersAgree
PROPERTIES
  KeyFreed
