SPECIFICATION FairSpec
CONSTANTS
  Ids = {1, 2}
  Amounts = {0, 1, 2}
  Limit = 1
  Opening <- MCOpening
  Requests = {r1, r2}
  Ops = {"deposit", "withdraw", "transfer", "reset"}
  NoReq = NoReq
  Absent = Absent
CHECK_DEADLOCK FALSE
INVARIANTS
  CachedIsSum
  WithinOverdraft
  UpdatesHitRows
PROPERTIES
  Finishes
