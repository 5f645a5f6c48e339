SPECIFICATION SystemSpec
CONSTANTS
  u1 = u1
  u2 = u2
  u3 = u3
  h1 = h1
  h2 = h2
  x1 = x1
  Subjects = {u1, u2, u3}
  LocalDev = u1
  Owner <- MCOwner
  Document <- MCDocument
  Numbered = {1, 2}
  Accounts = {1, 2, 3}
  Opened = {1, 2}
  SysCash = SysCash
  Welcome = 2
  MaxAmount = 3
  Seed = Seed
  NoReq = NoReq
  Calls <- MCCalls
  Keys <- RequestKeys
  Requests = {r1, r2}
  None = None
  CommitOrders = {"before", "after"}
  Lapses = {"processing", "completed"}
CHECK_DEADLOCK FALSE
SYMMETRY Interchangeable
INVARIANTS
  SystemTypeOK
  PaidOnceUnlessUnguarded
  OkIsPaidUnlessReused
  SkippedIsOpenUnlessRestarted
  RefusedHoldsNoKey
PROPERTIES
  RefusedIsUnpaidUnlessLapsed
