SPECIFICATION FairSpec
CONSTANTS
  Accounts = {1, 2, 3}
  SysCash = SysCash
  Keys = {k1, k2}
  Amounts = {1, 2, 3}
  MaxAmount = 2
  Welcome = 2
  Requests = {r1, r2}
  Ops = {"transfer", "withdraw", "complete", "skip", "start"}
  Owner <- TwoOwners
  Opened = {1, 2}
  Seed = Seed
  NoReq = NoReq
CHECK_DEADLOCK FALSE
INVARIANTS
  InSyncUnlessStale
  CachedNonNegative
  ReadyIsGranted
  DeadlockNeedsRelated
PROPERTIES
  OpenedIsReadyUnlessOvertaken
  ImplementsDoubleEntry
  Finishes
