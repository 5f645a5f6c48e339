SPECIFICATION Spec
CONSTANTS
  Accounts = {1, 2}
  SysCash = SysCash
  Keys = {k1, k2}
  Amounts = {1}
  MaxAmount = 2
  Welcome = 2
  Requests = {r1, r2}
  Ops = {"transfer"}
  Owner <- TwoOwners
  Opened = {1, 2}
  Seed = Seed
  NoReq = NoReq
CHECK_DEADLOCK FALSE
SYMMETRY Interchangeable
INVARIANTS
  CachedInSync
