SPECIFICATION Spec
CONSTANTS
  Requests = {r1, r2}
  Ops = {"open_additional"}
  Pasts <- MCPasts
  MaxNumber = 3
  MaxAccounts = 2
  NoAccount = NoAccount
CHECK_DEADLOCK FALSE
INVARIANTS
  AccountLimit
