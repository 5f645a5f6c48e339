SPECIFICATION FairSpec
CONSTANTS
  Requests = {r1, r2}
  Ops = {"complete", "skip", "start", "document", "status", "consent", "open_additional"}
  Pasts <- MCPasts
  MaxNumber = 3
  MaxAccounts = 2
  NoAccount = NoAccount
CHECK_DEADLOCK FALSE
INVARIANTS
  ReadyHasConsents
  Referential
  NoRowCycle
  SessionsFollowAccounts
PROPERTIES
  OnlyStartReopensUnlessNotStarted
  Finishes
