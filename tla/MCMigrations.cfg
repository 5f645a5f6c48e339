SPECIFICATION Spec
CONSTANTS
  Keys = {1, 2}
  Subjects = {s1}
  None = None
  High = 2
  MaxSeq = 3
  Amounts = {1}
  MaxTxs = 2
  MaxSessions = 2
  MaxDowns = 2
CHECK_DEADLOCK FALSE
INVARIANTS
  SchemaHolds
  CachedIsSumUnlessAstray
  NumberFreeBelowHigh
PROPERTIES
  MoneyPreserved
  ReadyByEvidence
