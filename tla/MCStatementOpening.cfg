SPECIFICATION Spec
CONSTANTS
  Accounts = {1, 2, 3}
  Mine = {1, 2}
  Writers = {w1, w2}
  Readers = {q1}
  Loads <- MCLoads
  Moves <- MCMoves
  Granted = {1, 3}
  Welcome = 5
  Amount = 2
  PageSize = 1
  EXPORT_MAX_ROWS = 2
  Filters <- MCFilters
  MaxClock = 2
  MaxVersion = 1
SYMMETRY Symmetry
CHECK_DEADLOCK FALSE
INVARIANTS
  OpeningExcludesRows
