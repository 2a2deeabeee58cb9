SPECIFICATION Spec
CONSTANTS
  Limit = 2
  MaxPages = 2
  BlockSizes = {1}
  MaxTx = 3
  Races = TRUE
  LegCounts = {1}
INVARIANTS
  NothingLeftBehind
CHECK_DEADLOCK FALSE
