CONSTANTS
  SatRange = 3
  MaxQueries = 2
  Enough = 20
  Fuels = {3, 4, 5, 20}
SPECIFICATION Spec
INVARIANT WalksExact
CHECK_DEADLOCK FALSE
