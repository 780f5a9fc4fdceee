SPECIFICATION Spec
CONSTANTS
  u = u
  v = v
  MaxNodes = 4
  MaxValue = 5
INVARIANTS
  LeqExact
  ZeronessExact
CHECK_DEADLOCK FALSE
SYMMETRY Renamings
