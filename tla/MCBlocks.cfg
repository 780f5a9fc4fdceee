SPECIFICATION Spec
CONSTANTS
  Basis <- EmptyEnv
  Exports <- AllExports
  Params = {"u", "v"}
  MaxLevel = 2
INVARIANTS
  PositivityExact
  EliminatorsTyped
  ProofsEliminateAlike
CHECK_DEADLOCK FALSE
