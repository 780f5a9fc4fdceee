SPECIFICATION Spec
CONSTANTS
  Fuel = 200
  MaxQueries = 2
  Params = {"u"}
  MaxLevel = 3
INVARIANTS
  AnswersByTheRules
PROPERTIES
  MemosTransparent
  EntriesByTheRules
