SPECIFICATION Spec
CONSTANTS
  Sym <- MCSym
  Arity <- MCArity
  ExprSym <- MCExprSym
  PersCap = 3
  ScrCap = 2
  MaxHeld = 2
  NoHandle = NoHandle
INVARIANTS NoneDangles Canonical PromotionExact IndexFollows
PROPERTIES MeaningKept PersOnlyGrows RecordStartsClean
CHECK_DEADLOCK FALSE
