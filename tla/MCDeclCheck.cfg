CONSTANTS
  Params <- OneParam
  MaxLevel = 2
  Exports <- Exported
  AskedUpTo = 3
  AnsweredUpTo = 16
SPECIFICATION Spec
INVARIANTS FastPathSound CertsDetermine AxiomsTrue
CHECK_DEADLOCK FALSE
