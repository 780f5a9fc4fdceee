CONSTANTS
  LogBits = 1
  MaxLimbs = 3
SPECIFICATION Spec
INVARIANT ArithmeticExact
