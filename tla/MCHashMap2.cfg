SPECIFICATION BothSpec
CONSTANTS
  Key = {k1, k2, k3, k4}
  Val = {v1, v2}
  None = None
  Hash = {0, 3, 6, 7}
  MinCapacity = 4
  Pow2Fuel = 2
  EpochMax = 2
  FitDecay = 2
  FitSlack = 1


INVARIANTS ProbesEnd NoFutureStamp Agrees
SYMMETRY MCSymmetry

