SPECIFICATION Spec
CONSTANTS
  Wallets = {w1, w2}
  NoWallet = NoWallet
  MaxSectors = 1
  MaxVaults = 1
  MaxU64 = 3
  MaxU128 = 1000
  HwmModulus = 1000
  PPM = 4
  QOne = 2
  PerfFees = {3}
  FloorShares = {}
  DefaultFloor = 1
  MaxFill = 1
  MaxResidue = 0
INVARIANTS
  WindingDownCanExit
CONSTRAINT Trading
SYMMETRY Symmetry
CHECK_DEADLOCK FALSE
