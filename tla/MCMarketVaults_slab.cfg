SPECIFICATION Spec
CONSTANTS
  Wallets = {w1, w2}
  NoWallet = NoWallet
  MaxSectors = 2
  MaxVaults = 2
  MaxU64 = 2
  MaxU128 = 1000
  HwmModulus = 1000
  PPM = 4
  QOne = 2
  PerfFees = {3}
  FloorShares = {}
  DefaultFloor = 1
  MaxFill = 1
  MaxResidue = 1
INVARIANTS
  SectorsAreAccounted
  Custody
  ClosedMeansPaidOut
PROPERTIES
  ImplementsSlab
CONSTRAINT Trading
SYMMETRY Symmetry
CHECK_DEADLOCK FALSE
