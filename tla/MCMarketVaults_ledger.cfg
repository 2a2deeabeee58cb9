SPECIFICATION Spec
CONSTANTS
  Wallets = {w1, w2}
  NoWallet = NoWallet
  MaxSectors = 1
  MaxVaults = 1
  MaxU64 = 4
  MaxU128 = 8
  HwmModulus = 1000
  PPM = 4
  QOne = 2
  PerfFees = {4}
  FloorShares = {0}
  DefaultFloor = 2
  MaxFill = 1
  MaxResidue = 0
INVARIANTS
  SharesConserved
  FeeSparesPrincipal
  NothingIsStranded
  PositionsAreAccounted
PROPERTIES
  NoDilution
  LeaderIsBound
SYMMETRY Symmetry
CHECK_DEADLOCK FALSE
