SPECIFICATION TakerSpec
CONSTANTS
  MaxSectors = 1
  Keys = {k1, k2}
  NoKey = NoKey
  Levels = {0, 1}
  Ladders <- ExpiryLadders
  Prices = {4}
  PriceOne = 4
  PPM = 4
  BPS = 4
  TakerFee = 2
  PlatformFees = {0, 1}
  MaxPlatformFee = 0
  Amounts = {2, 4}
  Limits <- NoLimits
  MinOuts = {0, 3}
  MaxAtoms = 4
  Inventories = {1}
  MaxNonce = 5
  MaxTime = 1
INVARIANTS
  FillsAreCurrent
  FreshLaddersAreBacked
PROPERTIES
  SwapsSettleAsForetold
SYMMETRY KeySymmetry
CHECK_DEADLOCK FALSE
