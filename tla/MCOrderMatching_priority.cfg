SPECIFICATION QuotedSpec
CONSTANTS
  MaxSectors = 2
  Keys = {k}
  NoKey = NoKey
  Levels = {0, 1}
  Ladders <- PriorityLadders
  Prices = {3, 4}
  PriceOne = 4
  PPM = 4
  BPS = 4
  TakerFee = 1
  PlatformFees = {2, 3}
  MaxPlatformFee = 2
  Amounts = {2, 5}
  Limits <- AnyLimits
  MinOuts = {0, 3}
  MaxAtoms = 4
  Inventories = {}
  MaxNonce = 8
  MaxTime = 0
INVARIANTS
  PriceTimePriority
PROPERTIES
  TakersTermsHold
  SoftRevertLeavesNoTrace
  SimulationAgrees
CONSTRAINT Undisturbed
CHECK_DEADLOCK FALSE
