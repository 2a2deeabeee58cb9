SPECIFICATION PlatformSpec
CONSTANTS
  Wallets = {w1, w2}
  Markets = {m1, m2}
  Counterpart = c
  StaleAfter = 1
  Heartbeat = 0
  MaxConfirm = 1
  Sides = {}
  FaultModels <- AnyFaults
  Holdings <- HeavyAndEven
  Mids = {1, 2}
  Capacity = 1
  MaxFills = 2
  MaxFlows = 1
  MaxStarts = 2
  ReshapePct = 30
  FreezePct = 50
  HaltPct = 80
  FloorFrac = 800
  DegradedScale = 500
  Ladder <- SmallLadder
  ReshapeScale = 500
  BPS = 20
  SkewRate = 1
  SkewCap = 20
  Fairs <- FineOrDegraded
  Nothing = Nothing
INVARIANTS
  WireAgrees
  BeliefsHold
  JudgesTheChain
  PolicyIsSound
PROPERTIES
  NoBookIsLeftResting
  PositionsSettle
CHECK_DEADLOCK FALSE
