SPECIFICATION DataSpec
CONSTANTS
  Limit = 4
  MaxPages = 1
  BlockSizes = {2}
  MaxTx = 6
  Races = FALSE
  LegCounts = {0, 2}
  StaleTape = 1
  StaleReference = 2
  Band = 20
  Grid = {}
  FxOffers <- SomeFxOffers
  CryptoOffers <- SomeCryptoOffers
  PegOffers <- SomePegOffers
  Panels <- SomePanels
  Interval = 2
  GateFloor = 20
  HalfLife = 2
  MaxAge = 2
  Jump = 50
  Weights = {900}
  Par = 20
  BasisLow = 18
  BasisHigh = 22
  UsdcLow = 97
  UsdcHigh = 103
  Pins = {0, 20}
INVARIANTS
  FairValueIsSound
  FeedIsSound
  EveryLegFolded
PROPERTIES
  BasisMovesByItsAge
  ImplementsDelivery
  CatchesUp
CHECK_DEADLOCK FALSE
