SPECIFICATION ServicesSpec
CONSTANTS
  StaleAfter = 1
  Heartbeat = 0
  MaxConfirm = 0
  Sides = {bid}
  FaultModels <- LossOnly
  Absent = Absent
  Wallets = {u, v}
  UpgradeAuthority = u
  Pairs = {p1, p2}
  Mints = {m, n}
  Prices = {1}
  Shares = {1}
  PPM = 1
  MaxFees = 1
  Null = Null
  MaxSectors = 4
  MaxVaults = 3
INVARIANTS
  RegistrySound
  NoListIsCorrupt
PROPERTIES
  EndsDark
  QuotesAgain
  ListsImplementSlab
CHECK_DEADLOCK FALSE
