SPECIFICATION FeedsSpec
CONSTANTS
  StaleTape = 2
  StaleReference = 4
  MaxVenueSkew = 1
  MaxPublicationSkew = 1
  MaxPythAge = 4
  MaxErapiAge = 3
  PublishInterval = 2
  MaxSilence = 1
  Grace = 0
  ChannelCap = 1
  Rosters <- SomeRosters
  Offsets <- SomeOffsets
  MaxStep = 1
  SessionClosed <- LateWeek
  Claims <- SomeClaims
  NoStamp = NoStamp
  MaxClock = 5
  MaxStarts = 2
  Capacity = 3
  DrainCap = 2
  MaxFlaps = 2
  MaxOutages = 1
  MaxKills = 1
  Pairs = {p, q}
  Owners = {a, b}
  MaxFaults = 3
  MaxJoins = 2
  Gone = Gone
INVARIANTS
  FeedGuardsHold
  FeedAgesHold
  PushHealthIsSound
  CompleteMeansGone
PROPERTIES
  DeadLinksAreShown
  RetriesEnd
CHECK_DEADLOCK FALSE
