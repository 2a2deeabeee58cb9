SPECIFICATION Spec
CONSTANTS
  StaleAfter = 2
  Heartbeat = 1
  MaxConfirm = 1
  Sides = {}
  FaultModels <- NoneLate
PROPERTIES
  EveryHaltGoesDark
CHECK_DEADLOCK FALSE
