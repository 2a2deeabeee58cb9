SPECIFICATION Spec
CONSTANTS
  Pairs = {p}
  Owners = {a}
  MaxFaults = 1
  MaxJoins = 1
  Gone = Gone
PROPERTIES
  PartialTeardownResumes
CHECK_DEADLOCK FALSE
