CONSTANTS
  Clients = {c1, c2}
  VisibilityTimeout = 1
  MaxInt = 11
  Faults = {}
  MaxPushes = 1
  MaxPulls = 1
  Horizon = 2
SPECIFICATION FairSpec
PROPERTIES
  DeleteEnds
CHECK_DEADLOCK FALSE
