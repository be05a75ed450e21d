SPECIFICATION FairCancelSpec
CONSTANTS
  MaxTurns = 1
  MaxQueue = 1
  MaxCalls = 0
PROPERTIES CloseStops
CHECK_DEADLOCK FALSE
