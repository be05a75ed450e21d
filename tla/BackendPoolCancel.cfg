SPECIFICATION PoolSpec
CONSTANTS
  Sessions = {"sa", "sb"}
  MaxInstances = 2
  MaxRequests = 1
PROPERTIES CancelHitsOwn
CHECK_DEADLOCK FALSE
