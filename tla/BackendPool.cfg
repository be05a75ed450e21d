SPECIFICATION FairPoolSpec
CONSTANTS
  Sessions = {"sa", "sb"}
  MaxInstances = 2
  MaxRequests = 2
INVARIANTS PoolInv
PROPERTIES DeadIsReported
CHECK_DEADLOCK FALSE
