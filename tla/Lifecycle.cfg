SPECIFICATION FairSpec
CONSTANTS
  Sessions = {"sa", "sb", "sc"}
  MaxSessions = 2
INVARIANTS LifecycleInv
 
CHECK_DEADLOCK FALSE
