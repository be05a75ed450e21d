SPECIFICATION Spec
CONSTANTS
  Sessions = {"sa", "sb", "sc", "sd"}
  MaxSessions = 2
INVARIANTS LimitHolds
CHECK_DEADLOCK FALSE
