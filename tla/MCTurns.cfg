SPECIFICATION MCSpec
CONSTANTS
  Interactive = {"ia", "ib", "ic"}
  Background = {"bg"}
  MaxInteractive = 2
  MaxBackground = 1
  MaxServed = 1
  MaxTurns = 2
  MaxQueue = 2
  MaxCalls = 1
  BusCalls = {"c1", "c2"}
  Askers = {"s1"}
INVARIANTS SchedulerInv CancelInv
PROPERTIES QuietIsServed BackgroundEnds ImplementsContract   EveryoneAnswered
CHECK_DEADLOCK FALSE
