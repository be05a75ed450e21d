SPECIFICATION AlgorithmsSpec
CONSTANTS
  Wildcards = TRUE
INVARIANTS OnlyTakesAway
CHECK_DEADLOCK FALSE
