SPECIFICATION GrantsSpec
CONSTANTS
  Threads = {"t1", "t2"}
  Capabilities = {"generate"}
  MaxCrashes = 0
  MaxFailures = 0
INVARIANTS RevokedIsForgotten
