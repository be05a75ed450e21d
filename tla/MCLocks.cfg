SPECIFICATION MCSpec
CONSTANTS
  Users = {"u1", "u2"}
  Janitor = "janitor"
  Models = {"m1", "m2"}
  Contexts = {1, 2}
  MaxTimeouts = 2
  Threads = {"t1", "t2"}
  Capabilities = {"generate"}
  MaxCrashes = 1
  MaxFailures = 1
INVARIANTS RepliesAccounted LoadedIsBacked GrantsInv SavedIsWhole
