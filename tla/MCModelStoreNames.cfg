SPECIFICATION StoreSpec
CONSTANTS
  Installs = {"i1", "i2"}
  JobOf <- MCJobOf
  Remote = "remote"
  Junk = "junk"
  Nothing = Nothing
  Removals = 0
INVARIANTS BlobsMatchDigest
CHECK_DEADLOCK FALSE
