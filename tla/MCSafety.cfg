SPECIFICATION MCSpec
CONSTANTS
  MaxToolCalls = 3
  MaxFrames = 3
  MaxRequests = 5
  Batches <- MCBatches
  AttachSizes = {0, 2, 3}
  MaxBytes = 2
  MaxHeld = 1
  Evictions = TRUE
  MaxEvents = 3
  Starts <- MCStarts
  Meters = {"s1", "s2", "s3"}
  Narrowed = {"s2"}
  LocalModel = {"s3"}
  Rate = 4
  NarrowRate = 2
  Ceiling = 3
  Reserve = 2
  Actuals = {0, 3}
  SpendWindow = 2
  TicksPerMinute = 2
  MaxTime = 2
  MaxTurns = 3
  Writers = {"w1", "w2"}
  MaxRecords = 3
  MaxFaults = 1
  Installs = {"i1", "i2", "i3"}
  JobOf <- MCJobOf
  Remote = "remote"
  Junk = "junk"
  Nothing = Nothing
  Removals = 3
  AppIds = {"", "org.a", "org.b"}
  MaxStarts = 3
  Wildcards = FALSE
INVARIANTS WireInOrder PendingExact  RelayedWhole   ChainSound TamperEvident BlobsMatchDigest  ConversionsExact  OnlyTakesAway DecoderExact VouchesForOne
PROPERTIES NoHalfAnswered
CHECK_DEADLOCK FALSE
