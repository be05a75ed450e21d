SPECIFICATION MCSpec
CONSTANTS
  InteractiveCaches = {"ia", "ib"}
  BackgroundCaches = {"bg"}
  Budget = 3
  Sizes = {1, 2}
  Programs <- MCPrograms
  Requests = {"r1", "r2"}
  WithTools = {"r2"}
  MaxLines <- MCLines
  None = None
  Helpers = {"absent", "shipped", "rogue"}
  EncodedSizes = {0, 2}
  Outputs = {0, 2, 3}
  MaxDecoded = 2
  PipeRoom = 1
INVARIANTS KvInv AnswerWhole  DecodeClean
PROPERTIES EvictionsRight  CutEnds DecodeReturns
CHECK_DEADLOCK FALSE
