SPECIFICATION Spec
CONSTANTS
  Requests <- GoodProbe
  Environments <- Ready
  Lines <- NoLine
  HashChunks = 1
  StagingFaults = {}
  StdoutMayFail = FALSE
INVARIANT
  CancelledMeansHostCancelled
