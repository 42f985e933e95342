SPECIFICATION Spec
CONSTANTS
  Requests <- GoodProbe
  Environments <- NoFingerprint
  Lines <- NoLine
  HashChunks = 1
  StagingFaults = {}
  StdoutMayFail = FALSE
INVARIANT
  NoResultWithoutFingerprint
