SPECIFICATION Spec
CONSTANTS
  Requests <- GoodProbe
  Environments <- Ready
  Lines <- HostLine
  HashChunks = 1
  StagingFaults = {"reopen"}
  StdoutMayFail = FALSE
INVARIANT
  FailedNeverCarriesCancelled
