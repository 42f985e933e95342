SPECIFICATION FairSpec
CONSTANTS
  Requests <- EchoableRequest
  Environments <- Toolchains
  Lines <- HostLine
  HashChunks = 1
  StagingFaults = {"open"}
  StdoutMayFail = FALSE
PROPERTIES
  StreamIsValid
  ViolationIsNeverOutranked
  DeadlineIsNeverOutranked
  InterruptNeverCompletes
  Terminates
  InterruptStopsTheRun
