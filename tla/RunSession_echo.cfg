SPECIFICATION Spec
CONSTANTS
  Requests <- ContextOnly
  Environments <- Ready
  Lines <- NoLine
  HashChunks = 1
  StagingFaults = {}
  StdoutMayFail = FALSE
INVARIANT
  EchoIsValid
