SPECIFICATION Spec
CONSTANTS
  Requests <- EveryRequest
  Environments <- EveryEnvironment
  Lines <- EveryLine
  HashChunks = 1
  StagingFaults = {"open", "reopen"}
  StdoutMayFail = TRUE
INVARIANTS
  TypeOK
  HostCanTrustExit
  TimeoutNeedsDeadline
  ToolRunsOnVerifiedInput
  NoTerminalWhileToolRuns
  InterruptionHasACause
