SPECIFICATION FairSpec
CONSTANTS
  Written = {"start", "cancel", "foreign_cancel", "space", "newline", "illegal"}
  Cap = 2
  Chunk = 2
  PipeSize = 2
  MaxBytes = 6
INVARIANTS
  TypeOK
  OnlyAWholeLineCancels
PROPERTIES
  ImplementsLines
  EveryLineIsHandled
  EndlessLineIsRefused
CHECK_DEADLOCK FALSE
