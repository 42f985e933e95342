SPECIFICATION BoundedSpec
CONSTANTS
  Echo = {"a", "b", "bad"}
  ValidEcho = {"a", "b"}
  Stage = {"probe", "preview"}
  Total = 2
  MaxSequence = 5
INVARIANTS
  TranscriptRules
  ProgressNeverRegresses
  LossIsDetected
CHECK_DEADLOCK FALSE
