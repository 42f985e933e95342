SPECIFICATION ProbedSpec
CONSTANTS
  Requests <- ProbedInputs
  Jobs <- EveryJob
  Contents <- EveryContent
  Faults <- EveryFault
  U64Max = 400000000
  I64Max = 200000000
  I128Max = 1000000000
  MaxOutputBytes = 320000
INVARIANTS
  TypeOK
  OutputIsNeverPartial
  ManifestMatchesFiles
  OutputIsBounded
  StaysInRequestedWindow
  ProbedTimesAreExact
  TrackStartIsTruthful
PROPERTIES
  FailuresAreForeseen
  ExactTrackIsPublished
