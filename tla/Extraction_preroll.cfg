SPECIFICATION ProbedSpec
CONSTANTS
  Requests <- PrerollRequest
  Jobs <- PrerollJob
  Contents <- WholeTrack
  Faults = {}
  U64Max = 400000000
  I64Max = 200000000
  I128Max = 1000000000
  MaxOutputBytes = 320000
PROPERTY
  PrerollIsNoError
