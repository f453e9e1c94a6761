SPECIFICATION Spec
CONSTANTS
  server = server
  testpy = testpy
  spects = spects
  dotenv = dotenv
  sinks = sinks
  hygiene = hygiene
  FileSeq <- MCFileSeq
  PyFiles = {server, testpy}
  TestFiles = {testpy, spects}
  Tracked = {dotenv}
  Outcomes <- MCOutcomes
  Detectors <- MCDetectors
  Reports <- MCReports
INVARIANTS
  TypeOK
  CrashedPassLeavesNoTrace
  GateCatchesToolReachable
  DataflowHasLastWord
  GradeMatchesAxes
PROPERTIES
  NothingDropped
  ScanCompletes
CHECK_DEADLOCK FALSE
