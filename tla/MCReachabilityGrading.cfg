SPECIFICATION GradingSpec
CONSTANTS
  handler = handler
  helper = helper
  main = main
  double = double
  server = server
  testpy = testpy
  script = script
  ModuleLevel = ModuleLevel
  WholeFile = WholeFile
  Names = {"handler", "main", "run"}
  Files = {server, testpy}
  MaxDepth = 2
  Funcs <- MCFuncs
  NameOf <- MCNameOf
  FileOf <- MCFileOf
  Encl <- MCEncl
  PossibleSites <- MCSites
  TestFiles <- MCTestFiles
  Findings <- MCFindings
INVARIANTS
  WalkCorrect
  CallersOfUnreachedAreUnreached
  ChainNeverToolDescended
  EvidenceIsACallPath
PROPERTIES
  GradesAsPromised
CHECK_DEADLOCK FALSE
