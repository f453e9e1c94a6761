SPECIFICATION Spec
CONSTANTS
  a = a
  b = b
  c = c
  log = log
  shell = shell
  Sites = {a, b, c}
  Spines = {log, shell}
  DetectSeq <- MCDetectSeq
  SpineOf <- MCSpineOf
  Verdicts = {"confirmed", "false-positive"}
  TopCount = 2
  MaxRank = 2
INVARIANTS
  TypeOK
  IdsUnique
  SoleFindingKeepsVerdict
  AnnotationsAccountedFor
  TopRisksHideNothing
CHECK_DEADLOCK FALSE
