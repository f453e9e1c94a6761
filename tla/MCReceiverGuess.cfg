SPECIFICATION Spec
CONSTANTS
  Ids <- MCIds
  NoId = NoId
  Unseen = TRUE
  b1 = b1
  b2 = b2
  b3 = b3
  lookup = lookup
  render = render
  r1 = r1
  r2 = r2
  r3 = r3
  certPem = certPem
  keyPem = keyPem
  otherKey = otherKey
  prodPem = prodPem
  dotEnv = dotEnv
  k1 = k1
  k2 = k2
  NoSubject = NoSubject
  NoTool = NoTool
  NoBlock = NoBlock
  TreePaths <- Tree
  KindOf <- MCKindOf
  DirOf <- MCDirOf
  TestDirs = {"tests"}
  Keys = {k1, k2}
  Absent = Absent
  Blocks <- MCBlocks
  Subjects = {"name", "mode"}
  FirstParam = "name"
  Literals = {"read", "write", "list"}
  Functions <- MCFunctions
  CalledAs <- MCCalledAs
  Returns = {r1, r2, r3, "l", "i"}
INVARIANTS
  OnlyRequestsAreReported
CHECK_DEADLOCK FALSE
