SPECIFICATION Spec
CONSTANTS
  erase = erase
  put = put
  wipe = wipe
  storePut = storePut
  storePost = storePost
  storeRemove = storeRemove
  opsPost = opsPost
  clientPut = clientPut
  dispatch = dispatch
  server = server
  ops = ops
  b1 = b1
  b2 = b2
  b3 = b3
  b4 = b4
  b5 = b5
  NoClass = NoClass
  NoId = NoId
  External = External
  NoSubject = NoSubject
  NoTool = NoTool
  NoBlock = NoBlock
  Files = {server, ops}
  Module <- MCModule
  Dir <- MCDir
  Funcs <- MCFuncs
  Sections <- MCBlocks
  Blocks <- MCBlocks
  FileOf <- MCFileOf
  NameOf <- MCNameOf
  ClassOf <- MCClassOf
  ClassNames <- MCClassNames
  Ids <- MCIds
  SinkModules = {"os", "subprocess"}
  ExactSinks <- MCExactSinks
  ArgvSinks <- MCArgvSinks
  ShortSinks = {"run", "post", "put", "remove"}
  Subjects = {"name", "mode"}
  FirstParam = "name"
  Literals = {"put_x", "get_x", "list_x"}
  Tools = {erase}
  Handler = dispatch
  VerbNames = {"put_x"}
  WindowMax = 1
  Worlds <- MCWorlds
  Confusable = FALSE
INVARIANTS
  CreditRestsOnAGate
  UngatedSinkIsReported
  BranchSinkIsReported
  JsLinesCountOnce
CHECK_DEADLOCK FALSE
