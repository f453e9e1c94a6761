SPECIFICATION Spec
CONSTANTS
  method = method
  search = search
  admin = admin
  public = public
  server = server
  tools = tools
  frontend = frontend
  Manifest = Manifest
  JsFiles = {frontend}
  ModuleLevel = ModuleLevel
  NoNode = NoNode
  Names = {"find", "fetch", "serve"}
  Files = {server, tools}
  Funcs <- MCFuncs
  NameOf <- MCNameOf
  FileOf <- MCFileOf
  Encl <- MCEncl
  TestFiles = {}
  PossibleSites <- MCSites
  PossibleImports <- MCImports
  PossibleDecos <- MCDecos
  PossibleCalls <- MCCalls
  PossibleTools <- MCTools
  PossibleBindings <- MCBindings
  Methods <- MCMethods
INVARIANTS
  NoDowngradeOfToolCode
CHECK_DEADLOCK FALSE
