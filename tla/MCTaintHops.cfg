SPECIFICATION Spec
CONSTANTS
  handle = handle
  step = step
  x = x
  y = y
  fa = fa
  fb = fb
  fc = fc
  p = p
  q = q
  ModuleLevel = ModuleLevel
  Names = {"handle", "step", "x", "y"}
  Files = {fa, fb, fc}
  Params = {p, q}
  HopBudget = 2
  Handlers = {handle, x}
  Funcs <- MCFuncs
  NameOf <- MCNameOf
  FileOf <- MCFileOf
  Encl <- MCEncl
  ParamsOf <- MCParamsOf
  FuncSeq <- MCFuncSeq
  Imports <- MCImports
  Programs <- MCPrograms
INVARIANTS
  TwoHopsFollowed
CHECK_DEADLOCK FALSE
