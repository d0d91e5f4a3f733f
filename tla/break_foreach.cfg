SPECIFICATION Spec
CONSTANTS
  NumFuncs = 1
  Main = 1
  Funcs <- MCFuncs
  ErrTypes <- MCErrTypes
  Warnings = {"Warning"}
  Parent <- MCParent
  StackLimit = 2
  Programs = {}
  Kinds = {"use", "foreach", "break", "for"}
  Risks = {"break_foreach"}
  ThrowTypes = {"MathError"}
  CatchTypes <- MCCatchTypes
  MaxStmts = 4
  MaxNest = 1
  MaxClauses = 2
INVARIANTS
  LexicalAddressing
