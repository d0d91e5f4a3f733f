SPECIFICATION Spec
CONSTANTS
  NumFuncs = 2
  Main = 2
  Funcs <- MCFuncs
  ErrTypes <- MCErrTypes
  Warnings = {"Warning"}
  Parent <- MCParent
  StackLimit = 2
  Programs = {}
  Kinds = {"let", "call", "throw", "return", "try", "catch", "finally"}
  Risks = {"return_in_try"}
  ThrowTypes = {"MathError"}
  CatchTypes <- MCCatchTypes
  MaxStmts = 3
  MaxNest = 2
  MaxClauses = 2
INVARIANTS
  HandlersFollowText
  FinallyAlwaysRuns
  PendingReturnOwned
