SPECIFICATION Spec
CONSTANTS
  NumFuncs = 2
  Main = 2
  Funcs <- MCFuncs
  ErrTypes <- MCErrTypes
  Warnings = {"Warning"}
  Parent <- MCParent
  StackLimit = 2
  Programs = {}
  Kinds = {"eval", "call", "try", "finally", "catch"}
  Risks = {"call_owing_finally"}
  ThrowTypes = {"MathError"}
  CatchTypes <- MCCatchTypes
  MaxStmts = 3
  MaxNest = 2
  MaxClauses = 2
INVARIANTS
  FinallyAlwaysRuns
