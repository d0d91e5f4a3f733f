SPECIFICATION FairSpec
CONSTANTS
  NumFuncs = 2
  Main = 2
  Funcs <- MCFuncs
  ErrTypes <- MCErrTypes
  Warnings = {"Warning"}
  Parent <- MCParent
  StackLimit = 2
  Programs = {}
  Kinds = {"let", "use", "eval", "call", "throw", "return", "try", "catch", "finally"}
  Risks = {"return_in_try", "call_owing_finally", "error_in_catch", "finally_without_catch_all", "return_skipping_finally", "let_in_try", "let_without_value", "busy_finally", "return_from_inner_scope"}
  ThrowTypes = {"MathError", "Warning"}
  CatchTypes <- MCCatchTypes
  MaxStmts = 3
  MaxNest = 2
  MaxClauses = 1
INVARIANTS
  VMTypeOK
PROPERTIES
  ProgramsEnd
