SPECIFICATION CompileOnly
CONSTANTS
  NumFuncs = 2
  Main = 2
  Funcs <- MCFuncs
  ErrTypes <- MCErrTypes
  Warnings = {"Warning"}
  Parent <- MCParent
  StackLimit = 2
  Programs = {}
  Kinds = {"let", "use", "assign", "if", "elif", "else", "while", "for", "foreach", "skip", "do", "switch", "case", "break", "continue", "eval", "assert", "call", "throw", "return", "try", "catch", "finally"}
  Risks = {"return_in_try", "call_owing_finally", "error_in_catch", "finally_without_catch_all", "return_skipping_finally", "let_without_value"}
  ThrowTypes = {"MathError"}
  CatchTypes <- MCCatchTypes
  MaxStmts = 3
  MaxNest = 2
  MaxClauses = 1
INVARIANTS
  CompilesToVerified
