SPECIFICATION Spec
CONSTANTS
  NumFuncs = 1
  Main = 1
  Funcs <- MCFuncs
  ErrTypes <- MCErrTypes
  Warnings = {"Warning"}
  Parent <- MCParent
  StackLimit = 20
  Programs = {}
  Kinds = {"let", "use", "assign", "if", "elif", "else", "while", "for", "foreach", "skip", "do", "switch", "case", "break", "continue"}
  Risks = {"let_without_value"}
  ThrowTypes = {"MathError"}
  CatchTypes <- MCCatchTypes
  MaxStmts = 3
  MaxNest = 2
  MaxClauses = 2
INVARIANTS
  StackDiscipline
  LexicalAddressing
  NeverUndefined
