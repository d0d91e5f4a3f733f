SPECIFICATION Spec
CONSTANTS
  MaxInt = 9
  Exact = 8
  MaxStmts = 4
  Consts <- MCConsts
  Statements <- MCStatements
  Preamble <- MCPreamble
  Risks = {}
INVARIANTS
  KnowledgeSound
PROPERTIES
  ImplementsSource
CHECK_DEADLOCK FALSE
