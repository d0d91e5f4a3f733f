SPECIFICATION Spec
CONSTANTS
  Texts <- MCTexts
  Arity <- MCArity
  MaxClasses = 4
  MaxObjects = 1
  MaxDepth = 3
  Blocks = {"A"}
  Risks = {}
VIEW State
PROPERTIES
  KeepsClasses
CHECK_DEADLOCK FALSE
