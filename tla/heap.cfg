SPECIFICATION Spec
CONSTANTS
  A1 = A1
  A2 = A2
  A3 = A3
  Objects <- MCObjects
  Names <- MCNames
  Nil = Nil
  Threshold = 0
  MaxStack = 2
  MaxVMs = 2
  MaxItems = 2
  MaxHidden = 1
  Risks = {}
SYMMETRY Addresses
INVARIANTS CursorAlive
PROPERTIES KeepsMemory LeavesNoGarbage CollectionAdvances
