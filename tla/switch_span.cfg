SPECIFICATION Spec
CONSTANTS
  Byte = 5
  Word = 64
  Switches <- MCDistinctSwitches
  Pools <- MCPools
  Targets <- MCTargets
  MCKeys = {1, 2, 4, 5, 6, 9}
  MCLens = {1}
INVARIANTS
  DispatchReachesCase
