SPECIFICATION Spec
CONSTANTS
  Byte = 5
  Word = 64
  Switches <- MCSwitches
  Pools <- MCPools
  Targets <- MCTargets
  MCKeys = {1, 2, 4, 5, 6, 9}
  MCLens = {1, 3}
INVARIANTS
  DispatchReachesCase
