SPECIFICATION Spec
CONSTANTS
  Names <- MCNames
  Builtins <- MCBuiltins
  Funcs <- MCFuncs
  Params <- MCParams
  Defaults <- MCDefaults
  Rest = {"many"}
  Natives = {"print"}
  Cached = {"real", "optional"}
  Reading = {"optional"}
  Literals <- MCLiterals
  ArgLists <- MCArgLists
  Observed = "a"
  Nobody = "nobody"
  MaxLines = 4
  Risks = {}
INVARIANTS
  CacheCurrent
PROPERTIES
  KeepsPromise
  FlagsHold
CHECK_DEADLOCK FALSE
