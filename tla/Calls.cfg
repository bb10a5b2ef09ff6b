CONSTANTS
  Coroutines = {co1, co2}
  co1 = co1
  co2 = co2
  MainThread = m
  LUAI_MAXCCALLS = 3
  ErrorCCalls = 1
  LUAI_MAXCALLS = 5
  LUAI_MAXCSTACK = 3
  BASIC_CI_SIZE = 2
  LUA_MINSTACK = 2
  EXTRA_STACK = 5
  LuaFunctions <- MCFunctions
  Handlers <- MCHandlers
  NArgs = {1}
  NResults <- MCNResults
  Programs <- MCPrograms
  MaxDepth = 4
  MaxDepthOverflow = 6
SPECIFICATION Spec
CONSTRAINT Bound
INVARIANTS TypeOK ActivationsAgree  ThrowLands ErrorsRestore
PROPERTY ImplementsCoroutines
