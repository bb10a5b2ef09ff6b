CONSTANTS
  Tables = {reg, glob}
  Udatas = {u1}
  Functions = {}
  Strings = {}
  Upvals = {}
  Threads = {main}
  MainThread = main
  Registry = reg
  Globals = glob
  Slots = {l_gt, r1}
  GlobalSlot = l_gt
  NoObj = NoObj
  ModeField <- MCModeField
  Hash <- MCHash
  HasGC = {glob}
  WeakKeys = {}
  WeakValues = {}
  Odd = {}
  MinStrTabSize = 1
  MaxEntries = 1
  MaxFields = 1
  Operations = {"Move", "NewUdata", "SetUdataMeta", "SetUdataEnv", "SetTable", "SetGlobals", "Load"}
  AsKeys = {}
  Made = {}
SPECIFICATION FairSpec

ACTION_CONSTRAINT RegistryConstant
PROPERTY CycleEnds
