CONSTANTS
  Tables = {reg, glob, t1}
  Udatas = {}
  Functions = {}
  Strings = {}
  Upvals = {}
  Threads = {main}
  MainThread = main
  Registry = reg
  Globals = glob
  Slots = {l_gt, r1}
  GlobalSlot = l_gt
  NoObj = NoObj
  ModeField <- MCModeField
  Hash <- MCHash
  HasGC = {}
  WeakKeys = {}
  WeakValues = {}
  Odd = {}
  MinStrTabSize = 1
  MaxEntries = 1
  MaxFields = 1
  Operations = {"NewTable", "SetTable", "SetTableMeta", "SetBasicMeta", "Load"}
  AsKeys = {}
  Made = {}
SPECIFICATION Spec
SYMMETRY MCSymmetry
ACTION_CONSTRAINT RegistryConstant
INVARIANTS CheckLiveness TriColor GrayLists Remarked
