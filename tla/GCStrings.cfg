CONSTANTS
  Tables = {reg, glob}
  Udatas = {}
  Functions = {f1}
  Strings = {s1, s2}
  Upvals = {}
  Threads = {main}
  MainThread = main
  Registry = reg
  Globals = glob
  Slots = {l_gt, r1}
  GlobalSlot = l_gt
  NoObj = NoObj
  ModeField <- MCModeField
  Hash <- MCHash
  HasGC = {}
  WeakKeys = {}
  WeakValues = {}
  Odd = {s2}
  MinStrTabSize = 1
  MaxEntries = 1
  MaxFields = 1
  Operations = {"NewString", "NewFunction", "SetField", "SetTable", "FullGC"}
  AsKeys = {}
  Made = {}
SPECIFICATION Spec
SYMMETRY MCSymmetry
ACTION_CONSTRAINT RegistryConstant
INVARIANTS TypeOK CheckLiveness 
