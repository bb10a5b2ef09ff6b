CONSTANTS
  Tables = {reg, glob}
  Udatas = {}
  Functions = {f1, f2}
  Strings = {}
  Upvals = {v1}
  Threads = {main}
  MainThread = main
  Registry = reg
  Globals = glob
  Slots = {l_gt, r1, r2}
  GlobalSlot = l_gt
  NoObj = NoObj
  ModeField <- MCModeField
  Hash <- MCHash
  HasGC = {}
  WeakKeys = {}
  WeakValues = {}
  Odd = {}
  MinStrTabSize = 1
  MaxEntries = 1
  MaxFields = 1
  Operations = {"Move", "Capture", "Load", "CloseUpvals"}
  AsKeys = {}
  Made = {}
SPECIFICATION DebugSpec
SYMMETRY MCSymmetry

INVARIANT CheckLiveness
