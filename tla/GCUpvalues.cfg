CONSTANTS
  Tables = {reg, glob}
  Udatas = {}
  Functions = {f1, f2}
  Strings = {}
  Upvals = {v1}
  Threads = {main, th1}
  MainThread = main
  Registry = reg
  Globals = glob
  Slots = {l_gt, r1}
  GlobalSlot = l_gt
  NoObj = NoObj
  ModeField <- MCModeField
  Hash <- MCHash
  HasGC = {}
  WeakKeys = {}
  WeakValues = {}
  Odd = {}
  MinStrTabSize = 1
  MaxEntries = 1
  MaxFields = 1
  Operations = {"Capture", "NewThread", "Load", "SetUpval", "CloseUpvals", "Resume", "StoreInThread"}
  AsKeys = {}
  Made = {}
SPECIFICATION Spec
SYMMETRY MCSymmetry

INVARIANT IInv
PROPERTY CollectorInvisible
