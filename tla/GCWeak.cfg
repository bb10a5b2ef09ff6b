CONSTANTS
  Tables = {reg, glob, wk, wv}
  Udatas = {u1}
  Functions = {}
  Strings = {s1}
  Upvals = {}
  Threads = {main}
  MainThread = main
  Registry = reg
  Globals = glob
  Slots = {l_gt, r1}
  GlobalSlot = l_gt
  NoObj = NoObj
  ModeField <- MCModeField
  Hash <- MCHash
  HasGC = {wk, wv}
  WeakKeys = {wk}
  WeakValues = {wv}
  Odd = {}
  MinStrTabSize = 1
  MaxEntries = 1
  MaxFields = 1
  Operations = {"NewUdata", "NewString", "SetTable"}
  AsKeys = {u1, s1}
  Made = {wk, wv}
SPECIFICATION MCWeakSpec
SYMMETRY MCSymmetry
ACTION_CONSTRAINT MadeUnnamed
INVARIANT IInv
PROPERTY CollectorInvisible
