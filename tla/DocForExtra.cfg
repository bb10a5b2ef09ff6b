CONSTANTS
  MAXINDEXRK = 3
  LFIELDS_PER_FLUSH = 2
  Sources <- MCSources
  Families = {"extra"}
  MAXTAGLOOP = 4
  MaxTruncated = 0
SPECIFICATION Spec
INVARIANT SameAsReference
CHECK_DEADLOCK FALSE
