CONSTANTS
  MAXINDEXRK = 3
  LFIELDS_PER_FLUSH = 2
  Sources <- MCSources
  Families = {"conditions", "operators", "loops", "assignments", "functions", "errors", "metamethods", "caches"}
  MAXTAGLOOP = 4
  MaxTruncated = 30
SPECIFICATION Spec
INVARIANTS SameAsReference AssertionsHold  UndumpsDump FlagsTrue
CHECK_DEADLOCK FALSE
