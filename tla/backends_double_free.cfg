CONSTANTS
  r1 = r1
  r2 = r2
  Readers <- OneReader
  MaxContexts = 2
  MaxEnumerations = 2
SPECIFICATION Spec
INVARIANT ListFreedOnce
CHECK_DEADLOCK FALSE
