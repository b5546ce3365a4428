CONSTANTS
  r1 = r1
  r2 = r2
  Readers <- OneReader
  MaxContexts = 1
  MaxEnumerations = 2
SPECIFICATION Spec
INVARIANT HandlesValidUntilDeinit
CHECK_DEADLOCK FALSE
