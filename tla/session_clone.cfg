CONSTANTS
  t1 = t1
  t2 = t2
  Threads <- OneThread
  Auths <- InternalAuth
  MayFail = TRUE
SPECIFICATION Spec
INVARIANT CloneDetected
CHECK_DEADLOCK FALSE
