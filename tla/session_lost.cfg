CONSTANTS
  t1 = t1
  t2 = t2
  Threads <- OneThread
  Auths <- NoAuth
  MayFail = TRUE
SPECIFICATION Spec
INVARIANT NisOrEmpty
CHECK_DEADLOCK FALSE
