CONSTANTS
  t1 = t1
  t2 = t2
  Threads <- TwoThreads
  Auths <- AllAuths
  MayFail = TRUE
SPECIFICATION Spec
SYMMETRY ThreadSymmetry
INVARIANTS
  TypeOK
  AcceptedMeansVerified
  WrongOnlyIfDisturbed
CHECK_DEADLOCK FALSE
