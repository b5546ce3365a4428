CONSTANTS
  a1 = a1
  a2 = a2
  NoThread = NoThread
  App <- TwoApps
  MaxStarts = 1
  UidModulus = 2
  MutexTypes <- Recursive
  CallbackOps <- NoCallbackOps
SPECIFICATION FairSpec
PROPERTIES
  MutexReleased
  StopTakesEffect
CHECK_DEADLOCK FALSE
