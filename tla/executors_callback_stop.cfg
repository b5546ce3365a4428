CONSTANTS
  a1 = a1
  a2 = a2
  NoThread = NoThread
  App <- OneApp
  MaxStarts = 1
  UidModulus = 2
  MutexTypes <- Recursive
  CallbackOps <- StopInCallback
SPECIFICATION FairSpec
PROPERTY MutexReleased
CHECK_DEADLOCK FALSE
