CONSTANTS
  a1 = a1
  a2 = a2
  NoThread = NoThread
  App <- OneApp
  MaxStarts = 1
  UidModulus = 2
  MutexTypes <- Glibc
  CallbackOps <- NoCallbackOps
SPECIFICATION FairSpec
PROPERTY ReadNisReturns
CHECK_DEADLOCK FALSE
