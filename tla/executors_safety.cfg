CONSTANTS
  a1 = a1
  a2 = a2
  NoThread = NoThread
  App <- TwoApps
  MaxStarts = 2
  UidModulus = 3
  MutexTypes <- AllMutexTypes
  CallbackOps <- AllCallbackOps
SPECIFICATION Spec
INVARIANTS
  TypeOK
  TableGuarded
  NoOrphan
  DeinitQuiesces
  PromotionSucceeds
PROPERTY ImplementsService
SYMMETRY AppSymmetry
CHECK_DEADLOCK FALSE
