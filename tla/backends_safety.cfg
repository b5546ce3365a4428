CONSTANTS
  r1 = r1
  r2 = r2
  Readers <- TwoReaders
  MaxContexts = 3
  MaxEnumerations = 3
SPECIFICATION Spec
SYMMETRY ReaderSymmetry
INVARIANTS
  TypeOK
  PcscResourcesOwned
  CardsSound
PROPERTY ConnectionsEndWithContext
CHECK_DEADLOCK FALSE
