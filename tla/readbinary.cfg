CONSTANTS
  Page = 2
  ByteRange = 8
  SfiOffset = 8
  OffsetRange = 16
  MaxLength = 11
  MaxOffset = 18
  Requests <- AnyRequest
  Other = Other
SPECIFICATION FairSpec
INVARIANTS
  TypeOK
  InOrder
PROPERTIES
  ReadsWholeFile
  Terminates
CHECK_DEADLOCK FALSE
