CONSTANTS
  Inputs <- AsnInputs
  Tags = {4, 49, 16177}
  SizeBytes = 2
  SizeT = 65536
  MaxArray = 32768
  Arrays = {a1, a2}
  Blocks = {b1, b2, b3}
  NullBlock = null
  Data <- ExternalBytes
  MaxSize = 2
  SliceSizes = {0, 1, 7}
  BaSizeT = 8
  Texts <- HexTexts
  Dumped <- DumpedBytes
  Noted <- NotedDigits
  HexSizeT = 4096
  Messages <- PaddedMessages
  PadSizes = {0, 1, 2, 3, 4, 5, 6}
  Paddings <- ReceivedPaddings
  RandomBytes = {0, 9}
  PadSizeT = 4096
  NameLengths <- Readers
  Sizes = {0, 1, 2, 3, 4, 5, 6, 7, 8, 9, 10, 11, 12, 13, 14}
  Sods <- VerifiedSods
  HashSets <- FileHashes
  Missing = missing
  Malformed = malformed
SPECIFICATION FairSpec
INVARIANTS
  MemoryTypeOK
  AsnNested AsnSlices AsnCovers AsnStraysOnlyIfTruncated AsnRoundTrip
  OwnedOnce OnlyMovesLeak BreaksOnOwnView
  HexRoundTrip HexNotations
  PadInverse PadLengths
  ListInPlace AllocatedListFits OnlyLastNameCut
  AcceptedIsSigned GenuineIsAccepted
PROPERTIES AsnTerminates OthersUnchanged
CHECK_DEADLOCK FALSE
