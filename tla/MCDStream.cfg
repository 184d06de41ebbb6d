CONSTANTS
  Frames <- MCFrames
  HeaderMin = 1
  BlockHeaderSize = 1
  ChecksumSize = 1
  BlockSizeLimit = 2
  WindowMin = 1
  Overlength = 0
  NoForwardProgressMax = 3
  Chunks <- MCChunks
  Rooms <- MCRooms

SPECIFICATION FairSpec

INVARIANTS
  TypeOK
  BuffersIntact

PROPERTIES
  ImplementsPipe
  CallReturns

\* A decoder that has failed is not called again.
CHECK_DEADLOCK FALSE
