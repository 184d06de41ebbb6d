CONSTANTS
  BlockSizeLimit = 2
  WindowSize = 3
  CompressBound <- MCCompressBound
  Chunks <- MCChunks
  Rooms <- MCRooms

SPECIFICATION FairSpec

INVARIANTS
  TypeOK
  BlockFits
  ClosedFrameIsEmpty

PROPERTIES
  ImplementsPipe
  CallReturns
