SPECIFICATION FairSpec
CONSTANTS
  WORD = 64
  MaxObject = 16
  FirstSize = 2
  Bytes <- MCBytes
  Chunks <- MCChunks
INVARIANTS
  TypeOK
  RoomForChunk
  HoldsText
PROPERTIES
  CallsReturn
CHECK_DEADLOCK FALSE
