SPECIFICATION MCSpec
CONSTANTS
  U32 = 16
  DEFAULT_PACKET_SIZE = 3
  MaxTotalChunks = 10
  SenderFiles <- MCFiles
  Bytes <- MCBytes
INVARIANTS
  FileRebuilt
  NakEndsInChunk
  OneByteDetected
CHECK_DEADLOCK FALSE
