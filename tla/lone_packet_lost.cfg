SPECIFICATION FairSpec
CONSTANTS
  f = f
  g = g
  h = h
  junk = junk
  name = name
  other = other
  Files <- MCFiles
  FileLen <- MCFileLen
  Payload <- MCPayload
  Garbage = junk
  Blank = Blank
  ChunkSize = 2
  Names = {name}
  UnsafeNames = {}
  Tids = {1}
  NoJournal = NoJournal
  CorruptJournal = CorruptJournal
  NoTransfer = NoTransfer
  UINT32_MAX = UINT32_MAX
  MaxToSender = 7
  MaxToReceiver = 2
  IoErrors = FALSE
  PowerCuts = FALSE
  Scenarios <- LonePacketLost
PROPERTIES
  ChunkGetsThrough
CHECK_DEADLOCK FALSE
