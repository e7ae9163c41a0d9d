SPECIFICATION Spec
CONSTANTS
  f = f
  g = g
  junk = junk
  name = name
  other = other
  Files <- MCFiles
  FileLen <- MCFileLen
  Payload <- MCPayload
  Blank = Blank
  ChunkSize = 2
  Names = {name}
  UnsafeNames = {}
  Tids = {1}
  NoJournal = NoJournal
  CorruptJournal = CorruptJournal
  NoTransfer = NoTransfer
  UINT32_MAX = UINT32_MAX
  MaxToSender = 1
  MaxToReceiver = 1
  IoErrors = TRUE
  PowerCuts = TRUE
  Senders = {"one"}
  Says <- SaysOne

  
PROPERTIES
  NakOnlyMissing
