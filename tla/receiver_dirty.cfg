SPECIFICATION Spec
CONSTANTS
  f = f
  g = g
  junk = junk
  name = name
  other = other
  Files <- MCFiles
  FileLen <- MCFileLen
  Payload <- MCPayload
  Blank = Blank
  ChunkSize = 2
  Names = {name, other}
  UnsafeNames = {other}
  Tids = {1, 2}
  NoJournal = NoJournal
  CorruptJournal = CorruptJournal
  NoTransfer = NoTransfer
  UINT32_MAX = UINT32_MAX
  MaxToSender = 1
  MaxToReceiver = 1
  IoErrors = FALSE
  PowerCuts = FALSE
  Senders = {"one"}
  Says <- SaysDirty
INVARIANTS
  JournalMirrorsMemory
PROPERTIES
  FinalAckOnlyVerified
  NakOnlyMissing
  RejectsOnlyDamaged
  ProgressSurvives
