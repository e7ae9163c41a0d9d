SPECIFICATION Spec
CONSTANTS
  f = f
  g = g
  name = name
  Files <- MCFiles
  FileLen <- MCFileLen
  ChunkSize = 2
  Payload = {}
  Names = {name}
  Tids = {1}
  UINT32_MAX = UINT32_MAX
  NoJournal = NoJournal
  CorruptJournal = CorruptJournal
  NewStates <- MCNewStates
  NoFile = NoFile
  NoTransfer = NoTransfer
  Scrap = Scrap
  SendsAgain = FALSE

  
PROPERTIES
  ImplementsRegister
