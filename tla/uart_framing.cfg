SPECIFICATION FairSpec
CONSTANTS
  Pdus <- MCPdus
  Base = 3
  Capacity = 3
  MaxSent = 3
  MaxKills = 2
PROPERTIES
  ImplementsFifo
  EveryPduArrives
CHECK_DEADLOCK FALSE
