SPECIFICATION FairSpec
CONSTANTS
  ExitEof = TRUE
  PartitionEof = TRUE
  MaxMessages = 1
  MaxSignals = 0
  MaxTrouble = 0
PROPERTIES
  ExitsAtEof
CHECK_DEADLOCK FALSE
