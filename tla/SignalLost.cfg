SPECIFICATION FairSpec
CONSTANTS
  ExitEof = FALSE
  PartitionEof = FALSE
  MaxMessages = 1
  MaxSignals = 1
  MaxTrouble = 0
PROPERTIES
  SignalEndsApplication
CHECK_DEADLOCK FALSE
