SPECIFICATION FairSpec
CONSTANTS
  ExitEof = TRUE
  PartitionEof = TRUE
  MaxMessages = 1
  MaxSignals = 1
  MaxTrouble = 2
PROPERTIES
  StopHonoured
  EveryMessageTaken
CHECK_DEADLOCK FALSE
