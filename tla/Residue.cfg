SPECIFICATION Spec
CONSTANTS
  ExitEof = FALSE
  PartitionEof = FALSE
  MaxMessages = 2
  MaxSignals = 0
  MaxTrouble = 0
INVARIANTS
  OneReplyPerRecord
CHECK_DEADLOCK FALSE
