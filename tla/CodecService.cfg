SPECIFICATION Spec
CONSTANTS
  ExitEof = TRUE
  PartitionEof = TRUE
  MaxMessages = 2
  MaxSignals = 1
  MaxTrouble = 1
INVARIANTS
  TypeOK
  NothingVanishes
  OnlyEmptyMessagesWait
  ClientsReady
  CountersExact
  OnlySignalEndsWell
  RepliesOnceInOrder
PROPERTIES
  ImplementsReplyLog
  ImplementsGroup
CHECK_DEADLOCK FALSE
