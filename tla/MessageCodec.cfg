SPECIFICATION Spec
CONSTANTS
  ToEncode <- EncodeInputs
  ToDecode <- DecodeInputs
  Rules <- MCRules
  FreedNames <- MCFreedNames
  MaxMessages = 2
INVARIANTS
  TypeOK
  AnswerDependsOnMessageAlone
  ErrorsCarryNoBytes
  EncodesAllLayers
  LeaksAtMostOneBlock
  StatusTellsAnswer
  DecoderReadsAnswer
CHECK_DEADLOCK FALSE
