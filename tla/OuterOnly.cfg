SPECIFICATION Spec
CONSTANTS
  ToEncode <- EncodeInputs
  ToDecode <- DecodeInputs
  Rules <- MCRules
  FreedNames <- MCFreedNames
  MaxMessages = 1
INVARIANTS
  DecodedHasXml
CHECK_DEADLOCK FALSE
