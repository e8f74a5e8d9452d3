SPECIFICATION Spec
CONSTANTS
  Texts <- MCTexts
  Buffers <- MCBuffers
INVARIANTS
  TypeOK
  DecodesDigits
  RefusesOnlyOthers
  RoundTrip
