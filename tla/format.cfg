SPECIFICATION Spec
CONSTANTS
  Calls <- MCCalls
  SIZE = 17
  HALF = 256
  HALF_SIZE = 8
INVARIANTS
  PtrIsLength
  PrintsItsMeaning
  KeepsToBuffer
  NothingIsCut
PROPERTIES
  Ends
