SPECIFICATION Spec
CONSTANTS
  Codes <- MCCodes
  Ints <- MCInts
  Texts <- MCTexts
  Format <- MCFormat
  Room = 2
INVARIANTS
  TypeOK
  NeverWaitsInVain
PROPERTIES
  TokenChannel
CHECK_DEADLOCK FALSE
