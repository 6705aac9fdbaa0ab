SPECIFICATION FairSpec
CONSTANTS
  Lines <- MCLines
  MaxLines = 2
PROPERTY
  EofEndsProgram
CHECK_DEADLOCK FALSE
