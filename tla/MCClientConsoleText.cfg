SPECIFICATION Spec
CONSTANTS
  Lines <- MCLines
  MaxLines = 4
INVARIANT
  TextHasNewline
CHECK_DEADLOCK FALSE
