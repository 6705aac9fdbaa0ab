SPECIFICATION FairSpec
CONSTANTS
  Lines <- MCLines
  MaxLines = 5
INVARIANTS
  TypeOK
  RefusedIsGone
  CutOffIsNotSent
PROPERTIES
  EofEndsMostPrompts
CHECK_DEADLOCK FALSE
