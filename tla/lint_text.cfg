CONSTANTS
  Alphabets <- MCAlphabets
SPECIFICATION Spec
INVARIANTS
  BracketsPair
  ElidedIsCode
CHECK_DEADLOCK FALSE
