CONSTANTS
  c1 = c1
  c2 = c2
  Sizes = {2}
  Garbage = {0, 9}
  Clients = {c1, c2}
  Loads <- MCTwo
  Milli = 2
  IntSpan = 12
  Https <- MCNone
  Unwritten = Unwritten
  NoFile = NoFile
  Unset = Unset
  MaxStarts = 1
SPECIFICATION Spec
INVARIANT MinIsMinimum
CHECK_DEADLOCK FALSE
