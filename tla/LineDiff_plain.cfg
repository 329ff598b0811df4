SPECIFICATION Spec
CONSTANTS
  a = a
  b = b
  c = c
  Blank = Blank
  Lines <- MCThree
  MaxLines = 3
CHECK_DEADLOCK FALSE
INVARIANTS
  TypeOK
  Matched
  EditsLeadToSecond
  EqualNotDifferent
