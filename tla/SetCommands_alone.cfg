SPECIFICATION Spec
CONSTANTS
  p1 = p1
  p2 = p2
  p3 = p3
  q1 = q1
  q2 = q2
  A = A
  B = B
  Absent = Absent
  NoNode = NoNode
  Paths <- MCPaths
  ContentOf <- MCContentOf
  Report <- MCReport
  MTimes = {0, 1, 2}
  ListIdxs = {0, 1, 2, 3}
CHECK_DEADLOCK FALSE
INVARIANTS
  TypeOK
  ContentKept
PROPERTIES
  KeepsPromise
  NewestStays
  OnlyChosenTouched
