SPECIFICATION Spec
CONSTANTS
  A = A
  B = B
  C = C
  E = E
  Tilde = Tilde
  p1 = p1
  p2 = p2
  p3 = p3
  p4 = p4
  p5 = p5
  Absent = Absent
  Volatile = {}
  NoNode = NoNode
  Tree <- MCTree
  NameOf <- MCNameOf
  Contents <- MCContentsFew
  SizeOf <- MCSizeOfFew
  Clean <- MCCleanFew
  Whole = TRUE
  Extension <- MCExtension
  MinSizes <- MCNoLimits
  MaxSizes <- MCNoLimits
  Inexact = {}
CHECK_DEADLOCK FALSE
INVARIANT Complete
