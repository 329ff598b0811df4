SPECIFICATION Spec
CONSTANTS
  A = A
  B = B
  C = C
  E = E
  Tilde = Tilde
  p1 = p1
  p2 = p2
  p3 = p3
  p4 = p4
  p5 = p5
  Absent = Absent
  Volatile = {p3}
  NoNode = NoNode
  Tree <- MCTree
  NameOf <- MCNameOf
  Contents <- MCContents
  SizeOf <- MCSizeOf
  Clean <- MCContents
  Whole = TRUE
  Extension <- MCExtension
  MinSizes <- MCMinSizes
  MaxSizes <- MCMaxSizes
  Inexact <- MCInexact
CHECK_DEADLOCK FALSE
INVARIANTS TypeOK Delivers Complete ListedOnce
PROPERTY SearchEnds
