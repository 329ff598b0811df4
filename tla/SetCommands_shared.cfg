SPECIFICATION SharedSpec
CONSTANTS
  p1 = p1
  p2 = p2
  p3 = p3
  q1 = q1
  q2 = q2
  A = A
  B = B
  Absent = Absent
  NoNode = NoNode
  Paths <- MCPathsOne
  ContentOf <- MCContentOfOne
  Report <- MCReportOne
  MTimes = {0, 1, 2}
  ListIdxs = {0, 1, 2, 3, 4}
CHECK_DEADLOCK FALSE
INVARIANTS
  IndexLeadsToSet
PROPERTIES
  SweepLeavesCandidate
  SweepEnds
