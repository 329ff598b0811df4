SPECIFICATION Spec
CONSTANTS
  s1 = s1
  s2 = s2
  x = x
  y = y
  z = z
  Nothing = Nothing
  Sessions <- MCTwoSessions
  Jobs <- MCJobsTwo
  Paths <- MCPaths
  NameOf <- MCNameOf
  Underscore = 95
  Zero = 48
  Period = 46
  Trashed <- MCTrashed
  MaxTail = 5
CHECK_DEADLOCK FALSE
INVARIANTS TypeOK InfoTellsOrigin NothingLost
PROPERTIES ReplacedOnlyUnseen
