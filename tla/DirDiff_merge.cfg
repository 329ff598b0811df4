SPECIFICATION MCSpec
CONSTANTS
  Names <- MCNames
  Contents <- MCContents
  Empty <- None
  Differ <- MCDiffer
  None = None
  Text = Text
  Other = Other
INVARIANTS TypeOK EachOnce InOrder
CHECK_DEADLOCK FALSE
