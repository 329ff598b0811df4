SPECIFICATION MCSpec
CONSTANTS
  Names <- MCNames
  Contents <- MCContents
  Empty <- None
  Differ <- MCDiffer
  None = None
  Text = Text
  Other = Other
INVARIANT ComparesNamesakes
CHECK_DEADLOCK FALSE
