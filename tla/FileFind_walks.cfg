SPECIFICATION Spec
CONSTANTS
  Paths <- MCPaths
  Sizes <- MCSizes
  StartFiles <- MCStartFiles
  StartPaths <- MCStartPaths
  Excluded <- MCExcluded
  Unreadable <- MCUnreadable
  Typed <- MCTyped
  IntValues = 8
  Volatile <- MCVolatile
  Unwritten = Unwritten
INVARIANTS TypeOK Complete ChosenListed
PROPERTIES FindReturns
CHECK_DEADLOCK FALSE
