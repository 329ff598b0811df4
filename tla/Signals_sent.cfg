SPECIFICATION Spec
CONSTANTS
  Program <- Exercises
  Sent <- MCSent
  MaxSent = 2
INVARIANTS TypeOK ShowsAsSaid Excluded JumpsHome
PROPERTIES EndsWhenTold
CHECK_DEADLOCK FALSE
