SPECIFICATION FairSpec
CONSTANTS
  Parts = 2
  MAX_ERRORS = 2
  EditsApart = TRUE
  MaxEdits = 3
  MaxTime = 6
INVARIANTS ListIsCurrent SignalNotForgotten
PROPERTIES EventuallyCurrent
CHECK_DEADLOCK FALSE
