SPECIFICATION FairSpec
CONSTANTS
  Limit = 2
  MaxPages = 9
  InitialEvents = 1
  MaxSeq = 6
  MaxFailures = 1
  MaxStops = 1
INVARIANTS
  TypeOK
  
  PrintsForward
PROPERTY ShowsEverything
CHECK_DEADLOCK FALSE
