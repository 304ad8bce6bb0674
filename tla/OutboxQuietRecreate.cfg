SPECIFICATION RSpec
CONSTANTS
  e1 = e1  e2 = e2  e3 = e3  e4 = e4  e5 = e5
  d1 = d1  d2 = d2
  Events = {e1, e2, e3, e4, e5}
  Oversize = {e5}
  Rejectable = {e3}
  Drainers = {d1}
  BatchSize = 3
  ReadWindow = 3
  ServerMax = 2
  Sample = 1
  MaxTorn = 2
  MaxFailures = 2
  MaxCrashes = 0
  Racy = FALSE
INVARIANTS
  NoLineSkipped
  
CHECK_DEADLOCK FALSE
