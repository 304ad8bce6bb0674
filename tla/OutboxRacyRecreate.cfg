SPECIFICATION RSpec
CONSTANTS
  e1 = e1  e2 = e2  e3 = e3  e4 = e4  e5 = e5
  d1 = d1  d2 = d2
  Events = {e1, e2}
  Oversize = {}
  Rejectable = {}
  Drainers = {d1}
  BatchSize = 2
  ReadWindow = 3
  ServerMax = 2
  Sample = 2
  MaxTorn = 0
  MaxFailures = 1
  MaxCrashes = 0
  Racy = TRUE
INVARIANT
  NoLineSkipped
CHECK_DEADLOCK FALSE
