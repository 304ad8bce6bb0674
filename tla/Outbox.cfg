SPECIFICATION FairSpec
CONSTANTS
  e1 = e1  e2 = e2  e3 = e3
  d1 = d1  d2 = d2
  Events = {e1, e2, e3}
  Oversize = {}
  Rejectable = {e3}
  Drainers = {d1, d2}
  BatchSize = 2
  ReadWindow = 3
  ServerMax = 2
  Sample = 2
  MaxTorn = 1
  MaxFailures = 1
  MaxCrashes = 1
INVARIANTS
  NoLineSkipped
  SettledOneWay
  OnlyBadLinesDiscarded
PROPERTY
  DeliveryImplemented
CHECK_DEADLOCK FALSE
