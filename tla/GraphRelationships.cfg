SPECIFICATION FairSpec
CONSTANTS
  b1 = b1  b2 = b2  h1 = h1  h2 = h2
  Unknown = Unknown
  Tables = {"t1", "t2"}
  CatalogTables = {"t1", "t2", "t3"}
  Routines = {"r1"}
  Builders = {b1, b2}
  MaxDdl = 1
  MaxFaults = 1
  Hooks = {h1, h2}
  MaxEdits = 2
  MaxFailures = 1
  MaxHookKills = 1
  Nodes = {"x", "y", "z"}
  MaxEdges = 3
  MaxKeys = 2
INVARIANT RelationshipsShowKeys
CHECK_DEADLOCK FALSE
