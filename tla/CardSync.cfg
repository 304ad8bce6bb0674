SPECIFICATION FairSpec
CONSTANTS
  c1 = c1  c2 = c2  w1 = w1  w2 = w2  q1 = q1
  Cards = {c1, c2}
  Writers = {w1, w2}
  Pollers = {q1}
  Limit = 1
  MaxVersion = 3
  MaxIngests = 2
  MaxLost = 1
  MaxFailures = 1
INVARIANTS
  TypeOK
  NoInventedState
  NewestWins
  CursorCovers
PROPERTIES
  VersionsMoveForward
  Converges
CHECK_DEADLOCK FALSE
