SPECIFICATION Spec
CONSTANTS
  Servers = {s1, s2}
  Pids = {p1, p2, p3, p4}
  Ports = {1, 2}
  None = None
SYMMETRY Symmetry
INVARIANTS
  ChildrenAccounted
  SoleDrain
  TerminatesOnlyWedged
CHECK_DEADLOCK FALSE
