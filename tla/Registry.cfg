SPECIFICATION FairSpec
CONSTANTS
  a = a  b = b
  Roots = {a, b}
  d1 = d1
  Drains = {d1}
  MachineKeys = TRUE
  WipeWhileRunning = FALSE
  MaxMachines = 2
  MaxRepos = 2
  MaxEvents = 1
  MaxStarts = 2
  MaxFailures = 1
INVARIANTS
  RegisteredIsKnown
  EventsUnderTheirCheckout
PROPERTY Registers
CHECK_DEADLOCK FALSE
