SPECIFICATION Spec
CONSTANTS
  Procs = {p1, p2}
  MaxHistory = 1
  MaxCrashes = 0
  TornWrites = FALSE
  Null = Null
  Garbage = Garbage
INVARIANTS
  OneNextTransition
CHECK_DEADLOCK FALSE
