SPECIFICATION Spec
CONSTANTS
  Owners = {p1, p2}
  Recoverers = {p2}
  Cancellers = {}
  p1 = p1
  p2 = p2
  p3 = p3
  MaxOps = 3
  MaxChildren = 2
  MaxKills = 0
CHECK_DEADLOCK FALSE
INVARIANTS
  OneOperationAtWork
