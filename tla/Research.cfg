SPECIFICATION Spec
CONSTANTS
  c1 = c1
  c2 = c2
  u1 = u1
  u2 = u2
  Commands = {c1, c2}
  Requests <- AllRequests
  Inspections <- AllInspections
  Profiles <- Researchers
  Urls = {u1, u2}
  Providers = {"github"}
  MaxResults = 2
  MaxClock = 2
  MaxKills = 1
  MaxMoves = 1
CHECK_DEADLOCK FALSE
INVARIANTS DecisionsAreGrounded DecisionsInTime
PROPERTIES ResearchIsAppended
