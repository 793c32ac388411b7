SPECIFICATION Spec
CONSTANTS
  Runs = {r1, r2}
  Sandboxes = {r1, r2}
  Commits = {r1, r2}
  Operated = {r1}
  Publishers = {p1, p2}
  Callers = {c1, c2}
  Keys = {k1, k2}
  Branches = {"b"}
  r1 = r1
  r2 = r2
  c1 = c1
  c2 = c2
  p1 = p1
  p2 = p2
  k1 = k1
  k2 = k2
  NoCommit = NoCommit
  MaxTurns = 2
  MaxFeed = 1
  MaxFaults = 2
  ActiveRunLimit = 1
SYMMETRY Symmetry
CHECK_DEADLOCK FALSE
INVARIANTS
  SandboxReleased
  ActiveLimitHolds
  PublishedAsApproved
  CancelStopsTurns
PROPERTIES
  SettledRunsRest
