SPECIFICATION Spec
CONSTANTS
  Repos = {1, 2, 3}
  Handlers = {h1, h2}
  Brokers = {b1}
  h1 = h1
  h2 = h2
  b1 = b1
  PageSize = 1
  MaxPages = 2
  MinLifetime = 2
  MaxLifetime = 2
  MaxChanges = 3
  MaxFaults = 1
  MaxClock = 1
SYMMETRY Symmetry
CHECK_DEADLOCK FALSE
INVARIANTS
  ClaimsAreHeld
  SettledMirrorsGithub
  RevokedIsRefused
