SPECIFICATION FairSpec
CONSTANTS
  Starters = {c1, c4}
  Cancellers = {c2}
  Deciders = {c3}
  c1 = c1
  c2 = c2
  c3 = c3
  c4 = c4
  Modes = {"exec", "app-server"}
  MaxSessions <- TwoSessions
  MaxApprovals = 2
  MaxRestarts = 1
CONSTRAINT UpToOverlap
CHECK_DEADLOCK FALSE
INVARIANTS
  AgentSupervised
  ReadyIsVerified
PROPERTIES
  CancelSticks
  ApprovalEnds
  VerificationEnds
