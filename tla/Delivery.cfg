SPECIFICATION FairSpec
CONSTANTS
  Ops = {p1, p2}
  p1 = p1
  p2 = p2
  NoOp = NoOp
  Actors = {"ann", "bob"}
  Contents = {"patch", "stray"}
  OutOfScope = {"stray"}
  Base = "base"
  Clean = "clean"
  Profiles <- Guarded
  Events = {"kill", "drift", "push", "ready", "expiry", "advance"}
  MaxEvents = 1
CHECK_DEADLOCK FALSE
INVARIANTS
  VerifiedHasEvidence
  CommitIsVerifiedPatch
  PublishedIsVerified
PROPERTIES
  ExecutionSettles
