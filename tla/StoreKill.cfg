SPECIFICATION FairSpec
CONSTANTS
  Procs = {p1, p2}
  MaxHistory = 2
  MaxCrashes = 2
  TornWrites = TRUE
  Null = Null
  Garbage = Garbage
INVARIANTS
  OneNextTransitionUnlessStolen
  LossIsNeverSilent
  SnapshotJournaled
PROPERTIES
  ReadsAreRecent
  OperationsEnd
CHECK_DEADLOCK FALSE
