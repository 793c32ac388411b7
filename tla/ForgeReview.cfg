SPECIFICATION FairSpec
CONSTANTS
  Runs = {r1, r2, r3}
  Tasks = {t1, t2}
  Keys = {k1, k2}
  r1 = r1
  k1 = k1
  k2 = k2
  Commands <- ReviewCommands
  Procs = {p1, p2}
  Workers = {}
  Correlations = {}
  ActiveRunLimit = 1
  MaxEvents = 10
  NoRun = NoRun
  NoTask = NoTask
  NoKey = NoKey
  NoCommand = NoCommand
CHECK_DEADLOCK FALSE
INVARIANTS
  ActiveRunLimitHolds
  IterationsFollowRejections
  PublicationApproved
PROPERTIES
  ReviewFinal
  ApprovedIsPublished
