SPECIFICATION Spec
CONSTANTS
  Runs = {r1}
  Tasks = {t1}
  Keys = {k1, k2}
  r1 = r1
  k1 = k1
  k2 = k2
  Commands <- ControlCommands
  Procs = {p1, p2}
  Workers = {p1}
  Correlations = {x1}
  ActiveRunLimit = 1
  MaxEvents = 7
  NoRun = NoRun
  NoTask = NoTask
  NoKey = NoKey
  NoCommand = NoCommand
CHECK_DEADLOCK FALSE
INVARIANTS
  TypeOK
  EventLogDense
  VersionIdentifiesState
  RecordedOnce
PROPERTIES
  EndedStaysEnded
