SPECIFICATION Spec
CONSTANTS
  Runs = {r1}
  Tasks = {t1}
  Keys = {k1, k2}
  r1 = r1
  k1 = k1
  k2 = k2
  Commands <- ReviewCommands
  Procs = {p1, p2}
  Workers = {}
  Correlations = {}
  ActiveRunLimit = 1
  MaxEvents = 9
  NoRun = NoRun
  NoTask = NoTask
  NoKey = NoKey
  NoCommand = NoCommand
CHECK_DEADLOCK FALSE
PROPERTIES
  TerminalImmutable
