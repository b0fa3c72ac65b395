\* A status that overlaps a deploy, one node.
CONSTANTS
  e1 = e1  e2 = e2
  None = None  NoCli = NoCli  NoEnv = NoEnv  NoJob = NoJob  NoTask = NoTask
  NodeCount = 1
  Envs = {e1}
  Clis = {p1, p2}
  Commits = {c1, c2}
  Services = {"web"}
  TaskKind = NoTask
  InitialNodes = {1}
  InitialAttached <- AllAttached
  Commands = {"deploy", "rollback", "status"}
  Timeouts = TRUE
  MaxCommands = 4
  MaxReleases = 2
  MaxFaults = 1
  Keep = 1
SPECIFICATION Spec
INVARIANTS CurrentIsLatestSettled
CHECK_DEADLOCK FALSE
SYMMETRY Symmetric
