\* Deploys, rollbacks and status of one environment on two nodes.
CONSTANTS
  e1 = e1  e2 = e2
  None = None  NoCli = NoCli  NoEnv = NoEnv  NoJob = NoJob  NoTask = NoTask
  NodeCount = 2
  Envs = {e1}
  Clis = {p1, p2}
  Commits = {c1, c2}
  Services = {"web"}
  TaskKind = NoTask
  InitialNodes = {1, 2}
  InitialAttached <- AllAttached
  Commands = {"deploy", "rollback", "status"}
  Timeouts = FALSE
  MaxCommands = 4
  MaxReleases = 2
  MaxFaults = 1
  Keep = 1
SPECIFICATION Spec
INVARIANTS PublishedMatchesState FileReadable
PROPERTIES SettlesWhatIsPublished RefinesReleaseLog
CHECK_DEADLOCK FALSE
SYMMETRY Symmetric
