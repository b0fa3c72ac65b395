\* All the commands, under two environments that share nodes.
CONSTANTS
  e1 = e1  e2 = e2
  None = None  NoCli = NoCli  NoEnv = NoEnv  NoJob = NoJob  NoTask = NoTask
  NodeCount = 2
  Envs = {e1, e2}
  Clis = {p1, p2}
  Commits = {c1, c2}
  Services = {"web"}
  TaskKind = "web"
  InitialNodes = {1, 2}
  InitialAttached <- CoHosted
  Commands = {"deploy", "rollback", "status", "attach", "detach", "label", "secret", "ingress", "create", "remove", "agent"}
  Timeouts = TRUE
  MaxCommands = 3
  MaxReleases = 2
  MaxFaults = 1
  Keep = 1
SPECIFICATION Spec
INVARIANTS TypeOK PublishedMatchesState SafeImagesStay
PROPERTIES RefinesReleaseLog
CHECK_DEADLOCK FALSE
SYMMETRY Symmetric
