SPECIFICATION Spec
CONSTANTS
  Nodes = {n1}
  Releases = {r1, r2}
  TaskReleases = {r1}
  Revisions = {r1, r2}
  Revision <- OwnRevision
  Workers = {w1}
  Requests = {q1}
  MaxDeployments = 2
  MaxQueued = 1
  MaxSequence = 2
  MaxFaults = 0
  TaskSuccessReported = TRUE
  NoNode = NoNode
  NoRelease = NoRelease
  NoRevision = NoRevision
  NoRequest = NoRequest
SYMMETRY Symmetric
INVARIANTS TypeOK TaskBeforeRollout SettledWasReconciled
CHECK_DEADLOCK FALSE
