SPECIFICATION Spec
CONSTANTS
  Nodes = {n1}
  Releases = {r1, r2}
  TaskReleases = {}
  Revisions = {r1, r2}
  Revision <- OwnRevision
  Workers = {w1, w2}
  Requests = {q1}
  MaxDeployments = 2
  MaxQueued = 1
  MaxSequence = 2
  MaxFaults = 0
  TaskSuccessReported = FALSE
  NoNode = NoNode
  NoRelease = NoRelease
  NoRevision = NoRevision
  NoRequest = NoRequest
SYMMETRY Symmetric
PROPERTIES ImmutableDocuments
CHECK_DEADLOCK FALSE
