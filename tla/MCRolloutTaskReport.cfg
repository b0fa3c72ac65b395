SPECIFICATION ReportingSpec
CONSTANTS
  Nodes = {n1}
  Releases = {r1}
  TaskReleases = {r1}
  Revisions = {r1}
  Revision <- OwnRevision
  Workers = {w1}
  Requests = {q1}
  MaxDeployments = 1
  MaxQueued = 1
  MaxSequence = 3
  MaxFaults = 0
  TaskSuccessReported = FALSE
  NoNode = NoNode
  NoRelease = NoRelease
  NoRevision = NoRevision
  NoRequest = NoRequest
PROPERTIES TaskSuccessIsRecorded
CHECK_DEADLOCK FALSE
