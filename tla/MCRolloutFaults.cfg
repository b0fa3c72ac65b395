SPECIFICATION FairSpec
CONSTANTS
  Nodes = {n1}
  Releases = {r1}
  TaskReleases = {}
  Revisions = {r1}
  Revision <- OwnRevision
  Workers = {w1, w2}
  Requests = {q1}
  MaxDeployments = 1
  MaxQueued = 1
  MaxSequence = 2
  MaxFaults = 2
  TaskSuccessReported = FALSE
  NoNode = NoNode
  NoRelease = NoRelease
  NoRevision = NoRevision
  NoRequest = NoRequest
INVARIANTS TerminalIffFinished
PROPERTIES FinishedIsFinal SchedulingEnds
CHECK_DEADLOCK FALSE
