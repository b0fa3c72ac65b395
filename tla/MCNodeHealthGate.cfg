\* A release that never becomes healthy, and one restart of the agent.
CONSTANTS
  web = web  api = api  w1 = w1  w2 = w2  bad = bad  k1 = k1  k2 = k2
  Services = {web}
  Specs = {w1, bad}
  WebSpecs = {w1, bad}
  BrokenSpecs = {bad}
  DesiredStates <- AllDocuments
  IPs = {i1, i2, i3}
  NoSpec = NoSpec  NoIP = NoIP  Default = Default  NoService = NoService
  MaxDeploys = 2
  MaxFaults = 1
SPECIFICATION Spec
PROPERTIES HealthGated
