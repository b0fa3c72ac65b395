\* A service of any kind beside a worker; restarts, failing calls, exits.
CONSTANTS
  web = web  api = api  w1 = w1  w2 = w2  bad = bad  k1 = k1  k2 = k2
  Services = {web, api}
  Specs = {w1, w2, bad, k1, k2}
  WebSpecs = {w1, w2, bad}
  BrokenSpecs = {bad}
  DesiredStates <- BesideWorker
  IPs = {i1, i2, i3}
  NoSpec = NoSpec  NoIP = NoIP  Default = Default  NoService = NoService
  MaxDeploys = 2
  MaxFaults = 2
SPECIFICATION FairSpec
INVARIANTS TypeOK SettledIsExact WorkerNeverDoubled
PROPERTIES DrainsWhatEnvoyLeft Converges RoutedStaysRouted
