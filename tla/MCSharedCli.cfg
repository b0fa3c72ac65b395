SPECIFICATION Spec
CONSTANTS
  CliCount = 2
  Pairs <- BesideDeploy
  None = None
  NoJob = NoJob
  Torn = Torn
  MaxCommands = 2
  MaxFaults = 1
  MaxExpiries = 1
INVARIANTS TypeOK NothingTwice OwnOutcome SessionKept AccountKept
PROPERTIES TornFailsClosed
