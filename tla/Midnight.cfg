SPECIFICATION Spec
CONSTANTS
  Wallets = {0, 1, 2}
  Genesis = 0
  Envs = {"e", "f"}
  MaxRuns = 2
  MaxJobs = 1
  MaxRestarts = 1
INVARIANTS
  RefusedTakesAnOverlap
  OnChainIsAPrefix
  OnlyIntrudersMislead
  TableTellsTheTruth
PROPERTIES
  EverythingEnds
CHECK_DEADLOCK FALSE
