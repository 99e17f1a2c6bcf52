SPECIFICATION FairSpec
CONSTANTS
  Grain = 1
  Req = {r1, r2, r3, r4}
  Kinds = {"submit"}
  Payloads <- Sweeper
  SweepPair = "ADA"
  ParallelSweep = TRUE
  PoolSize = 2
  MaxCrashes = 0
PROPERTIES EveryRequestAnswered
CHECK_DEADLOCK FALSE
