SPECIFICATION Spec
CONSTANTS
  Grain = 10
  Req = {r1, r2, r3}
  Kinds = {"submit", "rest"}
  Payloads <- Limits
  SweepPair = "ADA"
  ParallelSweep = TRUE
  PoolSize = 2
  MaxCrashes = 0
SYMMETRY ReqSymmetry
INVARIANTS FillsWithinLimits
CHECK_DEADLOCK FALSE
