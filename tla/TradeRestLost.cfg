SPECIFICATION Spec
CONSTANTS
  Grain = 1
  Req = {r1, r2, r3}
  Kinds = {"submit", "rest"}
  Payloads <- Narrow
  SweepPair = "ADA"
  ParallelSweep = FALSE
  PoolSize = 1
  MaxCrashes = 0
SYMMETRY ReqSymmetry
INVARIANTS RestOnlyIsKept
CHECK_DEADLOCK FALSE
