SPECIFICATION Spec
CONSTANTS
  Grain = 1
  Req = {r1, r2, r3, r4, r5}
  Kinds = {"submit"}
  Payloads <- Narrow
  SweepPair = "ADA"
  ParallelSweep = TRUE
  PoolSize = 2
  MaxCrashes = 0
SYMMETRY ReqSymmetry
INVARIANTS AllOrNothing
PROPERTIES FailureRestoresBook SuccessUncrosses
CHECK_DEADLOCK FALSE
