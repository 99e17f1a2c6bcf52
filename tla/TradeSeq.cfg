SPECIFICATION Spec
CONSTANTS
  Grain = 1
  Req = {r1, r2, r3, r4}
  Kinds = {"submit", "runall"}
  Payloads <- Mixed
  SweepPair = "ADA"
  ParallelSweep = FALSE
  PoolSize = 1
  MaxCrashes = 1
SYMMETRY ReqSymmetry
INVARIANTS
  TypeOK
  FlagIsALock
  NeverOverfilled
  AllOrNothing
  UntouchedIsFifo
CHECK_DEADLOCK FALSE
