SPECIFICATION StoresSpec
CONSTANTS
  Trades = {t1, t2}
  Completions = {c1, c2}
  IndexKinds = {"sequential", "overlapped", "batch", "userpays"}
  Calls = {m1, m2, m3}
  Kinds = {"bootstrap", "deposit", "merge", "lock", "demo", "handmerge", "withdraw", "refund"}
  Amounts = {2}
SYMMETRY WriterSymmetry
INVARIANTS
  IndexIsTrue
  PoolIsBacked
  AccountsAreTrue
  CustodyHolds
CHECK_DEADLOCK FALSE
