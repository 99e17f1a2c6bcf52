SPECIFICATION FairSpec
CONSTANTS
  Trades = {t1, t2}
  Modes = {"sequential", "overlapped", "batch", "reused", "userpays"}
  SplitScript = FALSE
  PoolSize = 2
  Offset = 1
  Attempts = 2
  Submits = 2
  TimeLimit = TRUE
INVARIANTS
  WalletsApart
  SettledOnBothLedgers
  AnchoredLast
PROPERTIES
  FirstComeFirstServed
  PipelinesEnd
CHECK_DEADLOCK FALSE
