SPECIFICATION Spec
CONSTANTS
  Requests <- FourCommitments
  MinOrderSize = 1
  MaxRounds = 2
  Ttl = 0
  MaxCalls = 3
  MaxTime = 1
  MaxStops = 1
  Handlers = {"f", "g"}
  Emits = {"e"}
  MaxSubscriptions = 1
  MaxClears = 1
  Traders = {"t"}
  Positions = {"p", "q"}
  Amounts = {1, 2, 3}
  Pnls <- LossAndProfit
  MinDepositAmount = 2
  MaxWithdrawalAmount = 2
  LiquidationThreshold = 120
  MaxBalance = 5
  MaxReleases = 3
  Contracts <- LongAndShort
  Marks = {8, 12}
  Index = 10
  MaintenanceBps = 500
  WarningBps = 1000
  PenaltyBps = 100
  FundingDampening = 5000
  MaxFunding = 750
  Scanners = {"s"}
  Shortfalls = {1000}
  MaxRegistrations = 2
  MaxLiquidations = 1
  MaxEpochs = 1
  Batches = {"b1", "b2"}
  BatchLen = 2
  MaxStarts = 2
  MaxShutdowns = 1
  Clients = {"c1", "c2"}
  Keys = {"k1", "k2"}
  MaxVersion = 2
  MaxEncrypts = 2
INVARIANTS
  PriceTimePriority
  MatchesAreSound
  ServedOnce
  AccountsHold
  ScansAreFair
  FundsAddUp
  
  NoUpdateLost
PROPERTIES
  CommitmentsAreKept
  StopIsClean
CHECK_DEADLOCK FALSE
