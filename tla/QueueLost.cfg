SPECIFICATION ClientsSpec
CONSTANTS
  Presses = {"o1", "o2", "o3"}
  UserPays = {"o1", "o2"}
  MaxLosses = 1
  MaxOthers = 1
  UserOrders <- ALongAndShorts
  MaxUsers = 2
  RestingCap = 2
  Mark = 5
  Gap = 0
  Spread = 1
  Levels = 1
  SeedSize = 1
  One = 6
  Coarse = 3
  MaxFaults = 1
  Sessions = {"s1", "s2"}
  Drafts = {"d1", "d2"}
  Bids = {"d2", "unset"}
  MaxPosts = 2
  MaxKills = 1
INVARIANTS NothingQueuedIsLost
CHECK_DEADLOCK FALSE
