SPECIFICATION LiveSpec
CONSTANTS
  Coins = {btc, eth}
  Writers = {w1}
  NoWriter = none
  MaxSerial = 2
  LockKey <- DistinctKeys
  Publishers = {p1}
  BatchLimit = 2
  MaxFaults = 0
  Wanted = {btc}
  Unreadable = {}
  InboxLimit = 1
  FeedLimit = 1
  OutLimit = 1
  MaxLinkFaults = 1
INVARIANTS
  FeedIsExact
  PublishedInVersionOrder
PROPERTIES
  CommitReachesClient
  SubscriptionEnds
