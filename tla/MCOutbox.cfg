SPECIFICATION FairOutboxSpec
CONSTANTS
  Coins = {btc}
  Writers = {w1}
  NoWriter = none
  MaxSerial = 3
  LockKey <- DistinctKeys
  Publishers = {p1, p2}
  BatchLimit = 2
  MaxFaults = 2
INVARIANTS
  NoEventLost
  DuplicatesNeedFaults
PROPERTIES
  EventuallyPublished
