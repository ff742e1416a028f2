SPECIFICATION ProjectorSpec
CONSTANTS
  Coins = {btc, eth}
  Writers = {w1, w2}
  NoWriter = none
  MaxSerial = 2
  LockKey <- DistinctKeys
  Projectors = {p1}
  FetchLimit = 2
  Unknown = {}
  Rejected = {}
  MaxFailures = 0
INVARIANTS
  CheckpointCoversProjected
