SPECIFICATION ProjectorSpec
CONSTANTS
  Coins = {btc, odd}
  Writers = {w1}
  NoWriter = none
  MaxSerial = 3
  LockKey <- DistinctKeys
  Projectors = {p1, p2}
  FetchLimit = 2
  Unknown = {odd}
  Rejected = {}
  MaxFailures = 1
SYMMETRY DaemonsInterchangeable
INVARIANTS
  CheckpointCoversProjected
  ProjectedIsPrefix
  RepeatsNeedFailures
