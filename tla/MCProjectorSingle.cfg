SPECIFICATION FairProjectorSpec
CONSTANTS
  Coins = {btc, huge}
  Writers = {w1}
  NoWriter = none
  MaxSerial = 3
  LockKey <- DistinctKeys
  Projectors = {p1}
  FetchLimit = 2
  Unknown = {}
  Rejected = {huge}
  MaxFailures = 3
INVARIANTS
  SummaryNotBehindCheckpoint
PROPERTIES
  ReadModelsConverge
