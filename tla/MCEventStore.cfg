SPECIFICATION FairStoreSpec
CONSTANTS
  btc = btc
  eth = eth
  ada = ada
  Coins = {btc, eth, ada}
  Writers = {w1, w2}
  NoWriter = none
  MaxSerial = 3
  LockKey <- TwoKeys
INVARIANTS
  GaplessVersions
  InsertNeverCollides
  OutboxIsTransactional
  HydrationEqualsReplay
PROPERTIES
  ImplementsLog
  AppendTerminates
