SPECIFICATION GatewaySpec
CONSTANTS
  client = client
  h1 = h1
  h2 = h2
  btc = btc
  eth = eth
  Requests = {h1, h2}
  Readers = {h1, h2}
  Clients = {client}
  ClientOf <- OneClient
  Limiters = {l1, l2}
  NoLimiter = none
  Burst = 1
  Coins = {btc, eth}
  CoinsOf <- Overlapping
  HasRows = {btc}
  None = none
  MaxRows = 2
  MaxHistoryFaults = 1
INVARIANTS
  AnswerIsComplete
PROPERTIES
  ClientKeepsBucket
  QueryOncePerKey
  HistoriesConverge
  RequestsAnswered
