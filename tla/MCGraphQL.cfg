SPECIFICATION FairGraphQLSpec
CONSTANTS
  c1 = c1
  c2 = c2
  c3 = c3
  btc = btc
  eth = eth
  list = list
  one = one
  Calls = {c1, c2, c3}
  Coins = {btc, eth}
  Limits = {10, 100}
  Wants <- TwoQueries
  Fields = {list, one}
  Nullable = {one}
  ParentOf <- Parents
CHECK_DEADLOCK FALSE
INVARIANTS
  ResponseFollowsResolvers
  QuietAfterResponse
PROPERTIES
  DispatchEnds
  QueryAnswered
