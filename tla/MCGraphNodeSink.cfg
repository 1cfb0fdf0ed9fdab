CONSTANTS
  pair = pair
  token = token
  trx = trx
  Ids = {pair, token, trx}
  Transactions = {trx}
  Nothing = Nothing
  MaxBlock = 3
  Faults = {"refuse", "load", "apply", "save", "stream", "crash"}
  MaxFaults = 2
SPECIFICATION Spec
INVARIANTS
  TypeOK
  UniqueUnlessDatabaseError
  ServedIsFold
  NoChangeLost
  CacheKnowsItsRow
PROPERTIES
  PastStands
CHECK_DEADLOCK FALSE
