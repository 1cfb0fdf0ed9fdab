CONSTANTS
  pair = pair
  token = token
  trx = trx
  Ids = {pair, token}
  Transactions = {}
  Nothing = Nothing
  MaxBlock = 3
  Faults = {"stream"}
  MaxFaults = 1
SPECIFICATION Spec
INVARIANTS
  UniqueVisible
CHECK_DEADLOCK FALSE
