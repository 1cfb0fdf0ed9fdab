CONSTANTS
  Absent = Absent
  Blocks <- MCBlocks
  MaxBlocks = 3
  Factory <- MCFactory
  HoursPerDay = 2
  FirstHour = 11
  Gaps = {0, 1, 2}
  UsizeModulus = 256
  TokenStores = {{"BUSD", "WBNB", "T", "X"}, {"BUSD", "T"}}
  Answers <- MCAnswers
  AddressOrder <- MCAddressOrder
  DecimalsOf <- MCDecimalsOf
  Units <- MCUnits
  WBNB = "WBNB"
  BUSD = "BUSD"
  USDT = "USDT"
  BusdWbnb = "A"
  UsdtWbnb = "U"
  Whitelist <- MCWhitelist
  TextPairs = {"C"}
  Feed <- MCFeed
  TextAddresses = {"A"}
SPECIFICATION Spec
INVARIANT BlocksAccepted
CHECK_DEADLOCK FALSE
