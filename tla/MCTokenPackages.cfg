CONSTANTS
  Absent = Absent
  UsizeModulus = 256
  SplBlocks <- MCSplBlocks
  SplMaxBlocks = 5
  EthBlocks <- MCEthBlocks
  EthMaxBlocks = 3
  KnownCallers = {"f1", "f2"}
  Producers = {"p1", "p2"}
  ProducerMaxBlocks = 5
SPECIFICATION Spec
INVARIANTS
  TypeOK
  TransfersOfTheRightMint
  SkippedTransfersExplained
  StoresMatchChain
  VolumesAgree
  
  BlocksCounted
CHECK_DEADLOCK FALSE
