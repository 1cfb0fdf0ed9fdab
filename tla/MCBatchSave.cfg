CONSTANTS
  t1 = t1
  t2 = t2
  Tables = {t1, t2}
  MaxBlock = 2
  MaxFaults = 2
  MaxCrashes = 2
SPECIFICATION Spec
INVARIANTS
  TypeOK
  SaveCompletesUnlessErrorLost
  AllOrNothing
PROPERTIES
  ReaderSeesWholeBlocks
  StreamFinishes
