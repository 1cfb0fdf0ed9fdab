CONSTANTS
  t1 = t1
  t2 = t2
  Tables = {t1, t2}
  MaxBlock = 3
  MaxFaults = 1
  MaxCrashes = 0
SPECIFICATION Spec
INVARIANTS
  SaveCompletes
