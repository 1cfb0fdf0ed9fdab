CONSTANTS
  a = a
  b = b
  v = v
  w = w
  Ids = {a, b}
  Values = {v, w}
  Absent = Absent
  MaxBlock = 4
  CrashTwice = FALSE
SPECIFICATION Spec
INVARIANTS
  TypeOK
  NoOverlap
PROPERTIES
  CleanDeletesOnlyBadRange
  ImplementsTemporalTable
