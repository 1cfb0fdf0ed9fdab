CONSTANTS
  a = a
  b = b
  v = v
  w = w
  Ids = {a, b}
  Values = {v, w}
  Absent = Absent
  MaxBlock = 3
  CrashTwice = TRUE
SPECIFICATION Spec
PROPERTIES
  CleanDeletesOnlyBadRange
