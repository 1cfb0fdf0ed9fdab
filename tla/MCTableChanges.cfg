CONSTANTS
  k1 = k1
  k2 = k2
  f1 = f1
  f2 = f2
  v1 = v1
  v2 = v2
  Keys = {k1, k2}
  Fields = {f1, f2}
  Values = {v1}
  Null = Null
  None = None
  MaxOrdinal = 3
  MaxChanges <- MCMaxChanges
SPECIFICATION Spec
SYMMETRY MCSymmetry
INVARIANTS
  TypeOK
  SquashEquivalent
  SquashedOldValues
  OnlyTiesRefused
  TiesAlwaysRefused
CHECK_DEADLOCK FALSE
