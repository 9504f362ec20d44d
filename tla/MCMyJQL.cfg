CONSTANTS
  k1 = k1
  k2 = k2
  v1 = v1
  v2 = v2
  Key = {k1, k2}
  Val = {v1, v2}
  MaxRec = 5
  MaxStr = 9
  RecRid <- MCRecRid
  StrRid <- MCStrRid
  Nil = Nil
SYMMETRY NameSymmetry
SPECIFICATION Spec
INVARIANTS
  AlwaysComparable
  NothingLeaks
PROPERTIES
  ImplementsKeyValue
