CONSTANTS
  r1 = r1
  r2 = r2
  r3 = r3
  r4 = r4
  r5 = r5
  r6 = r6
  Rid <- MCRid
  MaxLen = 2
  Str <- MCStr
  Nil = Nil
SYMMETRY RidSymmetry
SPECIFICATION Spec
INVARIANTS
  ChunksOwned
  ComparesInOrder
PROPERTIES
  ImplementsRows
