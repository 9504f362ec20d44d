CONSTANTS
  Degree = 3
  MaxKey = 30
  MaxNode = 16
  Key <- MCKey
  Node <- MCNode
  MaxCopies = 2
  Nil = Nil
  Budget = 3
SPECIFICATION TallSpec
INVARIANTS
  Balanced
PROPERTIES
  CallsReturn
