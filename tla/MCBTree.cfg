CONSTANTS
  Degree = 2
  Key = {1, 2, 3, 4, 5, 6, 7}
  Node = {1, 2, 3, 4, 5, 6, 7, 8, 9}
  MaxCopies = 2
  Nil = Nil
SPECIFICATION Spec
INVARIANTS
  TypeOK
  ParentsKnown
  Filled
  Balanced
  SearchFinds
  RecordsMatch
PROPERTIES
  ImplementsIndex
