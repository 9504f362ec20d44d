CONSTANTS
  PageSize = 14
  Header = 2
  IdSize = 2
  Item <- MCItem
  Nil = Nil
  MaxBlocks = 2
SPECIFICATION Spec
INVARIANTS
  BlocksTiled
  FiledUnderRoom
PROPERTIES
  ImplementsRows
