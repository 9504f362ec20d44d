CONSTANTS
  DirPages = 2
  Slots = 2
  BlockSize = 2
  MaxPages = 7
  Nil = Nil
  a1 = a1
  a2 = a2
  a3 = a3
  a4 = a4
  Addr <- MCAddr
SYMMETRY AddrSymmetry
SPECIFICATION Spec
INVARIANTS
  TypeOK
  ChainsApart
  FreeListSound
  TablesPacked
PROPERTIES
  NothingElseLost
  ImplementsFreeSpace
