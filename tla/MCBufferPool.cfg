CONSTANTS
  CachePages = 2
  MaxPages = 3
  MaxCnt = 4
  Zero = "zero"
  Val = {"zero", "x"}
SPECIFICATION MCSpec
INVARIANTS
  TypeOK
  NoAlias
  PointersStayValid
  PinsMatchPointers
PROPERTIES
  EvictsLeastRecentlyUsed
  ImplementsPageStore
