CONSTANTS
  MaxPages = 7
  NoPage = NoPage
SPECIFICATION PagesSpec
INVARIANTS
  PagesTypeOK
  QueueSound
  HeldApart
PROPERTIES
  NothingElseLost
