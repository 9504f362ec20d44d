CONSTANTS
  a = a
  b = b
  k1 = k1
  kLong = kLong
  v1 = v1
  v2 = v2
  v4 = v4
  vLong = vLong
  Client = {a}
  Main = Main
  Key <- MCKey
  Val <- MCVal
  Length <- MCLength
  MaxStrLen = 5
  Other = Other
  Nil = Nil
  Request <- AllRequests
  Impolite = {a}
  MaxSignals = 0
  MaxAsks = 2
SPECIFICATION Spec
CHECK_DEADLOCK FALSE
PROPERTIES
  OnlyRequested
