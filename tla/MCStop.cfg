CONSTANTS
  a = a
  b = b
  k1 = k1
  kLong = kLong
  v1 = v1
  v2 = v2
  v4 = v4
  vLong = vLong
  Client = {a, b}
  Main = Main
  Key <- MCKey
  Val <- MCVal
  Length <- MCLength
  MaxStrLen = 5
  Other = Other
  Nil = Nil
  Request <- OneSet
  Impolite = {a}
  MaxSignals = 2
  MaxAsks = 1
SPECIFICATION FairSpec
CHECK_DEADLOCK FALSE

  
PROPERTIES
  EveryRequestAnswered
  OneSignalStops
