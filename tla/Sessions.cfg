SPECIFICATION FairSpec
CONSTANTS
  r1 = r1  r2 = r2  g1 = g1  k1 = k1  k2 = k2  nil = nil  cleanup = cleanup
  Requests = {r1, r2}
  Getters = {g1}
  Keys = {k1, k2}
  TTL = 1
  MaxTime = 3
  Nil = nil
  Cleaner = cleanup
CHECK_DEADLOCK FALSE
INVARIANT TurnsSerial
PROPERTY EvictionsExact
PROPERTY TurnsFinish
