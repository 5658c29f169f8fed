SPECIFICATION MCSpec
CONSTANTS
  r1 = r1  r2 = r2  r3 = r3  r4 = r4  p1 = p1  p2 = p2  w1 = w1  w2 = w2  nil = nil
  Requests = {r1, r2, r3, r4}
  Readers = {r4}
  Replicas = {p1, p2}
  ReplicaOf <- Spread
  Backends = {TRUE, FALSE}
  Caps = {0, 1, 2}
  TTL = 1
  Timeout = 1
  MonthLen = 3
  MaxTime = 3
  MaxFailures = 2
  MaxOverrides = 1
  Parts = {"shared", "local", "rate", "batches", "polls", "lines", "responses"}
SYMMETRY Symmetry
CHECK_DEADLOCK FALSE
INVARIANT CapHonest
INVARIANT ChargesExact
INVARIANT LocalSpendExact
INVARIANT BatchesFaithful
INVARIANT ThreadComplete
PROPERTY RateHonest
PROPERTY StoresBounded
