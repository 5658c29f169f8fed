SPECIFICATION MCSpec
CONSTANTS
  c1 = c1  c2 = c2  w1 = w1  w2 = w2  s1 = s1  s2 = s2
  h1 = h1  h2 = h2  ta = ta  tb = tb  none = none
  Callers <- MCCallers
  Workers <- MCWorkers
  Stoppers <- MCStoppers
  QueueSize = 1
  MaxAttempts = 3
  Handlers <- MCHandlers
  Rows = {1, 2, 3}
  Tenants = {ta, tb}
  NoTenant = none
  TenantOf <- MCTenantOf
  Buffer = 1
SYMMETRY Symmetry
INVARIANT CountersBalance
INVARIANT ShutdownSafe
INVARIANT SettledSnapshotExact
INVARIANT FeedSound
PROPERTY EndSurfacesDrops
CHECK_DEADLOCK FALSE
