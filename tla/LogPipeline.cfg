SPECIFICATION FairSpec
CONSTANTS
  c1 = c1  w1 = w1  h1 = h1  main = main  ta = ta  none = none
  Callers = {c1}
  Workers = {w1}
  QueueSize = 1
  MaxAttempts = 2
  Handlers = {h1}
  Tenants = {ta}
  NoTenant = none
  TenantOf <- MCTenantOf
  Buffer = 1
  Main = main
  Stoppers = {main}
  Rows = {1, 2}
  MaxPrunes = 1
CHECK_DEADLOCK FALSE
INVARIANT TeardownOrdered
INVARIANT GracefulExitAccounts
PROPERTY ShutdownCompletes
PROPERTY DropsAreSurfaced
