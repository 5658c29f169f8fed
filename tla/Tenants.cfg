SPECIFICATION MCSpec
CONSTANTS
  t1 = t1  t2 = t2  t3 = t3  p1 = p1  p2 = p2  b1 = b1  b2 = b2  e1 = e1  e2 = e2
  m1 = m1  m2 = m2  f1 = f1  none = none  nil = nil
  Owners = {none, t1}
  Global = none
  Names = {1, 2}
  Models = {m1, m2}
  NoModel = nil
  Versions = {1, 2}
  Files = {f1}
  Nil = nil
  Tenants = {t1, t2, t3}
  Keys = {1, 2, 3}
  Procs = {p1, p2}
  AskedRoles = {"viewer", "platform"}
  MaxSecret = 5
  CacheSize = 1
  NoTenant = none
  Databases <- MCDatabases
  Browsers = {b1, b2}
  Emails = {e1, e2}
  DomainMap <- MCDomainMap
  MaxFlows = 3
  MaxTokens = 3
  NoMail = none
  Parts = {"keys", "sso", "agents"}
SYMMETRY Symmetry
CHECK_DEADLOCK FALSE
INVARIANT CacheCurrent
INVARIANT SessionsSound
INVARIANT RegistryConsistent
PROPERTY MutationsAccountable
 
