SPECIFICATION MCFairSpec
CONSTANTS
  global = global  t1 = t1  t2 = t2  noModel = noModel  nil = nil
  f1 = f1  f2 = f2  f3 = f3  missing = missing  invalid = invalid
  w1 = w1  w2 = w2  c1 = c1  c2 = c2  c3 = c3
  Parts = {"watcher", "api", "pipeline"}
  Owners = {global, t1, t2}
  Global = global
  Names <- MCNames
  Models = {}
  NoModel = noModel
  Versions = {1, 2}
  Files = {f1, f2}
  Nil = nil
  Docs <- OneTenant
  Boot <- EmptyDir
  DefaultFile <- NameFile
  Reloaders = {w1, w2}
  Clients = {}
  MaxEdits = 3
  Editors = {1, 2, 3}
  MaxTouches = 2
  Missing = missing
  Invalid = invalid
CHECK_DEADLOCK FALSE
INVARIANT DirectoryServed
INVARIANT SavesSerialized
PROPERTY StopQuiesces
PROPERTY WatcherStops
