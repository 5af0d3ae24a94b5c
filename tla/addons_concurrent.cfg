SPECIFICATION Spec
CONSTANTS
  c1 = c1  c2 = c2  p1 = p1  p2 = p2
  Callers = {c1, c2}
  Packages = {p1}
  Versions = {1, 2}
  Published <- Broken
  Operations = {"create", "install", "uninstall", "update", "reindex", "loadAll"}
  Options <- AnyOption
  Flaws = {"npm", "crash"}
  MaxCalls = 4
CHECK_DEADLOCK FALSE
INVARIANT OnlyAddOnsRegistered
PROPERTY OnlyRemovalsUnregister
SYMMETRY Interchangeable
