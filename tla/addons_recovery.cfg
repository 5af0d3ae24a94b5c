SPECIFICATION FairSpec
CONSTANTS
  c1 = c1  c2 = c2  p1 = p1  p2 = p2
  Callers = {c1}
  Packages = {p1, p2}
  Versions = {1, 2}
  Published <- Mixed
  Operations = {"create", "install", "uninstall", "update", "reindex", "loadAll"}
  Options <- AnyOption
  Flaws = {"npm", "script", "crash"}
  MaxCalls = 5
CHECK_DEADLOCK FALSE
INVARIANTS
  TypeOK
  ReportedInstall
  ReindexRebuilds
PROPERTY CallsEnd
