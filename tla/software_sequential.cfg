SPECIFICATION Spec
CONSTANTS
  c1 = c1
  c2 = c2
  p1 = p1
  p2 = p2
  n1 = n1
  n2 = n2
  e1 = e1
  e2 = e2
  Callers = {c1}
  Packages = {p1}
  PackageOf <- OnePackage
  Names = {n1, n2}
  Execs = {e1, e2}
  Ids = {i1, i2, i3}
  NoId = NoId
  NoExec = NoExec
  Operations = {"install", "runInstall", "uninstall", "update", "deleteExec", "renameExec"}
  Types = {"STANDALONE", "ZIP", "NO_DOWNLOAD"}
  ExecLists <- Distinct
  Edits <- SomeEdits
  Flaws = {"network", "disk", "crash"}
  MaxCalls = 3
SYMMETRY Interchangeable
INVARIANTS NoOrphanExecutables UpdatedPath
CHECK_DEADLOCK FALSE
