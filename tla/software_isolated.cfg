SPECIFICATION Spec
CONSTANTS
  c1 = c1
  c2 = c2
  p1 = p1
  p2 = p2
  n1 = n1
  n2 = n2
  e1 = e1
  e2 = e2
  Callers = {c1, c2}
  Packages = {p1, p2}
  PackageOf <- OnePackageEach
  Names = {n1}
  Execs = {e1, e2}
  Ids = {i1, i2, i3}
  NoId = NoId
  NoExec = NoExec
  Operations = {"install", "uninstall"}
  Types = {"STANDALONE", "ZIP"}
  ExecLists <- Distinct
  Edits <- SomeEdits
  Flaws = {"network", "disk", "crash"}
  MaxCalls = 4
SYMMETRY Interchangeable
INVARIANTS InstallKept ReportedInstall UninstallLeavesNothing
PROPERTY OwnerIsolation
CHECK_DEADLOCK FALSE
