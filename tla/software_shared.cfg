SPECIFICATION Spec
CONSTANTS
  c1 = c1
  c2 = c2
  p1 = p1
  p2 = p2
  n1 = n1
  n2 = n2
  e1 = e1
  e2 = e2
  Callers = {c1, c2}
  Packages = {p1}
  PackageOf <- OnePackage
  Names = {n1, n2}
  Execs = {e1, e2}
  Ids = {i1, i2, i3}
  NoId = NoId
  NoExec = NoExec
  Operations = {"install", "uninstall", "update", "deleteExec", "renameExec"}
  Types = {"NO_DOWNLOAD"}
  ExecLists <- Repeated
  Edits <- PartialEdits
  Flaws = {}
  MaxCalls = 3
SYMMETRY Interchangeable
INVARIANTS TypeOK NoDuplicates
PROPERTY ImplementsCatalogue
CHECK_DEADLOCK FALSE
