SPECIFICATION Spec
CONSTANTS
  Files = {"f1"}
  Names = {"d1", "d2", "d3"}
  Contents <- Renamed
  First <- AtFirst
  Clients = {}
  Requests <- NoRequests
  Executors = {"ahk"}
  MaxEdits = 2
  MaxCalls = 0
CHECK_DEADLOCK FALSE
INVARIANT OldNamesDeleted
