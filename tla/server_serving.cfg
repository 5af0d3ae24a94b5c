SPECIFICATION FairSpec
CONSTANTS
  Files = {"f1", "f2"}
  Names = {"d1", "d2", "d3"}
  Contents <- Kept
  First <- AtFirst
  Clients = {"c1"}
  Requests <- AllRequests
  Executors = {"ahk"}
  MaxEdits = 2
  MaxCalls = 2
CHECK_DEADLOCK FALSE
INVARIANTS
  TypeOK
  MapFollowsFiles
  ServedThroughout
  StartedBeforeServing
PROPERTIES
  EditsArrive
  AnswerTellsResult
  RequestAnswered
