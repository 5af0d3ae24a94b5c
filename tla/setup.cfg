SPECIFICATION FairSpec
CONSTANTS
  Lists <- TwoOrNone
  Valid <- OneAddOn
  Clients <- AClient
  MaxCalls = 3
CHECK_DEADLOCK FALSE
INVARIANTS
  TypeOK
  DoneMeansUsable
  ClientsHaveControllers
PROPERTY CommandsEnd
