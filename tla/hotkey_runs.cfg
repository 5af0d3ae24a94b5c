SPECIFICATION FairSpec
CONSTANTS
  Keyboards = {"k1", "k2"}
  Type <- Types
  Entries <- AllEntries
  MaxEvents = 2
  MaxEdits = 1
CHECK_DEADLOCK FALSE
INVARIANTS
  TypeOK
  RunOnce
  RunsWhatConfigSaid
PROPERTIES
  ServedIsRun
  KeyboardsKeepReading
