SPECIFICATION FairSpec
CONSTANTS
  Entries <- AllEntries
  Starts <- First
  KindAt <- Kinds
  NameAt <- Names
  pruneMargin = 0
  MaxUid = 1
  MaxEdits = 2
  MaxFaults = 0
PROPERTY PrunesAll
CHECK_DEADLOCK FALSE
