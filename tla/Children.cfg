SPECIFICATION FairSpec
CONSTANTS
  Entries <- AllEntries
  Starts <- First
  KindAt <- Kinds
  NameAt <- Names
  pruneMargin = 0
  MaxUid = 2
  MaxEdits = 2
  MaxFaults = 1
PROPERTIES HandsOff PrunedWereDropped Materialises Prunes
CHECK_DEADLOCK FALSE
