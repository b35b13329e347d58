SPECIFICATION FairSpec
CONSTANTS
  None = None
  Ops <- AllOps
  Types <- OwnTypes
  Starts <- Cases
  Specs <- AllSpecs
  MaxSecret = 2
  Absent = Absent
  Uids = {1, 2}
  KeyOf <- Keys
  Strays <- Left
  GracePeriod = 1
  maxFindings = 1
  pageSize = 1
  maxPages = 2
  Budgets = {0, 3}
  MaxRow = 3
INVARIANTS ReportedIsServed WritesAreStamped OrphanedIsSettled
PROPERTIES StopsWriting Serves Covered AccusesNobody LeftBehindIsReported
CHECK_DEADLOCK FALSE
