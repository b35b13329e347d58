SPECIFICATION FairSpec
CONSTANTS
  KindOf <- Used
  Cases <- AllCases
  Env = {"Reref", "refused", "report", "Delete", "Grant"}
  MaxRefDepth = 2
  MaxRefVisits = 3
  MaxId = 5
INVARIANTS NoLostWakeup RingsAreBroken WaitIsExplained
 
CHECK_DEADLOCK FALSE
