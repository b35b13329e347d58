SPECIFICATION FairSpec
CONSTANTS
  site = site
  child = child
  leaf = leaf
  CRs = {site, child, leaf}
  Cases <- AllCases
  MaxAttempts = 1
  MaxEdits = 2
INVARIANT Consented
PROPERTIES TeardownCompletes CascadeCompletes ParentLast
CHECK_DEADLOCK FALSE
