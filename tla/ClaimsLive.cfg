SPECIFICATION FairSpec
CONSTANTS
  Clusters = {k1}
  Names = {n1}
  Explicit = {}
  Addrs = {a1, a2}
  DelPolicies = {"Delete", "Retain"}
  Modes = {"Live"}
  Env = {"Edit", "Outage", "Protected", "Restore"}
  MaxTries = 3
  MaxId = 4
  MaxEdits = 1
  MaxFaults = 2
  None = None
  Outside = Outside
  Human = Human
PROPERTIES Allocates DeletionCompletes
CHECK_DEADLOCK FALSE
