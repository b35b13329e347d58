SPECIFICATION Spec
CONSTANTS
  Clusters = {k1}
  Names = {n1}
  Explicit = {}
  Addrs = {a1, a2}
  DelPolicies = {"Delete", "Retain", "Skip"}
  Modes = {"Live", "DryRun", "NoStore"}
  Env = {"Edit","Reapply","Outage","Protected","HumanMake","HumanDelete","HumanMove","HumanStamp","Late"}
  MaxTries = 2
  MaxId = 3
  MaxEdits = 2
  MaxFaults = 1
  None = None
  Outside = Outside
  Human = Human
PROPERTY FreedOrReported
SYMMETRY Symmetry
CHECK_DEADLOCK FALSE
