SPECIFICATION Spec
CONSTANTS
  Clusters = {k1}
  Names = {n1, n2}
  Explicit = {x1}
  Addrs = {a1, a2}
  DelPolicies = {"Delete"}
  Modes = {"Live"}
  Env = {"Reapply"}
  MaxTries = 2
  MaxId = 2
  MaxEdits = 1
  MaxFaults = 1
  None = None
  Outside = Outside
  Human = Human
INVARIANTS ExactlyOnce HoldsAlone FreesOnlyOwn
SYMMETRY Symmetry
CHECK_DEADLOCK FALSE
