SPECIFICATION FairSpec
CONSTANTS
  CRs = {c1}
  Keys = {k1}
  Vals = {v1, v2}
  Policies = {"Fail"}
  DelPolicies = {"Delete"}
  Stamps = TRUE
  Recreate = FALSE
  Unique = FALSE
  Modes = {"Live"}
  Env = {}
  MaxId = 3
  MaxEdits = 3
  MaxFaults = 3
  NoCR = NoCR
  Human = Human
INVARIANTS OneObjectEach NothingLeftBehind
PROPERTIES Converges DeletionCompletes
CHECK_DEADLOCK FALSE
