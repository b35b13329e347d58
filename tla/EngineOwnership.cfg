SPECIFICATION Spec
CONSTANTS
  CRs = {c1}
  Keys = {k1, k2}
  Vals = {v1}
  Policies = {"Fail", "AdoptOnly"}
  DelPolicies = {"Delete", "Retain", "Skip"}
  Stamps = TRUE
  Recreate = TRUE
  Unique = TRUE
  Modes = {"Live", "DryRun"}
  Env = {"KeyEdit", "PolicyEdit", "Strip", "HumanCreate", "Rename", "HumanDelete", "Outage"}
  MaxId = 3
  MaxEdits = 2
  MaxFaults = 1
  NoCR = NoCR
  Human = Human
INVARIANTS RecordedIdIsOwn OnlyTouchesOwn
SYMMETRY Symmetry
CHECK_DEADLOCK FALSE
