SPECIFICATION MCSpec
CONSTANTS
  Workers = {w1, w2}
  Bottom = 3
  Top = 8
  ParentLo = 4
  ParentHi = 7
  Sizes = {2, 3, 5}
  MaxAttempts = 2
  MaxEdits = 2
  MaxOccupied = 3
SYMMETRY Symmetry
INVARIANTS PlacedDisjoint GapCorrect
PROPERTIES RejectedWereRaced AllocatesAtomically
CHECK_DEADLOCK FALSE
