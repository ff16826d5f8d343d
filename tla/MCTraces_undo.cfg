SPECIFICATION Spec
CONSTANTS
  Traces = {t1, t2}
  Gone = Gone
  Editors = {e1, e2}
  Transfers <- MCTransfers
  Given <- MCGiven
  MaxEdits = 2
  MaxLoads = 1
  MaxSaves = 1
  x = x
  y = y
SYMMETRY Symmetry
INVARIANTS UndoSaved
CHECK_DEADLOCK FALSE
