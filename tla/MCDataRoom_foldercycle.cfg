SPECIFICATION Spec
CONSTANTS
  Files = {f1, f2}
  Folders = {d1, d2, d3}
  Root = Root
  Absent = Absent
  Members = {a1, a2}
  MaxRequests = 2
  MovesAtOnce = 2
SYMMETRY Symmetry
INVARIANTS NoFolderCycle
CHECK_DEADLOCK FALSE
