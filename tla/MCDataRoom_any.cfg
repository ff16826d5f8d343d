SPECIFICATION Spec
CONSTANTS
  Files = {f1, f2}
  Folders = {d1, d2, d3}
  Root = Root
  Absent = Absent
  Members = {a1, a2}
  MaxRequests = 2
  MovesAtOnce = 1
SYMMETRY Symmetry
INVARIANTS TypeOK RowHasObject NoFolderCycle TreeWhole
PROPERTIES RemovalsLogged
CHECK_DEADLOCK FALSE
