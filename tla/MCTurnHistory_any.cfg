SPECIFICATION Spec
CONSTANTS
  Runs = {r1, r2}
  NoRun = NoRun
  Environments <- MCEnvironments
  FileSize <- OneFile
  FileBudget = 1
  WindowPrompts = 1
  Compacts = TRUE
SYMMETRY Symmetry
INVARIANTS TypeOK EveryRequestAccepted TailRepaired TurnsWhole MemoryMatchesRows
CHECK_DEADLOCK FALSE
