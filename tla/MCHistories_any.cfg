SPECIFICATION Growth
CONSTANTS
  MaxRows = 4
  FileSize <- TwoFiles
  FileBudget = 2
  WindowPrompts = 2
  Compacts = FALSE
INVARIANTS RequestAccepted NothingLost WholeRoundsKept FilesInBudget
CHECK_DEADLOCK FALSE
