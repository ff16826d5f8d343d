SPECIFICATION FairSpec
CONSTANTS
  Runs = {r1, r2}
  Conversations = {c1}
  Workers = {w1}
  MaxAttempts = 1
  LeaseHolds = FALSE
  None = None
PROPERTIES EveryRunEnds
CHECK_DEADLOCK FALSE
