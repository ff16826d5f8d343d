SPECIFICATION FairSpec
CONSTANTS
  Subscribers = {u1}
  MaxPieces = 2
  LeaseHolds = FALSE
  AppendMayFail = TRUE
  None = None
INVARIANTS TypeOK SeesPrefix FullAnswer DoneNotContradicted LogGapless
PROPERTIES EverySubscriberCloses
CHECK_DEADLOCK FALSE
