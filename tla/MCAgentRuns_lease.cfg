SPECIFICATION Spec
CONSTANTS
  Runs = {r1, r2}
  Conversations = {c1}
  Workers = {w1, w2}
  MaxAttempts = 2
  LeaseHolds = TRUE
  None = None
SYMMETRY Symmetry
INVARIANTS TypeOK ClaimedOnce LivingRunNotSwept NoSecondLoop CancelNotLost
PROPERTIES ImplementsLifecycle
CHECK_DEADLOCK FALSE
