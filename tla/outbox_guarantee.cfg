SPECIFICATION FairOutboxSpec
CONSTANTS
  Jobs = 3
  KindOf <- OneOfEach
  Replica = {w1, w2}
  MaxAttempts = 2
PROPERTY EveryJobSettles
CHECK_DEADLOCK FALSE
