SPECIFICATION FairSpec
CONSTANTS
  t1 = t1
  t2 = t2
  w1 = w1
  w2 = w2
  Turn = {t1, t2}
  Worker = {w1, w2}
  Deployments <- EveryDeployment
  SlowHandlers = FALSE
  Object = {o1, o2, o3}
  Key = key
  None = none
INVARIANTS
  TypeOK
  PerformedOnce
PROPERTIES
  ClaimFreed
CHECK_DEADLOCK FALSE
