SPECIFICATION SideBySide
CONSTANTS
  Ann = Ann
  Bob = Bob
  Annual = Annual
  Sick = Sick
  YearLength = 14
  Employee <- People
  LeaveType <- RaceTypes
  Asks <- RaceAsks
  DefaultUnits <- RaceUnits
  MaxRun <- RaceRun
  Holidays = {}
  Today = 0
  Session = {s1, s2}
  HasApprover = {Ann}
  MaxRequests = 2
  Jobs = 3
  KindOf <- OneOfEach
  Replica = {w1, w2}
  MaxAttempts = 2
INVARIANTS
  NumbersContiguous
  NoWaitCycle
  EveryRequestHasBalance
  RecordsAgree
  UsedBackedByApprovals
  ExclusiveJobs
  AttemptsAccounted
PROPERTIES
  NeverReopened
  TransactionsEnd
  Final
  QueueDrains
CHECK_DEADLOCK FALSE
