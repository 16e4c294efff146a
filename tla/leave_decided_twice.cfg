SPECIFICATION Spec
CONSTANTS
  Ann = Ann
  Bob = Bob
  Annual = Annual
  Sick = Sick
  YearLength = 14
  Employee <- People
  LeaveType <- RaceTypes
  Asks <- RaceAsks
  DefaultUnits <- RaceUnits
  MaxRun <- RaceRun
  Holidays = {}
  Today = 0
  Session = {s1, s2}
  HasApprover = {Ann}
  MaxRequests = 2
INVARIANT DecidedOnce
CHECK_DEADLOCK FALSE
