SPECIFICATION Spec
CONSTANTS
  Ann = Ann
  Bob = Bob
  Annual = Annual
  Sick = Sick
  YearLength = 14
  Employee <- People
  LeaveType <- SerialTypes
  Asks <- SerialAsks
  DefaultUnits <- SerialUnits
  MaxRun <- SerialRun
  Holidays <- SerialHolidays
  Today = 0
  Session = {s1}
  HasApprover = {Ann}
  MaxRequests = 3
INVARIANT RunLimitHonoured
CHECK_DEADLOCK FALSE
