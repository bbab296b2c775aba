SPECIFICATION FairSpec
CONSTANTS
  Timers = {t1}
  MaxRetryTimes = 2
  FailingKinds = {"T3592"}
  MaxRequests = 1
  None = None
CHECK_DEADLOCK FALSE
PROPERTIES
  TimersEnd
