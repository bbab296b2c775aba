SPECIFICATION FairSpec
CONSTANTS
  Timers = {t1, t2}
  MaxRetryTimes = 2
  FailingKinds = {"T3591"}
  MaxRequests = 5
  None = None
CHECK_DEADLOCK FALSE
INVARIANTS
  TypeOK
  AllRetriesMade
  StopOnce
  RunningIsReachable
PROPERTIES
  TimersEnd
  HandlersFinish
