SPECIFICATION FairSpec
CONSTANTS
  Timers = {t1, t2}
  MaxRetryTimes = 1
  FailingKinds = {"T3591"}
  MaxRequests = 2
  None = None
CHECK_DEADLOCK FALSE
PROPERTIES
  NoEventAfterStop
