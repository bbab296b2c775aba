SPECIFICATION Spec
CONSTANTS
  flow = flow
  pdu = pdu
  Urrs = {flow, pdu}
  PduLevel = {pdu}
  Group <- OneGroup
  MaxUnits = 2
  MaxJobs = 2
  MaxTimers = 2
  MaxFaults = 1
INVARIANTS
  TypeOK
  ChargedOnce
  
  
  OneLimitTimer
CHECK_DEADLOCK FALSE
