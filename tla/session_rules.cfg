SPECIFICATION Spec
CONSTANTS
  u1 = u1
  u2 = u2
  r1 = r1
  r2 = r2
  UPFs = {u1, u2}
  Rules = {r1, r2}
  PduLevel = {r1}
  Charged = {r1, r2}
  Gbr = {r2}
  DefaultRule = r1
  RoutesOf <- SomeRoutes
  DefaultRoute <- RouteA
  MaxPaths = 3
  MaxQFI = 3
  MaxAn = 2
  MaxHandlers = 4
  MaxFaults = 1
  None = None
CHECK_DEADLOCK FALSE
INVARIANTS
  TypeOK
  UpfMatches
  RefsKnown
  
  NoOrphanPaths
  IdsAccounted
  InitialNotSent
