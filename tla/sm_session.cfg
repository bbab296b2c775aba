SPECIFICATION FairSpec
CONSTANTS
  c1 = c1
  c2 = c2
  k1 = k1
  a1 = a1
  a2 = a2
  u1 = u1
  u2 = u2
  Ctxs <- Ctx1
  Keys = {k1}
  Addrs = {a1, a2}
  UPFs = {u1, u2}
  DefaultPath = {u1}
  RulePath = {u2}
  MaxRequests = 4
  EmptyGrants = FALSE
  None = None
CHECK_DEADLOCK FALSE

  
PROPERTIES
  AcceptedIsInstalled
  RemovalHappens
  RequestsFinish
