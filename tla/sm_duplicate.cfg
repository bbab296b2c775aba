SPECIFICATION Spec
CONSTANTS
  c1 = c1
  c2 = c2
  k1 = k1
  a1 = a1
  a2 = a2
  u1 = u1
  u2 = u2
  Ctxs <- Ctx2
  Keys = {k1}
  Addrs = {a1, a2}
  UPFs = {u1}
  DefaultPath = {u1}
  RulePath = {}
  MaxRequests = 4
  EmptyGrants = FALSE
  None = None
SYMMETRY Symmetry2
CHECK_DEADLOCK FALSE
INVARIANTS
  LiveSessionIndexed
