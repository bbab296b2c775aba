SPECIFICATION Spec
CONSTANTS
  u1 = u1
  u2 = u2
  a = a
  Nodes = {u1, u2}
  An = a
  Slice = {u1, u2}
  Serving = {u1, u2}
  FirstLinks <- LineLinks
  Configs <- LineConfigs
  FirstNodes = {u1, u2}
  Sessions = {s1}
  MaxGen = 2
  MaxChanges = 2
  MaxLoops = 2
  MaxStarted = 3
  MaxDowns = 1
  None = None
INVARIANTS
  TypeOK
  CachesValid
  AssociatedIsWatched
  LocksNotCrossed
PROPERTIES
  PathAsSelected
  
