SPECIFICATION Spec
CONSTANTS
  MinValue = 1
  MaxValue = 6
  DuplicateFrees = FALSE
INVARIANTS
  TypeOK
  PoolConsistent
PROPERTIES
  ReuseIsLazy
  AllocatorSpec
