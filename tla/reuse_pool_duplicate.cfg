SPECIFICATION Spec
CONSTANTS
  MinValue = 1
  MaxValue = 6
  DuplicateFrees = TRUE
PROPERTY DuplicateFreeRefused
