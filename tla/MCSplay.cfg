CONSTANTS
  Keys = {1, 2, 3, 4, 5}
  NULL = NULL
SPECIFICATION Spec
INVARIANTS
  WalkIsComplete
PROPERTY IsAKeySet
