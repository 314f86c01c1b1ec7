SPECIFICATION Spec
CONSTANTS
  a = a
  b = b
  Ids <- MCIds
  MaxGestures = 6
  None = None
SYMMETRY Sym
INVARIANTS
  IInv
  SecretsFollowProfiles
CHECK_DEADLOCK FALSE
