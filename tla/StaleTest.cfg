SPECIFICATION Spec
CONSTANTS
  a = a
  b = b
  Ids <- MCIds
  MaxGestures = 6
  None = None
SYMMETRY Sym
INVARIANT
  TestChecksTheForm
CHECK_DEADLOCK FALSE
