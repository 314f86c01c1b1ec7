SPECIFICATION PoolSpec
CONSTANTS
  c1 = c1
  c2 = c2
  c3 = c3
  d1 = d1
  d2 = d2
  NoCall = NoCall
  Calls = {c1, c2, c3}
  Disconnects = {d1, d2}
SYMMETRY MCSymmetry
INVARIANT PoolIInv
PROPERTY CleanSlate
CHECK_DEADLOCK FALSE
