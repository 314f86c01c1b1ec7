SPECIFICATION FairSpec
CONSTANTS
  j1 = j1
  j2 = j2
  k1 = k1
  k2 = k2
  Old = Old
  Mixed = Mixed
  None = None
  Jobs = {j1, j2}
  Cancels = {k1, k2}
INVARIANT CredsAlwaysForgotten
CHECK_DEADLOCK FALSE
