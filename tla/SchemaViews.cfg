CONSTANTS
  pg = pg
  my = my
  None = None
  Gone = Gone
  Conns = {pg, my}
  EngineOf <- MCEngineOf
  MaxGestures = 6

SPECIFICATION Spec

INVARIANTS
  IInv
  CacheFollowsDdl
  EditsAreWhole

CHECK_DEADLOCK FALSE
