SPECIFICATION Spec
CONSTANTS
  pg1 = pg1
  pg2 = pg2
  my1 = my1
  create = create
  drop = drop
  None = None
  Conns = {pg1, pg2, my1}
  EngineOf <- MCEngineOf
  Changes = {create, drop}
  Drops = {drop}
  MaxLog = 1
  MaxBatches = 2
  MaxGestures = 4
SYMMETRY MCSymmetry
INVARIANT IInv
INVARIANT DropsArePicked
INVARIANT LogTellsTheServer
CHECK_DEADLOCK FALSE
