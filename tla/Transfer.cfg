CONSTANTS
  pg1 = pg1
  my1 = my1
  lite1 = lite1
  Conns <- MCConns
  EngineOf <- MCEngineOf
  Dumps <- MCDumps
  MaxJobs = 1
  MaxAsks = 2
  MaxGestures = 5
  None = None
SPECIFICATION Spec
CHECK_DEADLOCK FALSE
INVARIANT IInv ImportsAreHonest
