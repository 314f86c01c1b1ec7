SPECIFICATION FairSpec
CONSTANTS
  q1 = q1
  q2 = q2
  q3 = q3
  k1 = k1
  b1 = b1
  b2 = b2
  b3 = b3
  None = None
  Queries = {q1, q2, q3}
  Tokened <- MCTokened
  Cancels = {k1}
  Backends = {b1, b2}
  MaxConn = 2
  MaxStmts = 2
INVARIANT IInv
PROPERTY MisfireOnlyAfterTargetEnded
PROPERTY CancelReturns
PROPERTY InterruptedRunReleases
CHECK_DEADLOCK FALSE
