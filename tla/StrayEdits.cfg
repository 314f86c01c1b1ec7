SPECIFICATION Spec
CONSTANTS
  r1 = r1
  r2 = r2
  c1 = c1
  c2 = c2
  users = users
  orders = orders
  v0 = v0
  v1 = v1
  l1 = l1
  l2 = l2
  Gone = Gone
  None = None
  Tables = {users, orders}
  Rows = {r1}
  Cols = {c1, c2}
  Cells = {v0, v1}
  Lines = {l1}
  MaxJobs = 2
  MaxShown = 3
  MaxGestures = 4
SYMMETRY MCSymmetry
INVARIANT PendingWasTyped
CHECK_DEADLOCK FALSE
