SPECIFICATION Spec
CONSTANTS
  cA = cA
  cB = cB
  None = None
  Away = Away
  Blank = Blank
  Connections = {cA, cB}
  Tables = {users}
  Texts = {q1}
  Starter = q1
  Limits = {10, 50}
  MaxTabs = 3
  MaxRuns = 2
  MaxLoads = 2
  MaxPages = 2
  MaxGestures = 4
SYMMETRY MCSymmetry
INVARIANT IInv
INVARIANT RunsAndTabsAgree
INVARIANT LoadsDelivered
CHECK_DEADLOCK FALSE
