SPECIFICATION CacheSpec
CONSTANTS
  l1 = l1
  l2 = l2
  l3 = l3
  r1 = r1
  r2 = r2
  r3 = r3
  cA = cA
  cB = cB
  Nothing = Nothing
  Conns = {cA, cB}
  Loads = {l1, l2, l3}
  Requests = {r1, r2, r3}
  MaxChanges = 2
SYMMETRY MCSymmetry
INVARIANT CacheIInv
PROPERTY NeverOlder
CHECK_DEADLOCK FALSE
