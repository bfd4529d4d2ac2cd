SPECIFICATION Spec
CONSTANTS
  r1 = r1
  r2 = r2
  r3 = r3
  t1 = t1
  t2 = t2
  t3 = t3
  Rows = {r1, r2, r3}
  Roots = {r1}
  Tasks = {t1, t2, t3}
  NoRow = NoRow
  Plan <- NestedPlan
  MaxSteps = 2
  MaxDepth = 1
  MaxCrashes = 0
  MaxFaults = 0
SYMMETRY TaskSymmetry
INVARIANTS
  NoStrandedParent
CHECK_DEADLOCK FALSE
