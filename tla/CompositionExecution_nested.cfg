SPECIFICATION FairSpec
CONSTANTS
  r1 = r1
  r2 = r2
  r3 = r3
  t1 = t1
  t2 = t2
  t3 = t3
  Rows = {r1, r2, r3}
  Roots = {r1}
  Tasks = {t1, t2}
  NoRow = NoRow
  Plan <- NestedPlan
  MaxSteps = 2
  MaxDepth = 1
  MaxCrashes = 1
  MaxFaults = 0
INVARIANTS
  OneRunnerPerRow
  DepthBounded
PROPERTIES
  ExpiresOnlyWhenDue
  ChildAnswersOwnParent
  EventuallyEnds
CHECK_DEADLOCK FALSE
