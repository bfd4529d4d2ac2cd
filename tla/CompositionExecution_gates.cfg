SPECIFICATION Spec
CONSTANTS
  r1 = r1
  r2 = r2
  r3 = r3
  t1 = t1
  t2 = t2
  t3 = t3
  Rows = {r1}
  Roots = {r1}
  Tasks = {t1, t2, t3}
  NoRow = NoRow
  Plan <- GatesPlan
  MaxSteps = 3
  MaxDepth = 1
  MaxCrashes = 1
  MaxFaults = 1
SYMMETRY TaskSymmetry
INVARIANTS
  TypeOK
  OneRunnerPerRow
  InMemoryStateIsFresh
  NoStrandedRow
  SuspensionWellFormed
  CompletedMeansAllDone
  BegunOnce
  CancelStopsSteps
PROPERTIES
  KeepsLifecycle
  TerminalIsFinal
CHECK_DEADLOCK FALSE
