SPECIFICATION FairSpec
CONSTANTS
  Callers = {c1, c2}
  Closers = {k1}
  Timed = {c1}
  MaxCalls = 1
  MaxSpawn = 2
  OwnIds = {1}
  Npx = TRUE
  None = None
INVARIANTS TypeOK OwnAnswer PendingIsAwaited KnowsItsProcess
PROPERTY CallsEnd
CHECK_DEADLOCK FALSE
