CONSTANTS
  t1 = t1
  t2 = t2
  Threads <- MCThreads
  None = None
  CallerLocks = FALSE
  Capacity = 5
  MaxBatch = 2
  MaxCalls = 3
SPECIFICATION Spec
INVARIANT StreamLayout
