CONSTANTS
  t1 = t1
  t2 = t2
  Threads <- MCThreads
  None = None
  CallerLocks = FALSE
  Capacity = 3
  MaxBatch = 2
  MaxCalls = 2
SPECIFICATION Spec
PROPERTY CallsReturn
