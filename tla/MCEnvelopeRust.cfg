CONSTANTS
  p1 = p1
  p2 = p2
  phantom = phantom
  Points <- MCPoints
  Phantom <- phantom
  MaxPoints = 3
  MaxBatch = 2
SPECIFICATION Spec
INVARIANT RustReportsTruncation
CHECK_DEADLOCK FALSE
