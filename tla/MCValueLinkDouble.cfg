CONSTANTS
  Width = 64
  Values <- DoubleValues
SPECIFICATION Spec
INVARIANTS
  TypeOK
  LockStep
  RoundTrip
  WindowIsProper
  TornValueIsEof
  ValueBitsBounded
