CONSTANTS
  Width = 32
  Values <- FloatValues
SPECIFICATION Spec
INVARIANTS
  RoundTrip
