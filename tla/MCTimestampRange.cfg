CONSTANTS
  TsBits = 16
  LastBits = 14
  BlockTimestamps <- MCBlockTimestamps
  Timestamps <- MCTimestamps
SPECIFICATION Spec
INVARIANT EveryTimestampReturned
