CONSTANTS
  TsBits = 16
  LastBits = 14
  Width = 8
  Points <- MCPoints
  BlockTimestamps <- MCBlockTimestamps
  Caps = {2, 7, 12}
  Fills <- MCFills
  MaxPoints = 3
  MaxBatch = 2
SPECIFICATION Spec
INVARIANTS
  TypeOK
  TornNeverDecodes
  ShiftsAreDefined
  PaddingOnlyRepeats
  EnoughRoom
PROPERTIES
  OverflowIsFinal
  StatusCountsPoints
  ImplementsPointLog
  ReadLoopEnds
