CONSTANTS
  ByteBits = 2
  Cap = 3
  Size = 4
  Memories <- MCMemories
SPECIFICATION Spec
INVARIANTS
  TypeOK
  ReadBack
  PaddingIsZero
  SlackUntouched
  EofAfterAll
PROPERTY ImplementsBitLog
