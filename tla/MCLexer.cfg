SPECIFICATION Spec
CONSTANTS
  Chars <- MCChars
  Texts <- MCTexts
  Chunks <- MCChunks
  MaxText = 3
  Reads = {3}
  Packets = {1, 2, 5}
  MEM_CACHE = 2
  DISK_CACHE = 2
  RESTORE_CACHE = 1
  Sizes = {0, 1}
  MaxRestored = 2
INVARIANTS
  LexTypeOK
  InOrder
  EndMeansEmpty
  PositionExact
PROPERTY
  TokensExact
CHECK_DEADLOCK FALSE
