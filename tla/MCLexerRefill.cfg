SPECIFICATION Spec
CONSTANTS
  Chars <- MCChars
  Texts <- MCTexts
  Chunks <- MCChunks
  MaxText = 5
  Reads = {3}
  Packets = {1}
  MEM_CACHE = 2
  DISK_CACHE = 2
  RESTORE_CACHE = 1
  Sizes = {4}
  MaxRestored = 1
PROPERTY
  EOFAtEnd
CHECK_DEADLOCK FALSE
