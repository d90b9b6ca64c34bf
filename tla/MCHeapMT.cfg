SPECIFICATION FairSpec
CONSTANTS
  m = m
  w1 = w1
  w2 = w2
  b1 = b1
  b2 = b2
  s1 = s1
  Threads <- MCThreads
  Main = m
  Blocks <- MCBlocks
  Slots <- MCSlots
  NULL = NULL
  MaxIncr = 4
  Disciplined = TRUE
INVARIANTS
  TypeOK
  MutualExclusion
  BytesExact
  CountExact
  MutexPresent
PROPERTY
  CallsReturn
  CallsAtomic
CHECK_DEADLOCK FALSE
