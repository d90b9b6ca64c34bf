SPECIFICATION FairSpec
CONSTANTS
  a = a
  b = b
  c = c
  Tasks <- MCTasks
  Updating <- MCUpdating
  Ending <- MCEnding
  NoTask = NoTask
  MaxThreads = 2
  MaxFinish = 2
  MinCapacity = 2
  LateStart = FALSE
  QuitWhileBusy = TRUE
PROPERTY
  DestroyedWhenDrained
CHECK_DEADLOCK FALSE
