SPECIFICATION FairSpec
CONSTANTS
  a = a
  b = b
  c = c
  Tasks <- MCTasks
  Updating <- MCUpdating
  Ending <- MCEnding
  NoTask = NoTask
  MaxThreads = 2
  MaxFinish = 2
  MinCapacity = 2
  LateStart = FALSE
  QuitWhileBusy = FALSE
INVARIANTS
  TypeOK
  FreedIsQuiet
  EndAfterMain
  TaskAccounting
  RoomForFew
PROPERTIES
  DestroyedWhenDrained
  DestroyOutsideCallbacks
  TaskCompletes
  FinishCompletes
CHECK_DEADLOCK FALSE
