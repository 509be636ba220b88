SPECIFICATION MCFairSpec
CONSTANTS
  MinSize = 2
  MaxSize = 4
  Workers = {w1, w2}
  Tasks = {k1, k2, k3}
  Base = 2
  HalfLen = 2
  HeadIdLen = 2
  MsgIds = {2}
  Bodies <- MCBodies
  MaxMessages = 3
  Routines = {"sse2", "avx", "smart"}
  Addresses = {0, 1, 16, 57}
  Sizes <- MCSizes
  CacheSize = 400
  SmartLimit = 500
CHECK_DEADLOCK FALSE
INVARIANTS PartsTypeOK ThreadsMatchSize BaseContextsServe NoTaskSleeps FramesExact WritesExactly
PROPERTIES EachContextChosen StopReturns StopReturnsFromTasks
