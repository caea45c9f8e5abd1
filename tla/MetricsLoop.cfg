CONSTANTS
  Window = 3
  MaxLate = 1
  MaxWrite = 3
  MaxTime = 13
  MaxCount = 2
SPECIFICATION FairSpec
INVARIANTS Tiled NoDrift OneLateWindow
PROPERTIES LoopEnds
CHECK_DEADLOCK FALSE
