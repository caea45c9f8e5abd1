CONSTANTS
  N = 2
  MaxStarts = 2
  MaxWin = 1
  Cap = 2
  MaySetupFail = FALSE
  MayRefuse = TRUE
  MayDie = FALSE
  MayDbFail = FALSE
  Stalling = {}
SPECIFICATION Spec
INVARIANTS EveryWindowStored
CHECK_DEADLOCK FALSE
