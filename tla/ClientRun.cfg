CONSTANTS
  N = 2
  MaxStarts = 3
  MaxWin = 1
  Cap = 1
  MaySetupFail = TRUE
  MayRefuse = TRUE
  MayDie = TRUE
  MayDbFail = TRUE
  Stalling = {1}
SPECIFICATION FairSpec
INVARIANTS TypeOK PrintedIsStored StreamedIsStored
PROPERTIES ServersReleased SignalEnds
CHECK_DEADLOCK FALSE
