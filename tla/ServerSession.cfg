CONSTANTS
  MaxConns = 2
  MaxReqs = 3
  MaxWin = 1
  Cap = 1
  Udp = FALSE
SPECIFICATION FairSpec
INVARIANTS TypeOK OneTest NoOrphanTest AckMeansQuiet ReceiversOwned
PROPERTIES ImplementsContract CancelledTestDies ServerComesBack SessionResponsive
CHECK_DEADLOCK FALSE
