CONSTANTS
  MaxConns = 1
  MaxReqs = 2
  MaxWin = 2
  Cap = 1
  Udp = FALSE
SPECIFICATION Spec
INVARIANTS WindowsReadable
CHECK_DEADLOCK FALSE
