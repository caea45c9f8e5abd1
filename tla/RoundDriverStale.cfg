CONSTANTS
  N = 2
  Window = 1
  Lateness = 1
  Traffic = 3
  AckDeadline = 1
  MaxRounds = 2
SPECIFICATION Spec
INVARIANTS AckedRoundEmits
CHECK_DEADLOCK FALSE
