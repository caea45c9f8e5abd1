CONSTANTS
  Workers = {w1, w2, w3}
  MaxTests = 3
  MaxWrites = 1
SPECIFICATION FairSpec
INVARIANTS TypeOK SilencedByOldListener
PROPERTIES StaleWorkerEnds
CHECK_DEADLOCK FALSE
