CONSTANTS
  Workers = {w1}
  MaxTests = 2
  MaxWrites = 1
SPECIFICATION Spec
INVARIANTS AckedPairIsTested
CHECK_DEADLOCK FALSE
