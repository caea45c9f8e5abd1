CONSTANTS
  Workers = {w1, w2}
  Chunks = 2
  MaxTests = 2
  MaxSeq = 3
  MaxRecv = 3
SPECIFICATION Spec
INVARIANTS TypeOK SeqsAccounted DropsAreGaps
CHECK_DEADLOCK FALSE
SYMMETRY WorkerSymmetry
