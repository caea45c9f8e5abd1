CONSTANTS
  Hosts = {a, b}
  Self = a
  Other = b
  Total = t
  MaxOps = 2
  MaxRows = 4
  Second = 3
  Lates = {0, 4}
  MinWindow = 2
  TicksPerSecond = 3
  WorstCount = 1
SPECIFICATION Spec
INVARIANTS SharesAddUp SentIsReported ReportOrdered CrowdedAfterStall
CHECK_DEADLOCK FALSE
