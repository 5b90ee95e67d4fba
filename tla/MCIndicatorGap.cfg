SPECIFICATION IndicatorSpec
CONSTANTS
  a = a
  Symbol = {a}
  Length <- MCLength
  MaxRevision = 1
  BootstrapBars = 2
  MaxRestarts = 1
  MaxWrites = 3
  MaxFaults = 0
INVARIANT GapRepairRequestsRebuild
CHECK_DEADLOCK FALSE
