SPECIFICATION Spec
CONSTANTS
  r1 = r1
  r2 = r2
  TxQueueMax = 1
  Foreign = Foreign
  Rows <- MCRows
  NoRow = NoRow
  MaxRecords = 2
  Loads <- MCLoads
INVARIANTS
  Consistent
  TruthfulStatus
  SilentWhenWithdrawn
PROPERTIES
  StopResolves
  EveryMessageTried
