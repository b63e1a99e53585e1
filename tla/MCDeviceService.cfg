SPECIFICATION FairSpec
CONSTANTS
  NormalSlots = 2
  BlockCount = 0
  MaxBlocks = 0
  MaxId = 3
  NormalOps = {"Send", "Write", "Query"}
  LifecycleOps = {"Restart", "PowerOff"}
  Outcomes = {"Ok", "Failed", "Cancelled", "NotReady"}
  NoOutcome = NoOutcome
  Loads <- MCLoads
INVARIANTS
  QuietTeardown
  RunningIsOwned
PROPERTIES
  CancelledStaysSilent
  FailedNeverPerforms
  LifecycleAnswered
  WorkAnswered
CHECK_DEADLOCK FALSE
