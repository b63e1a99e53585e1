SPECIFICATION FairSpec
CONSTANTS
  NumNormal = 2
  LargeSlots = {1}
  Requests <- MCRequests
  Results = {done}
  Cancelled = Cancelled
  NoResult = NoResult
  Stop = 255
  MaxSequence = 4
INVARIANTS
  StopReachesWorker
  FatesAreHonest
PROPERTIES
  HandoffIsQuiet
  ImplementsTickets
  EveryRequestAnswered
