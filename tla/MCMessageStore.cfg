SPECIFICATION StoreFairSpec
CONSTANTS
  p1 = p1
  p2 = p2
  Peers <- MCPeers
  Stored <- MCStored
  TrimLimit = 1
  NumNormal = 1
  LargeSlots = {0}
  Requests <- MCRequests
  Results <- Reports
  Cancelled = Cancelled
  NoResult = NoResult
  Stop = 255
  MaxSequence = 3
INVARIANTS
  TotalsExact
  NothingBehindDelete
PROPERTIES
  SettlesInOrder
  FenceLifts
