SPECIFICATION Spec
CONSTANTS
  TxQueueMax = 1
  Foreign = Foreign
  Rows = {0, 1}
  Slots = {0, 1}
  ReceiptsPerRow = 2
  MaxControls = 1
  MaxGeneration = 2
  MaxVisibility = 2
  Worn = {1}
  Called = {"ann"}
  Peers = {"ann", "bob"}
  Messages = {"text", "smile"}
  Reactions = {"smile"}
  Source <- MCSource
  NoRow = NoRow
  NoMessage = NoMessage
  NoPeer = NoPeer
INVARIANTS
  Consistent
  ProofAfterStore
  SilentAfterDrop
PROPERTIES
  StopDrains
