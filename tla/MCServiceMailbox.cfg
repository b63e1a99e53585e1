SPECIFICATION MailboxSpec
CONSTANTS
  NormalSlots = 3
  BlockCount = 3
  MaxBlocks = 2
  MaxId = 4
  NormalOps = {"Send"}
  LifecycleOps = {"Restart"}
  Outcomes = {ok}
  NoOutcome = NoOutcome
INVARIANTS
  RingHoldsWaiting
  AdmissionOrder
  CreditsExact
CHECK_DEADLOCK FALSE
