SPECIFICATION Spec
CONSTANTS
  Messages = 2
  NumParts = 2
  MAX_ADV_RETRIES = 1
  MAX_PART_RETRIES = 1
  Windows = {2}
  Controls = 1
  MaxLinks = 2
  MaxFlight = 2
  MaxLost = 1
INVARIANTS
  Consistent
PROPERTIES
  ImplementsDelivery
  EveryTransferEnds
\* With every message of the bound sent, both devices rest.
CHECK_DEADLOCK FALSE
