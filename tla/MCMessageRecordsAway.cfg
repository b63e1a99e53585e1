SPECIFICATION Spec
CONSTANTS
  MaxCounter = 2
  MaxRevision = 3
  Devices <- AwayDevices
  Ids = {m1}
  NoId = NoId
  Absent = Absent
INVARIANTS
  DeliveredIsFinal
