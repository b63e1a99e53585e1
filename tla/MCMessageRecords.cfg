SPECIFICATION Spec
CONSTANTS
  MaxCounter = 4
  MaxRevision = 4
  Devices <- MCDevices
  Ids = {m1}
  NoId = NoId
  Absent = Absent
INVARIANTS
  AckedIsDurable
  DeliveredStaysDelivered
  OneRecordPerMessage
  CountersFresh
  DeletedStaysDeleted
