SPECIFICATION FairSpec
CONSTANTS
  Capacity = 2
  Window = 2
  AckWindow = 5
  Limit = 3
  MaxEvents = 4
  MaxFaults = 2
INVARIANTS
  TypeOK
  AtMostOnce
  InOrder
  LosslessWhileHealthy
PROPERTIES
  BufferDrains
  EventuallyAggregated
CHECK_DEADLOCK FALSE
