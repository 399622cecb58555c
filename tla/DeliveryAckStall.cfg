SPECIFICATION FairSpec
CONSTANTS
  Capacity = 2
  Window = 1
  AckWindow = 1
  Limit = 4
  MaxEvents = 4
  MaxFaults = 0
PROPERTY
  SendReturns
CHECK_DEADLOCK FALSE
