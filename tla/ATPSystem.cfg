SPECIFICATION Spec
CONSTANTS
  FanIns <- MCFanIns
  NumPackets = 2
  Windows = {1, 2}
  Slots = 1
  Hierarchical = FALSE
  UpCapacity = 2
  LinkCapacity = 1
  Faults = {"data", "ack"}
  MaxFaults = 1
INVARIANTS
  TruthfulBitmaps
  DeliveredOnceAndComplete
  AckedIsDelivered
PROPERTY
  ImplementsAllReduce
CHECK_DEADLOCK FALSE
