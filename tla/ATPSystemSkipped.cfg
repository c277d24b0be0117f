SPECIFICATION FairSpec
CONSTANTS
  FanIns <- MCSmallFanIns
  NumPackets = 3
  Windows = {2}
  Slots = 1
  Hierarchical = FALSE
  UpCapacity = 2
  LinkCapacity = 2
  Faults = {"data"}
  MaxFaults = 1
PROPERTY
  EventuallyAllDelivered
CHECK_DEADLOCK FALSE
