SPECIFICATION FairSpec
CONSTANTS
  FanIns <- MCFanIns
  NumPackets = 2
  Windows = {1}
  Slots = 1
  Hierarchical = FALSE
  UpCapacity = 1
  LinkCapacity = 1
  Faults = {"data", "early"}
  MaxFaults = 1
PROPERTY
  EventuallyAllAcked
CHECK_DEADLOCK FALSE
