SPECIFICATION Spec
CONSTANTS
  FanIns <- MCFanIns
  NumPackets = 1
  Windows = {1}
  Slots = 1
  Hierarchical = TRUE
  UpCapacity = 1
  LinkCapacity = 1
  Faults = {"data", "early"}
  MaxFaults = 2
INVARIANT
  TruthfulBitmaps
CHECK_DEADLOCK FALSE
