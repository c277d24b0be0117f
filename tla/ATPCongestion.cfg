SPECIFICATION Spec
CONSTANTS
  FanIns <- MCFanIns
  MaxTime = 3
  MaxUp = 1
  MaxCwnd = 3
  InitCwnds = {1, 2}
  Scale = 6
  WaitingThreshold = 1
  SampleThreshold = 2
  Positions <- MCPositions
INVARIANTS
  WaitWithinRtt
  VirtualWindowSound
  StragglersConsistent
  MarksEchoed
PROPERTY
  ShrinksForAReason
