SPECIFICATION Spec
CONSTANTS
  BufferSize = 2
  InitCwnds = {1, 2}
  MaxCwnd = 3
  Limits = {0, 2, 3}
  MaxPackets = 6
INVARIANTS
  TypeOK
  SeqNumIsPacketId
  QueuesInOrder
  NoLostWakeup
  OutstandingBounded
  UnackedRetransmitted
PROPERTY
  LeftBoundMonotone
CHECK_DEADLOCK FALSE
