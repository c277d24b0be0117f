SPECIFICATION Spec
CONSTANTS
  j1 = j1
  j2 = j2
  w1 = w1
  w2 = w2
  Jobs = {j1, j2}
  Workers <- MCWorkers
  ModelSize <- MCModelSize
  ComputeTime <- MCComputeTime
  MaxIterations = 2
  BufferSize = 1
  MaxPackets = 4
  MaxTime = 4
INVARIANTS
  OneEventPerJob
  LimitReached
PROPERTIES
  ComputePhaseIsSilent
  JobsWaitOnlyForData
CHECK_DEADLOCK FALSE
