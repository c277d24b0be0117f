SPECIFICATION Spec
CONSTANTS
  AddrBits = 8
  MulticastLen = 1
  LocalMulticast = {128}
  MaxMetric = 3
  Parameters <- MCParameters
  JsonParameters <- MCJsonParameters
  JsonJobs <- MCJsonJobs
INVARIANTS
  PlacementSound
  AroHonoured
  DataArrives
  AckReachesEveryWorker
  FlatBitmapCorrect
