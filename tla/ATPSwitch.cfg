SPECIFICATION Spec
CONSTANTS
  Jobs = {1, 2}
  SeqNums = {1, 2}
  Bits = {0, 1}
  Workers <- MCWorkers
  Arrivals <- MCArrivals
  MaxSlots = 2
  MaxCollisions = 2
  HashToIndex <- MCHash
INVARIANTS
  TypeOK
  SlotHomed
  AggCountExact
PROPERTY
  NoSlotStealing
