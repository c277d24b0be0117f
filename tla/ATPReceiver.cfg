SPECIFICATION Spec
CONSTANTS
  Jobs = {1, 2}
  SeqNums = {0, 1, 2}
  JobTreeMap <- MCJobTreeMap
  AddressMap = {1}
  Arrivals <- MCArrivals
  RxBufferSize = 2
  RxModulus = 256
  MaxAckEvents = 2
INVARIANTS
  TypeOK
  AtMostOnce
  DeliveredComplete
  AckImpliesDelivered
  SinkCountExact
CHECK_DEADLOCK FALSE
