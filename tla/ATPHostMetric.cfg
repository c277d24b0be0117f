SPECIFICATION Spec
CONSTANTS
  AddrBits = 3
  MulticastLen = 1
  LocalMulticast = {4}
  MaxMetric = 3
  Interfaces = {1, 2}
  IfAddresses <- MCIfAddresses
  Calls <- MCCalls
  MulticastCalls <- MCMulticastCalls
  MaxRoutes = 3
  MaxAddresses = 2
  RunningRoutes <- MCRunningRoutes
  RunningAddrs <- MCRunningAddrs
  Sockets = {s1, s2}
  Senders = {s1}
  BindAddresses = {2}
  Ports = {1}
  EphemeralPorts = {8}
  Destinations = {1, 2, 3}
  Devices = {1}
  MaxQueue = 2
INVARIANT
  MetricDecides
