----------------------------- MODULE MCATPHost -----------------------------
(***************************************************************************)
(* A node with two interfaces and addresses of three bits, the upper half  *)
(* multicast, and two sockets, one of which sends.                         *)
(***************************************************************************)
EXTENDS ATPHost

A(local, len) == [local |-> local, len |-> len]

\* Two addresses in one network, one in another, and a host address.
MCIfAddresses == <<{A(2, 2), A(3, 2), A(1, 2)}, {A(1, 3)}>>

\* Default routes of two metrics, a network, host routes that compete.
MCCalls ==
  {NetworkRoute(0, 0, 2, 1, 1), NetworkRoute(0, 0, 3, 2, 0),
   NetworkRoute(2, 2, 1, 2, 1),
   NetworkRoute(3, 3, 1, 1, 1), NetworkRoute(3, 3, 1, 2, 0)}

\* Interface 1 is in the network of 2 and 3; the default route leads through it.
MCRunningRoutes == <<ConnectedRoute(1, A(3, 2)), NetworkRoute(0, 0, 2, 1, 1)>>
MCRunningAddrs == <<<<A(3, 2)>>, <<>>>>

MCMulticastCalls ==
  {[origin |-> 1, group |-> 5, input |-> 1, outputs |-> {0, 2}]}
=============================================================================
