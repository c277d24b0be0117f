-------------------------- MODULE ATPStaticRouting --------------------------
(***************************************************************************)
(* The routing tables of a node: how routes get in, how they are looked    *)
(* up, and where a packet goes that arrives.                               *)
(*                                                                         *)
(* Addresses have AddrBits bits; a network is an address and the length of *)
(* its mask.  A unicast table is a sequence of Route, a multicast table a  *)
(* sequence of MulticastRoute.  NetDevices and interface indices are the   *)
(* same thing here.                                                        *)
(***************************************************************************)
EXTENDS Integers, Sequences, SequencesExt

CONSTANTS
  AddrBits,        \* 32 in the code
  MulticastLen,    \* the mask of 224.0.0.0/4
  LocalMulticast,  \* the addresses of 224.0.0.0/24
  MaxMetric        \* 0xffffffff in the code

ASSUME RoutingAssumption ==
  /\ AddrBits \in Nat
  /\ MulticastLen \in 1..AddrBits
  /\ LocalMulticast \subseteq Nat
  /\ MaxMetric \in Nat \ {0}

\* Powers of two.
Pow2[n \in 0..AddrBits] == IF n = 0 THEN 1 ELSE 2 * Pow2[n - 1]

Address == 0..(Pow2[AddrBits] - 1)
AnyAddress == 0    \* Ipv4Address::GetAny, GetZero
NoDevice == 0      \* a null NetDevice
IfAny == -1        \* Ipv4::IF_ANY

\* Ipv4Address::CombineMask, Ipv4Mask::IsMatch and Ipv4Address::IsMulticast
CombineMask(a, len) == a - (a % Pow2[AddrBits - len])
IsMatch(len, a, b) == CombineMask(a, len) = CombineMask(b, len)
MulticastNet == Pow2[AddrBits] - Pow2[AddrBits - MulticastLen]
IsMulticast(a) == IsMatch(MulticastLen, a, MulticastNet)

Route(interfaces) ==
  [dest : Address, len : 0..AddrBits, gateway : Address,
   interface : interfaces, metric : 0..MaxMetric]

NetworkRoute(network, len, nextHop, interface, metric) ==
  [dest |-> network, len |-> len, gateway |-> nextHop,
   interface |-> interface, metric |-> metric]

\* The outcome of a look-up that finds nothing.
NoRoute == NetworkRoute(AnyAddress, 0, AnyAddress, NoDevice, 0)
-----------------------------------------------------------------------------
(* Adding and removing routes.                                             *)

LookupRoute(routes, r) == r \in Range(routes)

AddNetworkRouteTo(routes, r) ==
  IF LookupRoute(routes, r) THEN routes ELSE Append(routes, r)

HostRoute(dest, nextHop, interface) ==
  NetworkRoute(dest, AddrBits, nextHop, interface, 0)

SetDefaultMulticastRoute(routes, interface) ==
  Append(routes, NetworkRoute(MulticastNet, MulticastLen, AnyAddress, interface, 0))

\* The route to the network of address a = [local, len] of interface i.
ConnectedRoute(i, a) ==
  NetworkRoute(CombineMask(a.local, a.len), a.len, AnyAddress, i, 0)

\* A host address (/32) gets no route here, unlike in NotifyAddAddress.
NotifyInterfaceUp(routes, i, addresses) ==
  FoldLeft(LAMBDA rs, a : IF a.len = AddrBits THEN rs
                          ELSE AddNetworkRouteTo(rs, ConnectedRoute(i, a)),
           routes, addresses)

\* Mutant: one route per call.
NotifyInterfaceDownOne(routes, i) ==
  LET n == SelectInSeq(routes, LAMBDA r : r.interface = i)
  IN IF n = 0 THEN routes ELSE RemoveAt(routes, n)

\* The loops that erase the routes of a set.
EraseRoutes(routes, gone) ==
  FoldLeft(LAMBDA rs, r : IF r \in gone THEN rs ELSE Append(rs, r), <<>>, routes)

\* Multicast routes stay.
NotifyInterfaceDown(routes, i) ==
  EraseRoutes(routes, {r \in Range(routes) : r.interface = i})
-----------------------------------------------------------------------------
(* The look-ups.                                                           *)

Skipped(best, r, dest, oif) ==
  \/ best.done
  \/ ~IsMatch(r.len, dest, r.dest)
  \/ oif # NoDevice /\ oif # r.interface
  \/ r.len < best.longest

\* Mutant: the metric found so far is not forgotten at a longer mask.
ConsiderShortest(best, r, dest, oif) ==
  IF Skipped(best, r, dest, oif) \/ r.metric > best.shortest THEN best
  ELSE [route |-> r, longest |-> r.len, shortest |-> r.metric,
        done |-> r.len = AddrBits]

\* One turn of the loop over the unicast routes: the longest mask, then the
\* smallest metric, then the latest entry, but the first host route ends it.
Consider(best, r, dest, oif) ==
  LET shortest == IF r.len > best.longest THEN MaxMetric ELSE best.shortest
  IN IF Skipped(best, r, dest, oif) THEN best
     ELSE IF r.metric > shortest
     THEN [best EXCEPT !.longest = r.len, !.shortest = shortest]
     ELSE [route |-> r, longest |-> r.len, shortest |-> r.metric,
           done |-> r.len = AddrBits]

\* For a link-local group the caller names the device: the code asserts it.
LookupStatic(routes, dest, oif) ==
  IF dest \in LocalMulticast THEN HostRoute(dest, AnyAddress, oif)
  ELSE FoldLeft(LAMBDA best, r : Consider(best, r, dest, oif),
                [route |-> NoRoute, longest |-> 0, shortest |-> MaxMetric,
                 done |-> FALSE],
                routes).route

GetDefaultRoute(routes) ==
  FoldLeft(LAMBDA best, r : IF r.len # 0 \/ r.metric > best.shortest THEN best
                            ELSE [route |-> r, shortest |-> r.metric],
           [route |-> NoRoute, shortest |-> MaxMetric],
           routes).route

\* The first multicast route for the group and the input interface, whatever
\* its origin; an output interface 0 is skipped.
LookupMulticast(mroutes, group, iif) ==
  LET hit(r) == r.group = group /\ (iif = IfAny \/ r.input = iif)
      n == SelectInSeq(mroutes, hit)
  IN IF n = 0 THEN [found |-> FALSE, outputs |-> {}]
     ELSE [found |-> TRUE, outputs |-> mroutes[n].outputs \ {NoDevice}]

RouteOutput(routes, dest, oif) == LookupStatic(routes, dest, oif)

\* What RouteInput does with a packet to dest: the callback it calls, with
\* the packet that came in or with what FilterPacket made of it.  filter is
\* "off" without aggregation, else FilterPacket's answer: "packet", "null",
\* or "missing" where the node has no ATPL4Protocol.
RouteInput(routes, mroutes, dest, iif, isLocal, isForwarding, filter) ==
  LET p == IF filter = "off" THEN "original" ELSE "filtered"
      m == LookupMulticast(mroutes, dest, iif)
      r == LookupStatic(routes, dest, NoDevice)
      outcome(cb, packet, via) ==
        [callback |-> cb, packet |-> packet, via |-> via]
  IN IF filter = "missing" THEN outcome("none", p, {})
     ELSE IF filter = "null" THEN outcome("absorbed", p, {})
     ELSE IF IsMulticast(dest)
     THEN IF m.found THEN outcome("mcb", p, m.outputs)
          ELSE outcome("lcb", "original", {})
     ELSE IF isLocal THEN outcome("lcb", p, {})
     ELSE IF ~isForwarding THEN outcome("ecb", p, {})
     ELSE IF r # NoRoute THEN outcome("ucb", p, {r.interface})
     ELSE outcome("none", p, {})
=============================================================================
