------------------------------ MODULE ATPHost ------------------------------
(***************************************************************************)
(* A node: its routing table under configuration calls and interface       *)
(* events, and the life of its ATPSockets, from CreateSocket over Bind,    *)
(* Connect, Shutdown and Close to the end points ATPL4Protocol looks up    *)
(* for an arriving packet.                                                 *)
(*                                                                         *)
(* The two parts meet in DoSendTo, which asks for a route; a packet that   *)
(* finds none stays in the sent queue like any other.  As in the examples, *)
(* the table is set up before the first socket is created.                 *)
(*                                                                         *)
(* Of the send buffer the lengths of its queues are kept; ATPSender has    *)
(* the window.  Ipv4, its interfaces and Ipv4EndPointDemux are external.   *)
(***************************************************************************)
EXTENDS ATPStaticRouting, FiniteSets

CONSTANTS
  Interfaces,      \* 1, 2, ...
  IfAddresses,     \* interface -> the [local, len] it may be given
  Calls,           \* the unicast routes callers add
  MulticastCalls,  \* the multicast routes callers add
  MaxRoutes,       \* bound on the routes of both tables
  MaxAddresses,    \* bound on the addresses of an interface
  RunningRoutes,   \* bound: sockets are created over this table only,
  RunningAddrs,    \* and over interfaces with these addresses
  Sockets,
  Senders,         \* the sockets that are connected
  BindAddresses,   \* the addresses sockets are bound to
  Ports,           \* the ports sockets are bound to; 0 is none of them
  EphemeralPorts,
  Destinations,    \* bound: the addresses arriving packets are for
  Devices,         \* the devices sockets are bound to
  MaxQueue         \* bound on the packets of a send buffer

ASSUME HostAssumption ==
  /\ IfAddresses \in Seq(SUBSET [local : Address, len : 0..AddrBits])
  /\ Interfaces = DOMAIN IfAddresses
  /\ \A r \in Calls : r \in Route(Interfaces)
  /\ \A r \in MulticastCalls :
       IsMulticast(r.group) /\ r.outputs \subseteq Interfaces \cup {0}
  /\ MaxRoutes \in Nat /\ MaxAddresses \in Nat /\ MaxQueue \in Nat
  /\ Senders \subseteq Sockets
  /\ BindAddresses \subseteq Address /\ Destinations \subseteq Address
  /\ Ports \cap EphemeralPorts = {} /\ 0 \notin Ports \cup EphemeralPorts
  \* With one device at most, [addr, port, device, socket] tells end points apart.
  /\ Devices \subseteq Interfaces
  /\ \A d, e \in Devices : d = e

VARIABLES
  m_networkRoutes,    \* a sequence of Route
  m_multicastRoutes,  \* a sequence of [origin, group, input, outputs]
  up,                 \* Ipv4: the interfaces that are up
  addrs,              \* Ipv4: interface -> the sequence of its addresses
  byHand,             \* history: routes added while their interface is down
  takenAway,          \* history: [interface, dest, len] of the networks of an
                      \* interface that is up whose route was removed
  m_sockets,          \* ATPL4Protocol: the sockets it knows
  m_endPoints,        \* Ipv4EndPointDemux: [addr, port, device, socket]
  sock                \* socket -> its state

tableVars == <<m_networkRoutes, m_multicastRoutes, up, addrs, byHand, takenAway>>
socketVars == <<m_sockets, m_endPoints, sock>>
vars == <<tableVars, socketVars>>

NoEndPoint == [addr |-> AnyAddress, port |-> 0, device |-> NoDevice]
NewSocket ==
  [m_endPoint |-> NoEndPoint, m_boundnetdevice |-> NoDevice,
   m_shutdownSend |-> FALSE, m_shutdownRecv |-> FALSE, m_connected |-> FALSE,
   pending |-> 0, sent |-> 0, sendEvents |-> 0, retxEvents |-> 0,
   stopped |-> FALSE,       \* history: sending was shut down
   reconnected |-> FALSE,   \* history: connected after Close, packets sent
   orphaned |-> FALSE]      \* history: Bind() found no port and dropped the handle

\* What the interfaces are when the table is made, one after the other.
SetIpv4 ==
  FoldLeft(LAMBDA rs, i : IF i \in up THEN NotifyInterfaceUp(rs, i, addrs[i])
                          ELSE NotifyInterfaceDown(rs, i),
           <<>>, [i \in Interfaces |-> i])

Init ==
  /\ up \in SUBSET Interfaces
  /\ \E a \in [Interfaces -> {<<>>} \cup {<<x>> : x \in UNION Range(IfAddresses)}] :
       (\A i \in Interfaces : Range(a[i]) \subseteq IfAddresses[i]) /\ addrs = a
  /\ m_networkRoutes = SetIpv4
  /\ m_multicastRoutes = <<>>
  /\ byHand = {} /\ takenAway = {}
  /\ m_sockets = {} /\ m_endPoints = {}
  /\ sock = [s \in Sockets |-> NewSocket]
-----------------------------------------------------------------------------
(* The table.                                                              *)

SetUp == sock = [s \in Sockets |-> NewSocket] /\ m_sockets = {}
Room(n) == Len(m_networkRoutes) + Len(m_multicastRoutes) + n <= MaxRoutes

NetworkOf(i, a) ==
  [interface |-> i, dest |-> CombineMask(a.local, a.len), len |-> a.len]
NetworkOfRoute(r) ==
  [interface |-> r.interface, dest |-> r.dest, len |-> r.len]

\* The networks of ns that the interfaces, with addresses as, belong to.
Connected(ns, as) ==
  {n \in ns : \E a \in Range(as[n.interface]) : NetworkOf(n.interface, a) = n}

\* AddNetworkRouteTo, AddHostRouteTo and SetDefaultRoute, from the outside:
\* whether the interface is up is not asked.
AddRoute(r) ==
  /\ Room(1)
  /\ m_networkRoutes' = AddNetworkRouteTo(m_networkRoutes, r)
  /\ byHand' = IF r.interface \in up THEN byHand ELSE byHand \cup {r}
  /\ UNCHANGED <<m_multicastRoutes, up, addrs, takenAway>>

AddDefaultMulticastRoute(i) ==
  /\ Room(1)
  /\ m_networkRoutes' = SetDefaultMulticastRoute(m_networkRoutes, i)
  /\ byHand' = IF i \in up THEN byHand ELSE byHand \cup {Last(m_networkRoutes')}
  /\ UNCHANGED <<m_multicastRoutes, up, addrs, takenAway>>

AddMulticastRoute(r) ==
  /\ Room(1)
  /\ m_multicastRoutes' = Append(m_multicastRoutes, r)
  /\ UNCHANGED <<m_networkRoutes, up, addrs, byHand, takenAway>>

RemoveRoute(index) ==
  /\ m_networkRoutes' = RemoveAt(m_networkRoutes, index)
  /\ byHand' = byHand \cap Range(m_networkRoutes')
  /\ takenAway' = LET r == m_networkRoutes[index]
                  IN takenAway \cup (IF r.interface \notin up THEN {}
                                     ELSE Connected({NetworkOfRoute(r)}, addrs))
  /\ UNCHANGED <<m_multicastRoutes, up, addrs>>

\* By origin, group and input interface: the first that has all three.
RemoveMulticastRoute(r) ==
  LET n == SelectInSeq(m_multicastRoutes,
             LAMBDA q : q.origin = r.origin /\ q.group = r.group
                          /\ q.input = r.input)
  IN /\ n # 0
     /\ m_multicastRoutes' = RemoveAt(m_multicastRoutes, n)
     /\ UNCHANGED <<m_networkRoutes, up, addrs, byHand, takenAway>>

\* By index.
RemoveMulticastRouteAt(index) ==
  /\ m_multicastRoutes' = RemoveAt(m_multicastRoutes, index)
  /\ UNCHANGED <<m_networkRoutes, up, addrs, byHand, takenAway>>

\* Ipv4::SetUp, which calls NotifyInterfaceUp.
InterfaceUp(i) ==
  /\ i \notin up /\ Room(Len(addrs[i]))
  /\ up' = up \cup {i}
  /\ m_networkRoutes' = NotifyInterfaceUp(m_networkRoutes, i, addrs[i])
  /\ byHand' = {r \in byHand : r.interface # i}
  /\ UNCHANGED <<m_multicastRoutes, addrs, takenAway>>

\* Ipv4::SetDown, which calls NotifyInterfaceDown.
InterfaceDown(i) ==
  /\ i \in up
  /\ up' = up \ {i}
  /\ m_networkRoutes' = NotifyInterfaceDown(m_networkRoutes, i)
  /\ takenAway' = {n \in takenAway : n.interface # i}
  /\ UNCHANGED <<m_multicastRoutes, addrs, byHand>>

\* Ipv4::AddAddress, which calls NotifyAddAddress.
AddAddress(i, a) ==
  /\ Len(addrs[i]) < MaxAddresses /\ Room(1)
  /\ addrs' = [addrs EXCEPT ![i] = Append(@, a)]
  /\ m_networkRoutes' = IF i \notin up THEN m_networkRoutes
                        ELSE AddNetworkRouteTo(m_networkRoutes, ConnectedRoute(i, a))
  /\ takenAway' = IF i \notin up THEN takenAway
                  ELSE takenAway \ {NetworkOf(i, a)}
  /\ UNCHANGED <<m_multicastRoutes, up, byHand>>

\* Ipv4::RemoveAddress, which calls NotifyRemoveAddress.  It removes every
\* route to the network through the interface, but never a host route.
RemoveAddress(i, k) ==
  LET a == addrs[i][k]
      gone == {r \in Range(m_networkRoutes) :
                 NetworkOfRoute(r) = NetworkOf(i, a) /\ r.len # AddrBits}
  IN /\ addrs' = [addrs EXCEPT ![i] = RemoveAt(@, k)]
     /\ m_networkRoutes' = IF i \notin up THEN m_networkRoutes
                           ELSE EraseRoutes(m_networkRoutes, gone)
     /\ takenAway' = IF i \notin up THEN takenAway
                     ELSE Connected(takenAway \cup {NetworkOf(i, a)}, addrs')
     /\ UNCHANGED <<m_multicastRoutes, up, byHand>>

TableNext ==
  \/ \E r \in Calls : AddRoute(r)
  \/ \E i \in Interfaces : AddDefaultMulticastRoute(i)
  \/ \E r \in MulticastCalls : AddMulticastRoute(r) \/ RemoveMulticastRoute(r)
  \/ \E n \in DOMAIN m_networkRoutes : RemoveRoute(n)
  \/ \E n \in DOMAIN m_multicastRoutes : RemoveMulticastRouteAt(n)
  \/ \E i \in Interfaces :
       \/ InterfaceUp(i) \/ InterfaceDown(i)
       \/ \E a \in IfAddresses[i] : AddAddress(i, a)
       \/ \E k \in DOMAIN addrs[i] : RemoveAddress(i, k)
-----------------------------------------------------------------------------
(* The sockets.  Requests that fail (Bind to an address in use, Send on a  *)
(* socket that is not connected or shut down, Listen, Bind6) change        *)
(* m_errno only and are left out.                                          *)

\* Ipv4EndPointDemux::Allocate: an explicit port is refused where the address
\* is taken on the same device or on none; an ephemeral one is new.
InUse(device, addr, port) ==
  \E e \in m_endPoints : e.addr = addr /\ e.port = port
                           /\ e.device \in {device, NoDevice}

\* Mutant: a port is free once no socket holds an end point with it.
FreePortsOfSockets == EphemeralPorts \ {sock[s].m_endPoint.port : s \in Sockets}

FreePorts == EphemeralPorts \ {e.port : e \in m_endPoints}

\* Ipv4EndPointDemux::Lookup.  An end point at the packet's address precedes
\* the wildcards: those at any address, and those at the address of a network
\* of the interface that the packet's address is in.
InSubnetOf(e, addr, iface) ==
  \E a \in Range(addrs[iface]) :
    e.addr = CombineMask(a.local, a.len) /\ IsMatch(a.len, e.addr, addr)

Lookup(addr, port, iface) ==
  LET hits == {e \in m_endPoints :
                 e.port = port /\ e.device \in {NoDevice, iface}}
      exact == {e \in hits : e.addr = addr}
      wildcard == {e \in hits : e.addr = AnyAddress \/ InSubnetOf(e, addr, iface)}
  IN IF exact # {} THEN exact ELSE wildcard

EndPointOf(s, ep) ==
  [addr |-> ep.addr, port |-> ep.port, device |-> ep.device, socket |-> s]

CreateSocket(s) ==
  /\ s \notin m_sockets /\ sock[s] = NewSocket
  /\ m_sockets' = m_sockets \cup {s}
  /\ UNCHANGED <<m_endPoints, sock>>

\* A call on a socket, new or closed.
Created(s) == s \in m_sockets \/ sock[s] # NewSocket

\* The rest of Bind once an end point is allocated: FinishBind opens the
\* socket again.
Bound(st, addr, port) ==
  [st EXCEPT !.m_endPoint = [addr |-> addr, port |-> port,
                             device |-> st.m_boundnetdevice],
             !.m_shutdownSend = FALSE, !.m_shutdownRecv = FALSE,
             !.reconnected = FALSE, !.orphaned = FALSE]

\* The end point whose handle the socket holds is what the new state says of it.
SetSocket(s, st) ==
  /\ sock' = [sock EXCEPT ![s] = st]
  /\ m_endPoints' = (m_endPoints \ {EndPointOf(s, sock[s].m_endPoint)})
       \cup (IF st.m_endPoint = NoEndPoint THEN {}
             ELSE {EndPointOf(s, st.m_endPoint)})

\* Bind(address); port 0 asks for an ephemeral port.
Bind(s, addr, port) ==
  /\ sock[s].m_endPoint = NoEndPoint      \* asserted
  /\ \/ /\ port # 0
        /\ ~InUse(sock[s].m_boundnetdevice, addr, port)
        /\ SetSocket(s, Bound(sock[s], addr, port))
     \/ /\ port = 0
        /\ \E p \in FreePorts : SetSocket(s, Bound(sock[s], addr, p))
  /\ UNCHANGED m_sockets

\* Bind() asserts nothing: the handle is overwritten, by null if no port is
\* free, and the end point it held stays with the demultiplexer.
\* (Without a free port a socket bound to a device crashes.)
BindAnyPort(s) ==
  /\ \/ \E p \in FreePorts :
          /\ sock' = [sock EXCEPT ![s] = Bound(@, AnyAddress, p)]
          /\ m_endPoints' = m_endPoints \cup {EndPointOf(s, sock'[s].m_endPoint)}
     \/ /\ FreePorts = {} /\ sock[s].m_boundnetdevice = NoDevice
        /\ sock' = [sock EXCEPT ![s].m_endPoint = NoEndPoint,
                                ![s].orphaned = @ \/ sock[s].m_endPoint # NoEndPoint]
        /\ UNCHANGED m_endPoints
  /\ UNCHANGED m_sockets

BindToNetDevice(s, d) ==
  LET st == [sock[s] EXCEPT !.m_boundnetdevice = d]
  IN /\ SetSocket(s, IF st.m_endPoint = NoEndPoint THEN st
                     ELSE [st EXCEPT !.m_endPoint.device = d])
     /\ UNCHANGED m_sockets

ShutdownSend(s) ==
  /\ SetSocket(s, [sock[s] EXCEPT !.m_shutdownSend = TRUE, !.stopped = TRUE])
  /\ UNCHANGED m_sockets

ShutdownRecv(s) ==
  /\ SetSocket(s, [sock[s] EXCEPT !.m_shutdownRecv = TRUE])
  /\ UNCHANGED m_sockets

CancelAllTimers(st) == [st EXCEPT !.sendEvents = 0, !.retxEvents = 0]

\* Mutant: the timers of a closed socket are left running.
DeallocateEndPointOnly(st) == [st EXCEPT !.m_endPoint = NoEndPoint]

DeallocateEndPoint(st) ==
  [CancelAllTimers(st) EXCEPT !.m_endPoint = NoEndPoint]

\* Close does nothing on a socket that is shut down in both directions.
Close(s) ==
  LET st == [sock[s] EXCEPT !.m_shutdownSend = TRUE, !.m_shutdownRecv = TRUE,
                            !.stopped = TRUE, !.reconnected = FALSE]
  IN /\ ~(sock[s].m_shutdownRecv /\ sock[s].m_shutdownSend)
     /\ IF st.m_endPoint = NoEndPoint
        THEN SetSocket(s, st) /\ UNCHANGED m_sockets
        ELSE /\ SetSocket(s, DeallocateEndPoint(st))
             /\ m_sockets' = m_sockets \ {s}

StartTimer(st) ==
  IF st.retxEvents > 0 THEN st ELSE [st EXCEPT !.retxEvents = 1]

Connect(s) ==
  LET closed == sock[s].m_endPoint = NoEndPoint /\ sock[s].sent > 0
  IN /\ SetSocket(s, [StartTimer(sock[s]) EXCEPT !.m_connected = TRUE,
                                                 !.reconnected = @ \/ closed])
     /\ UNCHANGED m_sockets

ScheduleSend(st) ==
  IF st.sendEvents > 0 THEN st ELSE [st EXCEPT !.sendEvents = 1]

\* Send binds a socket that has no end point, a closed one too.
Send(s) ==
  /\ sock[s].m_connected
  /\ sock[s].pending + sock[s].sent < MaxQueue
  /\ \/ /\ sock[s].m_endPoint # NoEndPoint /\ ~sock[s].m_shutdownSend
        /\ SetSocket(s, ScheduleSend([sock[s] EXCEPT !.pending = @ + 1]))
     \/ /\ sock[s].m_endPoint = NoEndPoint
        /\ \E p \in FreePorts :
             SetSocket(s, ScheduleSend([Bound(sock[s], AnyAddress, p)
                                          EXCEPT !.pending = @ + 1]))
  /\ UNCHANGED m_sockets

\* The window lets k of the packets go.  DoSendTo crashes without an end point.
SendWindowData(s, k) ==
  /\ sock[s].sendEvents > 0 /\ k <= sock[s].pending
  /\ k = 0 \/ sock[s].m_endPoint # NoEndPoint
  /\ SetSocket(s, [sock[s] EXCEPT !.sendEvents = @ - 1, !.pending = @ - k,
                                  !.sent = @ + k])
  /\ UNCHANGED m_sockets

\* Mutant: a check that finds no packet sent is the last one.
KeepsCheckingIfSent(st) == ~st.m_shutdownSend /\ st.m_connected /\ st.sent > 0

KeepsChecking(st) == ~st.m_shutdownSend /\ st.m_connected

\* Packets that timed out are sent again and stay in the sent queue.
CheckRetransmitTimeout(s) ==
  /\ sock[s].retxEvents > 0
  /\ SetSocket(s, [sock[s] EXCEPT !.retxEvents =
                     @ - 1 + (IF KeepsChecking(sock[s]) THEN 1 ELSE 0)])
  /\ UNCHANGED m_sockets

\* ReceiveAck.  An ACK in order removes a packet and schedules SendWindowData.
\* Any other one removes the k packets up to it, none if it is old, and sends
\* those it skipped again at once.  The application called back by NotifySend
\* may Send.
ReceiveAck(s, inOrder, k) ==
  /\ k <= sock[s].sent
  /\ \/ /\ inOrder /\ k = 1
        /\ SetSocket(s, ScheduleSend([sock[s] EXCEPT !.sent = @ - 1]))
     \/ /\ ~inOrder /\ (k = 0 \/ sock[s].m_endPoint # NoEndPoint)
        /\ SetSocket(s, [sock[s] EXCEPT !.sent = @ - k])
  /\ UNCHANGED m_sockets

\* ATPL4Protocol::Receive and ForwardUp, for an ACK.  With two end points the
\* demultiplexer aborts.
Receive(addr, port, iface) ==
  LET found == Lookup(addr, port, iface)
  IN \E e \in found :
       /\ found = {e}
       /\ ~sock[e.socket].m_shutdownRecv
       /\ \E inOrder \in BOOLEAN, k \in 0..MaxQueue :
            ReceiveAck(e.socket, inOrder, k)

SocketNext ==
  \/ \E s \in Sockets : CreateSocket(s)
  \/ \E s \in Sockets :
       /\ Created(s)
       /\ \/ \E d \in Devices : BindToNetDevice(s, d)
          \/ \E addr \in BindAddresses, port \in Ports \cup {0} : Bind(s, addr, port)
          \/ BindAnyPort(s)
          \/ ShutdownSend(s) \/ ShutdownRecv(s) \/ Close(s)
          \/ s \in Senders /\ Connect(s)
  \/ \E s \in Senders :
       \/ Send(s) \/ CheckRetransmitTimeout(s)
       \/ \E k \in 0..MaxQueue : SendWindowData(s, k)
  \/ \E addr \in Destinations, port \in Ports \cup EphemeralPorts,
        iface \in Interfaces : Receive(addr, port, iface)

Running ==
  /\ m_networkRoutes = RunningRoutes /\ m_multicastRoutes = <<>>
  /\ up = Interfaces /\ addrs = RunningAddrs
  /\ byHand = {} /\ takenAway = {}

Next ==
  \/ SetUp /\ TableNext /\ UNCHANGED socketVars
  \/ Running /\ SocketNext /\ UNCHANGED tableVars

Spec == Init /\ [][Next]_vars
-----------------------------------------------------------------------------
(* Properties.                                                             *)

Unicast == Address \ LocalMulticast
Outputs == Interfaces \cup {NoDevice}

\* The positions of the routes that match, of those the ones with the longest
\* mask, and of those the ones with the smallest metric.
Matching(dest, oif) ==
  {n \in DOMAIN m_networkRoutes :
     LET r == m_networkRoutes[n]
     IN IsMatch(r.len, dest, r.dest) /\ oif \in {NoDevice, r.interface}}
Longest(ns) ==
  {n \in ns : \A m \in ns : m_networkRoutes[m].len <= m_networkRoutes[n].len}
Cheapest(ns) ==
  {n \in ns : \A m \in ns : m_networkRoutes[n].metric <= m_networkRoutes[m].metric}

\* The loop of LookupStatic finds a matching route with the longest mask and,
\* unless that is a host route, the smallest metric of those; it finds none
\* only where none matches.  GetDefaultRoute, which repeats the loop, agrees
\* with it where only default routes match.
LookupFindsBest ==
  \A dest \in Unicast, oif \in Outputs :
    LET matching == Matching(dest, oif)
        longest == Longest(matching)
        found == LookupStatic(m_networkRoutes, dest, oif)
    IN /\ matching = {} => found = NoRoute
       /\ matching # {} =>
            \E n \in longest :
              /\ found = m_networkRoutes[n]
              /\ found.len # AddrBits => n \in Cheapest(longest)
       /\ oif = NoDevice /\ (\A n \in matching : m_networkRoutes[n].len = 0)
            => found = GetDefaultRoute(m_networkRoutes)

\* What AddHostRouteTo says of its parameter, "Metric of route in case of
\* multiple routes to same destination": among host routes to an address, too,
\* the one with the smallest metric is found.
MetricDecides ==
  \A dest \in Unicast, oif \in Outputs :
    Matching(dest, oif) # {} =>
      \E n \in Cheapest(Longest(Matching(dest, oif))) :
        LookupStatic(m_networkRoutes, dest, oif) = m_networkRoutes[n]

\* However interfaces and addresses come and go, no route leads through an
\* interface that is down, but for those a caller added while it was down;
\* and the networks of the addresses of an interface that is up can be reached
\* through it, unless their route was removed: by RemoveRoute, or together
\* with another address in the same network.
RoutesFollowInterfaces ==
  /\ \A r \in Range(m_networkRoutes) : r.interface \in up \/ r \in byHand
  /\ \A i \in up : \A a \in Range(addrs[i]) :
       a.len # AddrBits =>
         \/ ConnectedRoute(i, a) \in Range(m_networkRoutes)
         \/ NetworkOf(i, a) \in takenAway

\* No two end points that are bound to no device have the same address and
\* port, however sockets are bound, bound again, closed and reopened, also when
\* Bind() has left an end point behind that no socket knows of.  So two that
\* match one packet are wildcards, or BindToNetDevice was called.
EndPointsDiffer ==
  \A e, f \in m_endPoints :
    e # f /\ e.device = NoDevice /\ f.device = NoDevice =>
      e.addr # f.addr \/ e.port # f.port

\* DoSendTo reads m_endPoint unchecked.  There is one whenever the event that
\* sends the window is pending, and whenever packets are sent that the
\* timeout check may find, unless the socket was connected again after Close,
\* or Bind() found no port for it and dropped the end point it had.
SendsHaveEndPoint ==
  \A s \in Sockets :
    \/ sock[s].m_endPoint # NoEndPoint
    \/ sock[s].orphaned
    \/ /\ sock[s].sendEvents = 0
       /\ sock[s].retxEvents > 0 /\ sock[s].sent > 0 => sock[s].reconnected

\* A socket never has two window events or two timeout checks pending, whatever
\* the order of Connect, Send, Close and ACKs; and as long as sending was never
\* shut down, the timeout check is pending for every packet that is sent or
\* going to be.
RetransmissionKept ==
  \A s \in Sockets :
    /\ sock[s].sendEvents \in 0..1
    /\ sock[s].retxEvents \in 0..1
    /\ sock[s].sent + sock[s].pending > 0 /\ ~sock[s].stopped
         => sock[s].retxEvents = 1
=============================================================================
