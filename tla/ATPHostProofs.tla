---------------------------- MODULE ATPHostProofs ----------------------------
(***************************************************************************)
(* Proofs about a node: its sockets, for every set of sockets, ports,      *)
(* addresses and devices, and its routing table, for every number of       *)
(* interfaces and every width of addresses.                                *)
(*                                                                         *)
(* The first invariant ties the end points the demultiplexer knows to the  *)
(* ones the sockets hold (it knows others too, whose handle Bind() has     *)
(* overwritten), and says of each socket by itself what its timers,        *)
(* queues and flags have to do with each other.  The second relates the    *)
(* routes to the interfaces and their addresses.                           *)
(*                                                                         *)
(* The look-ups and the notifications are loops, that is folds over        *)
(* sequences.  Each of them is brought to the form                         *)
(*     it[0] = base,  it[k] = step(it[k - 1], seq[k])                      *)
(* (the lemmas ...Runs), by constructing the function FoldLeft defines;    *)
(* what the loop computes is then an induction on k, for which             *)
(* ATPTxBufferProofs has Upwards.                                          *)
(***************************************************************************)
EXTENDS ATPHost, FiniteSetTheorems, TLAPS

B == INSTANCE ATPTxBufferProofs

BoundPorts == Ports \cup EphemeralPorts

EndPoints ==
  [addr : BindAddresses \cup {AnyAddress}, port : BoundPorts \cup {0},
   device : Interfaces \cup {NoDevice}]

SocketStates ==
  [m_endPoint : EndPoints, m_boundnetdevice : Interfaces \cup {NoDevice},
   m_shutdownSend : BOOLEAN, m_shutdownRecv : BOOLEAN, m_connected : BOOLEAN,
   pending : Nat, sent : Nat, sendEvents : 0..1, retxEvents : 0..1,
   stopped : BOOLEAN, reconnected : BOOLEAN, orphaned : BOOLEAN]

\* What the demultiplexer may hold.
Records ==
  [addr : BindAddresses \cup {AnyAddress}, port : BoundPorts,
   device : Interfaces \cup {NoDevice}, socket : Sockets]

HasEndPoint(st) == st.m_endPoint # NoEndPoint

\* An end point that is not NoEndPoint has a port.
Allocated(st) == HasEndPoint(st) => st.m_endPoint.port # 0

\* Who has packets was connected, and who was connected and never stopped has
\* the timeout check pending.
Checked(st) ==
  /\ st.sent + st.pending > 0 => st.m_connected
  /\ st.m_shutdownSend => st.stopped
  /\ st.m_connected /\ ~st.stopped => st.retxEvents = 1

\* A socket without end point that has packets sent was closed, and stays
\* shut down until it is bound again, or else Bind() has dropped its end point.
Quiet(st) ==
  ~HasEndPoint(st) /\ ~st.orphaned =>
    /\ st.sendEvents = 0
    /\ st.sent > 0 => st.m_shutdownSend /\ st.m_shutdownRecv
    /\ st.retxEvents > 0 /\ st.sent > 0 => st.reconnected

Good(st) == st \in SocketStates /\ Allocated(st) /\ Checked(st) /\ Quiet(st)

\* m_endPoints holds the end points of the sockets, and perhaps others.
Agree ==
  /\ m_endPoints \subseteq Records
  /\ \A s \in Sockets :
       HasEndPoint(sock[s]) => EndPointOf(s, sock[s].m_endPoint) \in m_endPoints

IInv ==
  /\ m_sockets \subseteq Sockets
  /\ DOMAIN sock = Sockets
  /\ \A s \in Sockets : Good(sock[s])
  /\ Agree
  /\ EndPointsDiffer
-----------------------------------------------------------------------------
(* Writing one socket.                                                     *)

\* None of the end points kept is like that of st, both bound to no device.
Apart(kept, st) ==
  HasEndPoint(st) /\ st.m_endPoint.device = NoDevice =>
    \A e \in kept :
      e.device = NoDevice =>
        e.addr # st.m_endPoint.addr \/ e.port # st.m_endPoint.port

Others(s) == m_endPoints \ {EndPointOf(s, sock[s].m_endPoint)}

\* The socket an end point belongs to.
LEMMA EndPointFields ==
  \A s, ep : /\ EndPointOf(s, ep).socket = s
             /\ EndPointOf(s, ep).addr = ep.addr
             /\ EndPointOf(s, ep).port = ep.port
             /\ EndPointOf(s, ep).device = ep.device
  BY DEF EndPointOf

\* A step that gives socket s a good state, with an end point apart from those
\* the demultiplexer keeps, keeps the invariant.
LEMMA WriteKeeps ==
  ASSUME IInv, NEW s \in Sockets, NEW st, Good(st),
         NEW kept, Others(s) \subseteq kept, kept \subseteq m_endPoints,
         Apart(kept, st),
         sock' = [sock EXCEPT ![s] = st],
         m_endPoints' = kept \cup (IF st.m_endPoint = NoEndPoint THEN {}
                                   ELSE {EndPointOf(s, st.m_endPoint)}),
         m_sockets' \subseteq m_sockets
  PROVE  IInv'
<1> DEFINE new == EndPointOf(s, st.m_endPoint)
<1>0. /\ DOMAIN sock' = Sockets
      /\ \A t \in Sockets : sock'[t] = IF t = s THEN st ELSE sock[t]
  BY DEF IInv
<1>1. m_endPoints' = kept \cup (IF HasEndPoint(st) THEN {new} ELSE {})
  BY DEF HasEndPoint
<1>2. /\ HasEndPoint(st) => new \in Records
      /\ new.addr = st.m_endPoint.addr /\ new.port = st.m_endPoint.port
      /\ new.device = st.m_endPoint.device
  <2>1. HasEndPoint(st) => st.m_endPoint \in EndPoints /\ st.m_endPoint.port # 0
    BY DEF Good, SocketStates, Allocated
  <2> QED
    BY <2>1 DEF EndPointOf, EndPoints, Records
<1>3. (\A t \in Sockets : Good(sock[t]))'
  <2>1. \A t \in Sockets : Good(sock'[t])
    BY <1>0 DEF IInv
  <2> QED
    BY <2>1 DEF Good, SocketStates, EndPoints, BoundPorts, Allocated, Checked,
                Quiet, HasEndPoint, NoEndPoint
<1> HIDE DEF new
<1>4. Agree'
  <2>1. m_endPoints' \subseteq Records
    BY <1>1, <1>2 DEF IInv, Agree
  <2>2. ASSUME NEW t \in Sockets, HasEndPoint(sock'[t])
        PROVE  EndPointOf(t, sock'[t].m_endPoint) \in m_endPoints'
    <3>1. CASE t = s
      BY <1>0, <1>1, <2>2, <3>1 DEF new
    <3>2. CASE t # s
      <4>1. EndPointOf(t, sock[t].m_endPoint) \in m_endPoints
        BY <1>0, <2>2, <3>2 DEF IInv, Agree
      <4>2. EndPointOf(t, sock[t].m_endPoint) # EndPointOf(s, sock[s].m_endPoint)
        BY <3>2, EndPointFields
      <4> QED
        BY <1>0, <1>1, <3>2, <4>1, <4>2 DEF Others
    <3> QED
      BY <3>1, <3>2
  <2> QED
    BY <2>1, <2>2 DEF Agree, HasEndPoint, EndPointOf, NoEndPoint, Records, BoundPorts
<1>5. EndPointsDiffer'
  <2> SUFFICES ASSUME NEW e \in m_endPoints', NEW f \in m_endPoints',
                      e.device = NoDevice, f.device = NoDevice,
                      e.addr = f.addr, e.port = f.port
               PROVE  e = f
    BY DEF EndPointsDiffer
  <2>1. CASE e \in kept /\ f \in kept
    BY <2>1 DEF IInv, EndPointsDiffer
  <2>2. CASE e \notin kept \/ f \notin kept
    BY <1>1, <1>2, <2>2 DEF Apart
  <2> QED
    BY <2>1, <2>2
<1> QED
  BY <1>0, <1>3, <1>4, <1>5 DEF IInv

\* SetSocket is such a step: the demultiplexer follows the socket's handle.
LEMMA SetSocketKeeps ==
  ASSUME IInv, NEW s \in Sockets, NEW st, Good(st), Apart(Others(s), st),
         SetSocket(s, st), m_sockets' \subseteq m_sockets
  PROVE  IInv'
<1>1. Others(s) \subseteq m_endPoints
  BY DEF Others
<1>2. /\ sock' = [sock EXCEPT ![s] = st]
      /\ m_endPoints' = Others(s) \cup (IF st.m_endPoint = NoEndPoint THEN {}
                                        ELSE {EndPointOf(s, st.m_endPoint)})
  BY DEF SetSocket, Others
<1> QED
  BY <1>1, <1>2, WriteKeeps

\* The same end point is as far apart from the others as before.
LEMMA SameEndPoint ==
  ASSUME IInv, NEW s \in Sockets, NEW st,
         \/ st.m_endPoint = sock[s].m_endPoint
         \/ st.m_endPoint = NoEndPoint
         \/ st.m_endPoint.device # NoDevice
  PROVE  Apart(Others(s), st)
<1> SUFFICES ASSUME HasEndPoint(st), st.m_endPoint = sock[s].m_endPoint,
                    st.m_endPoint.device = NoDevice,
                    NEW e \in Others(s), e.device = NoDevice,
                    e.addr = st.m_endPoint.addr, e.port = st.m_endPoint.port
             PROVE  FALSE
  BY DEF Apart, HasEndPoint
<1> DEFINE own == EndPointOf(s, sock[s].m_endPoint)
<1>1. own \in m_endPoints /\ EndPointsDiffer
  BY DEF IInv, Agree, HasEndPoint
<1>2. /\ own.addr = st.m_endPoint.addr /\ own.port = st.m_endPoint.port
      /\ own.device = NoDevice
  BY EndPointFields
<1>3. e \in m_endPoints /\ e # own
  BY DEF Others
<1> HIDE DEF own
<1> QED
  BY <1>1, <1>2, <1>3 DEF EndPointsDiffer

\* A port that Allocate chooses or accepts is not that of another end point.
LEMMA AllocatedApart ==
  ASSUME NEW st, NEW kept, kept \subseteq m_endPoints,
         \/ st.m_endPoint.port \in FreePorts
         \/ ~InUse(st.m_endPoint.device, st.m_endPoint.addr, st.m_endPoint.port)
  PROVE  Apart(kept, st)
<1> SUFFICES ASSUME NEW e \in m_endPoints, e.device = NoDevice,
                    e.addr = st.m_endPoint.addr, e.port = st.m_endPoint.port
             PROVE  FALSE
  BY DEF Apart
<1> QED
  BY DEF FreePorts, InUse
-----------------------------------------------------------------------------
(* The operations.                                                         *)

\* A new socket.
LEMMA InitIInv == Init => IInv
<1> SUFFICES ASSUME Init PROVE IInv
  OBVIOUS
<1>1. m_sockets = {} /\ m_endPoints = {} /\ sock = [s \in Sockets |-> NewSocket]
  BY DEF Init
<1>2. NewSocket.m_endPoint = NoEndPoint
  BY DEF NewSocket
<1>3. NoEndPoint \in EndPoints
  BY DEF NoEndPoint, EndPoints
<1>4. NewSocket \in SocketStates
  BY <1>3 DEF NewSocket, SocketStates
<1>5. Good(NewSocket)
  BY <1>4 DEF Good, NewSocket, Allocated, Checked, Quiet, HasEndPoint
<1>6. \A s \in Sockets : sock[s] = NewSocket /\ ~HasEndPoint(sock[s])
  BY <1>1, <1>2 DEF HasEndPoint
<1>7. Agree
  BY <1>1, <1>6 DEF Agree
<1>8. EndPointsDiffer
  BY <1>1 DEF EndPointsDiffer
<1> QED
  BY <1>1, <1>5, <1>6, <1>7, <1>8 DEF IInv

\* FinishBind opens the socket with the end point allocated for it.
LEMMA BoundIsGood ==
  ASSUME NEW st, Good(st), NEW addr \in BindAddresses \cup {AnyAddress},
         NEW port \in BoundPorts
  PROVE  LET b == Bound(st, addr, port) IN
         /\ Good(b) /\ HasEndPoint(b)
         /\ b.m_endPoint.addr = addr /\ b.m_endPoint.port = port
         /\ b.m_endPoint.device = st.m_boundnetdevice
         /\ st.m_connected => b.m_connected
<1> DEFINE ep == [addr |-> addr, port |-> port, device |-> st.m_boundnetdevice]
           b == Bound(st, addr, port)
<1>1. st \in SocketStates /\ Checked(st)
  BY DEF Good
<1>2. ep \in EndPoints
  BY <1>1 DEF EndPoints, SocketStates
<1>3. port # 0
  BY HostAssumption DEF BoundPorts
<1>4. ep # NoEndPoint /\ ep.port # 0
  BY <1>3 DEF NoEndPoint
<1>5. /\ b \in SocketStates /\ b.m_endPoint = ep
      /\ b.m_connected = st.m_connected /\ b.stopped = st.stopped
      /\ b.pending = st.pending /\ b.sent = st.sent /\ ~b.m_shutdownSend
      /\ b.retxEvents = st.retxEvents
  BY <1>1, <1>2 DEF Bound, SocketStates
<1> HIDE DEF b
<1>6. HasEndPoint(b) /\ Allocated(b) /\ Checked(b) /\ Quiet(b)
  BY <1>1, <1>4, <1>5 DEF HasEndPoint, Allocated, Checked, Quiet
<1> QED
  BY <1>5, <1>6 DEF Good, b

\* Bind and the Bind inside Send: a good state with a new end point.
LEMMA BindIInv ==
  ASSUME IInv, NEW s \in Sockets, NEW addr \in BindAddresses,
         NEW port \in Ports \cup {0}, Bind(s, addr, port)
  PROVE  IInv'
<1>0. s \in Sockets /\ Good(sock[s]) /\ m_sockets' = m_sockets
  BY DEF IInv, Bind
<1>1. CASE /\ port # 0
           /\ ~InUse(sock[s].m_boundnetdevice, addr, port)
           /\ SetSocket(s, Bound(sock[s], addr, port))
  <2> DEFINE b == Bound(sock[s], addr, port)
  <2>1. port \in BoundPorts /\ addr \in BindAddresses \cup {AnyAddress}
    BY <1>1 DEF BoundPorts
  <2>2. /\ Good(b) /\ b.m_endPoint.addr = addr /\ b.m_endPoint.port = port
        /\ b.m_endPoint.device = sock[s].m_boundnetdevice
    BY <1>0, <2>1, BoundIsGood
  <2>3. SetSocket(s, b)
    BY <1>1
  <2> HIDE DEF b
  <2>4. Apart(Others(s), b)
    BY <1>1, <2>2, AllocatedApart DEF Others
  <2> QED
    BY <1>0, <2>2, <2>3, <2>4, SetSocketKeeps
<1>2. CASE \E p \in FreePorts : SetSocket(s, Bound(sock[s], addr, p))
  <2>1. PICK p \in FreePorts : SetSocket(s, Bound(sock[s], addr, p))
    BY <1>2
  <2> DEFINE b == Bound(sock[s], addr, p)
  <2>2. p \in BoundPorts /\ addr \in BindAddresses \cup {AnyAddress}
    BY DEF BoundPorts, FreePorts
  <2>3. Good(b) /\ b.m_endPoint.port = p /\ SetSocket(s, b)
    BY <1>0, <2>1, <2>2, BoundIsGood
  <2> HIDE DEF b
  <2>4. Apart(Others(s), b)
    BY <2>3, AllocatedApart DEF Others
  <2> QED
    BY <1>0, <2>3, <2>4, SetSocketKeeps
<1> QED
  BY <1>1, <1>2 DEF Bind

\* Bind(): the new end point is apart from all there are, and a socket that
\* got none is marked.
LEMMA BindAnyPortIInv ==
  ASSUME IInv, NEW s \in Sockets, BindAnyPort(s)
  PROVE  IInv'
<1> DEFINE old == sock[s]
<1>0. /\ Good(old) /\ m_sockets' = m_sockets /\ DOMAIN sock = Sockets
      /\ Others(s) \subseteq m_endPoints
  BY DEF IInv, BindAnyPort, Others
<1>1. ASSUME NEW p \in FreePorts,
             sock' = [sock EXCEPT ![s] = Bound(@, AnyAddress, p)],
             m_endPoints' = m_endPoints \cup {EndPointOf(s, sock'[s].m_endPoint)}
      PROVE  IInv'
  <2> DEFINE b == Bound(old, AnyAddress, p)
  <2>1. p \in BoundPorts /\ AnyAddress \in BindAddresses \cup {AnyAddress}
    BY DEF BoundPorts, FreePorts
  <2>2. Good(b) /\ HasEndPoint(b) /\ b.m_endPoint.port = p
    BY <1>0, <2>1, BoundIsGood
  <2>3. sock' = [sock EXCEPT ![s] = b] /\ sock'[s] = b
    BY <1>0, <1>1
  <2> HIDE DEF b
  <2>4. m_endPoints' = m_endPoints \cup (IF b.m_endPoint = NoEndPoint THEN {}
                                         ELSE {EndPointOf(s, b.m_endPoint)})
    BY <1>1, <2>2, <2>3 DEF HasEndPoint
  <2>5. Apart(m_endPoints, b)
    BY <2>2, AllocatedApart
  <2> QED
    BY <1>0, <2>2, <2>3, <2>4, <2>5, WriteKeeps
<1>2. CASE /\ sock' = [sock EXCEPT ![s].m_endPoint = NoEndPoint,
                                   ![s].orphaned = @ \/ old.m_endPoint # NoEndPoint]
           /\ UNCHANGED m_endPoints
  <2> DEFINE lost == old.orphaned \/ old.m_endPoint # NoEndPoint
             st == [old EXCEPT !.m_endPoint = NoEndPoint, !.orphaned = lost]
  <2>1. old \in SocketStates /\ Checked(old) /\ Quiet(old)
    BY <1>0 DEF Good
  <2>2. NoEndPoint \in EndPoints /\ lost \in BOOLEAN
    BY <2>1 DEF NoEndPoint, EndPoints, SocketStates
  <2>3. sock' = [sock EXCEPT ![s] = st]
    BY <1>0, <1>2
  <2>4. /\ st \in SocketStates /\ st.m_endPoint = NoEndPoint
        /\ st.orphaned = lost /\ st.sent = old.sent /\ st.pending = old.pending
        /\ st.m_connected = old.m_connected /\ st.stopped = old.stopped
        /\ st.retxEvents = old.retxEvents /\ st.sendEvents = old.sendEvents
        /\ st.m_shutdownSend = old.m_shutdownSend
        /\ st.m_shutdownRecv = old.m_shutdownRecv
        /\ st.reconnected = old.reconnected
    BY <2>1, <2>2 DEF SocketStates
  <2> HIDE DEF st
  <2>5. ~HasEndPoint(st) /\ Allocated(st) /\ Checked(st)
    BY <2>1, <2>4 DEF HasEndPoint, Allocated, Checked
  <2>6. Quiet(st)
    BY <2>1, <2>4 DEF Quiet, HasEndPoint
  <2>7. Good(st) /\ Apart(m_endPoints, st)
    BY <2>4, <2>5, <2>6 DEF Good, Apart
  <2>8. m_endPoints' = m_endPoints \cup (IF st.m_endPoint = NoEndPoint THEN {}
                                         ELSE {EndPointOf(s, st.m_endPoint)})
    BY <1>2, <2>4
  <2> QED
    BY <1>0, <2>3, <2>7, <2>8, WriteKeeps
<1> QED
  BY <1>1, <1>2 DEF BindAnyPort

\* An end point that is bound to a device is no longer compared.
LEMMA BindToNetDeviceIInv ==
  ASSUME IInv, NEW s \in Sockets, NEW d \in Devices, BindToNetDevice(s, d)
  PROVE  IInv'
<1> DEFINE old == sock[s]
           st == [old EXCEPT !.m_boundnetdevice = d]
           b == [st EXCEPT !.m_endPoint = [st.m_endPoint EXCEPT !.device = d]]
<1>0. /\ s \in Sockets /\ Good(old) /\ m_sockets' = m_sockets
      /\ d \in Interfaces /\ d # NoDevice
  BY HostAssumption DEF IInv, BindToNetDevice, NoDevice
<1>1. SetSocket(s, IF st.m_endPoint = NoEndPoint THEN st ELSE b)
  BY DEF BindToNetDevice
<1>2. old \in SocketStates /\ Allocated(old) /\ Checked(old) /\ Quiet(old)
  BY <1>0 DEF Good
<1>3. st \in SocketStates /\ st.m_endPoint = old.m_endPoint
  BY <1>0, <1>2 DEF SocketStates
<1>4. Good(st)
  BY <1>2, <1>3 DEF Good, Allocated, Checked, Quiet, HasEndPoint, SocketStates
<1>5. CASE st.m_endPoint = NoEndPoint
  <2> HIDE DEF st, old
  <2>1. Apart(Others(s), st)
    BY <1>0, <1>5, SameEndPoint
  <2> QED
    BY <1>0, <1>1, <1>4, <1>5, <2>1, SetSocketKeeps
<1>6. CASE st.m_endPoint # NoEndPoint
  <2> HIDE DEF st
  <2>1. st \in SocketStates /\ Checked(st) /\ st.m_endPoint.port # 0
    BY <1>4, <1>6 DEF Good, Allocated, HasEndPoint
  <2>2. st.m_endPoint \in EndPoints
    BY <2>1 DEF SocketStates
  <2> DEFINE ep == [st.m_endPoint EXCEPT !.device = d]
  <2>3. ep \in EndPoints /\ ep.device = d /\ ep.port # 0
    BY <1>0, <2>1, <2>2 DEF EndPoints
  <2>4. ep # NoEndPoint
    BY <2>3 DEF NoEndPoint
  <2>5. /\ b \in SocketStates /\ b.m_endPoint = ep
        /\ b.m_connected = st.m_connected /\ b.stopped = st.stopped
        /\ b.pending = st.pending /\ b.sent = st.sent
        /\ b.m_shutdownSend = st.m_shutdownSend /\ b.retxEvents = st.retxEvents
    BY <2>1, <2>3 DEF SocketStates
  <2> HIDE DEF b, ep
  <2>6. Good(b)
    BY <2>1, <2>3, <2>4, <2>5 DEF Good, Allocated, Checked, Quiet, HasEndPoint
  <2>7. Apart(Others(s), b)
    BY <1>0, <2>3, <2>5, SameEndPoint
  <2> QED
    BY <1>0, <1>1, <1>6, <2>6, <2>7, SetSocketKeeps
<1> QED
  BY <1>5, <1>6

\* ShutdownSend, ShutdownRecv and Close.
LEMMA ShutdownIInv ==
  ASSUME IInv, NEW s \in Sockets, ShutdownSend(s) \/ ShutdownRecv(s) \/ Close(s)
  PROVE  IInv'
<1> DEFINE old == sock[s]
<1>0. s \in Sockets /\ Good(old) /\ m_sockets' \subseteq m_sockets
  BY DEF IInv, ShutdownSend, ShutdownRecv, Close
<1>1. old \in SocketStates /\ Allocated(old) /\ Checked(old) /\ Quiet(old)
  BY <1>0 DEF Good
<1>2. ASSUME NEW st, Good(st), st.m_endPoint \in {old.m_endPoint, NoEndPoint},
             SetSocket(s, st)
      PROVE  IInv'
  <2>1. Apart(Others(s), st)
    BY <1>0, <1>2, SameEndPoint
  <2> QED
    BY <1>0, <1>2, <2>1, SetSocketKeeps
<1>3. CASE ShutdownSend(s)
  <2> DEFINE st == [old EXCEPT !.m_shutdownSend = TRUE, !.stopped = TRUE]
  <2>1. SetSocket(s, st)
    BY <1>3 DEF ShutdownSend
  <2>2. /\ st \in SocketStates /\ st.m_endPoint = old.m_endPoint
        /\ Allocated(st) /\ Checked(st) /\ Quiet(st)
    BY <1>1 DEF SocketStates, Allocated, Checked, Quiet, HasEndPoint
  <2> HIDE DEF st
  <2> QED
    BY <1>2, <2>1, <2>2 DEF Good
<1>4. CASE ShutdownRecv(s)
  <2> DEFINE st == [old EXCEPT !.m_shutdownRecv = TRUE]
  <2>1. SetSocket(s, st)
    BY <1>4 DEF ShutdownRecv
  <2>2. /\ st \in SocketStates /\ st.m_endPoint = old.m_endPoint
        /\ Allocated(st) /\ Checked(st) /\ Quiet(st)
    BY <1>1 DEF SocketStates, Allocated, Checked, Quiet, HasEndPoint
  <2> HIDE DEF st
  <2> QED
    BY <1>2, <2>1, <2>2 DEF Good
<1>5. CASE Close(s)
  <2> DEFINE st == [old EXCEPT !.m_shutdownSend = TRUE, !.m_shutdownRecv = TRUE,
                               !.stopped = TRUE, !.reconnected = FALSE]
  <2>0. /\ ~(old.m_shutdownRecv /\ old.m_shutdownSend)
        /\ \/ st.m_endPoint = NoEndPoint /\ SetSocket(s, st)
           \/ st.m_endPoint # NoEndPoint /\ SetSocket(s, DeallocateEndPoint(st))
    BY <1>5 DEF Close
  <2>1. /\ st \in SocketStates /\ st.m_endPoint = old.m_endPoint
        /\ st.m_shutdownSend /\ st.m_shutdownRecv /\ st.stopped
        /\ st.sent = old.sent /\ st.pending = old.pending
        /\ st.m_connected = old.m_connected /\ st.sendEvents = old.sendEvents
        /\ st.orphaned = old.orphaned
    BY <1>1 DEF SocketStates
  <2> HIDE DEF st
  <2>2. Allocated(st) /\ Checked(st)
    BY <1>1, <2>1 DEF Allocated, Checked, HasEndPoint
  <2>3. CASE st.m_endPoint = NoEndPoint /\ SetSocket(s, st)
    <3>1. old.sent \in Nat /\ (~old.orphaned => ~(old.sent > 0))
      BY <1>1, <2>0, <2>1, <2>3 DEF Quiet, HasEndPoint, SocketStates
    <3>2. Quiet(st)
      BY <1>1, <2>1, <2>3, <3>1 DEF Quiet, HasEndPoint
    <3> QED
      BY <1>2, <2>1, <2>2, <2>3, <3>2 DEF Good
  <2>4. CASE SetSocket(s, DeallocateEndPoint(st))
    <3> DEFINE z == DeallocateEndPoint(st)
    <3>1. NoEndPoint \in EndPoints
      BY DEF NoEndPoint, EndPoints
    <3> DEFINE none == 0
               c == [st EXCEPT !.sendEvents = none, !.retxEvents = none]
    <3>a. z = [c EXCEPT !.m_endPoint = NoEndPoint]
      BY DEF DeallocateEndPoint, CancelAllTimers
    <3>b. none \in 0..1 /\ none = 0
      OBVIOUS
    <3> HIDE DEF none, z
    <3>c. /\ c \in SocketStates /\ c.sendEvents = none /\ c.retxEvents = none
          /\ c.m_shutdownSend = st.m_shutdownSend
          /\ c.m_shutdownRecv = st.m_shutdownRecv /\ c.stopped = st.stopped
          /\ c.sent = st.sent /\ c.pending = st.pending
          /\ c.m_connected = st.m_connected
      BY <2>1, <3>b DEF SocketStates
    <3> HIDE DEF c
    <3>2. /\ z \in SocketStates /\ z.m_endPoint = NoEndPoint
          /\ z.sendEvents = 0 /\ z.retxEvents = 0
          /\ z.m_shutdownSend /\ z.m_shutdownRecv /\ z.stopped
          /\ z.sent = st.sent /\ z.pending = st.pending
          /\ z.m_connected = st.m_connected
      BY <2>1, <3>1, <3>a, <3>b, <3>c DEF SocketStates
    <3>3. Good(z)
      BY <2>2, <3>2 DEF Good, Allocated, Checked, Quiet, HasEndPoint
    <3>4. SetSocket(s, z)
      BY <2>4 DEF z
    <3> QED
      BY <1>2, <3>2, <3>3, <3>4
  <2> QED
    BY <2>0, <2>3, <2>4
<1> QED
  BY <1>3, <1>4, <1>5

\* Connect, the timeout check and SendWindowData keep the end point.
LEMMA TimersIInv ==
  ASSUME IInv, NEW s \in Senders,
         \/ Connect(s)
         \/ CheckRetransmitTimeout(s)
         \/ \E k \in 0..MaxQueue : SendWindowData(s, k)
  PROVE  IInv'
<1> DEFINE old == sock[s]
<1>0. s \in Sockets /\ Good(old) /\ m_sockets' = m_sockets
  BY HostAssumption DEF IInv, Connect, CheckRetransmitTimeout, SendWindowData
<1>1. old \in SocketStates /\ Allocated(old) /\ Checked(old) /\ Quiet(old)
  BY <1>0 DEF Good
<1>2. ASSUME NEW st, Good(st), st.m_endPoint = old.m_endPoint, SetSocket(s, st)
      PROVE  IInv'
  <2>1. Apart(Others(s), st)
    BY <1>0, <1>2, SameEndPoint
  <2> QED
    BY <1>0, <1>2, <2>1, SetSocketKeeps
<1>3. CASE Connect(s)
  <2> DEFINE closed == old.m_endPoint = NoEndPoint /\ old.sent > 0
             t == StartTimer(old)
             st == [t EXCEPT !.m_connected = TRUE, !.reconnected = @ \/ closed]
  <2>1. SetSocket(s, st)
    BY <1>3 DEF Connect
  <2>2. /\ t \in SocketStates /\ t.retxEvents = 1
        /\ t.m_endPoint = old.m_endPoint /\ t.sent = old.sent
        /\ t.pending = old.pending /\ t.sendEvents = old.sendEvents
        /\ t.m_shutdownSend = old.m_shutdownSend /\ t.stopped = old.stopped
        /\ t.m_shutdownRecv = old.m_shutdownRecv /\ t.orphaned = old.orphaned
    BY <1>1 DEF StartTimer, SocketStates
  <2> HIDE DEF t
  <2>3. /\ st \in SocketStates /\ st.retxEvents = 1 /\ st.m_connected
        /\ st.m_endPoint = old.m_endPoint /\ st.sent = old.sent
        /\ st.pending = old.pending /\ st.sendEvents = old.sendEvents
        /\ st.m_shutdownSend = old.m_shutdownSend /\ st.stopped = old.stopped
        /\ st.m_shutdownRecv = old.m_shutdownRecv /\ st.orphaned = old.orphaned
        /\ closed => st.reconnected
    BY <2>2 DEF SocketStates
  <2> HIDE DEF st
  <2>4. Allocated(st) /\ Checked(st) /\ Quiet(st)
    BY <1>1, <2>3 DEF Allocated, Checked, Quiet, HasEndPoint
  <2> QED
    BY <1>2, <2>1, <2>3, <2>4 DEF Good
<1>4. CASE CheckRetransmitTimeout(s)
  <2> DEFINE n == old.retxEvents - 1 + (IF KeepsChecking(old) THEN 1 ELSE 0)
             st == [old EXCEPT !.retxEvents = n]
  <2>1. old.retxEvents > 0 /\ SetSocket(s, st)
    BY <1>4 DEF CheckRetransmitTimeout
  <2>2. old.retxEvents = 1 /\ n = IF KeepsChecking(old) THEN 1 ELSE 0
    BY <1>1, <2>1 DEF SocketStates
  <2>3. KeepsChecking(old) <=> ~old.m_shutdownSend /\ old.m_connected
    BY DEF KeepsChecking
  <2> HIDE DEF n
  <2>4. /\ st \in SocketStates /\ st.retxEvents = n
        /\ st.m_endPoint = old.m_endPoint /\ st.sent = old.sent
        /\ st.pending = old.pending /\ st.sendEvents = old.sendEvents
        /\ st.m_shutdownSend = old.m_shutdownSend /\ st.stopped = old.stopped
        /\ st.m_shutdownRecv = old.m_shutdownRecv
        /\ st.m_connected = old.m_connected /\ st.reconnected = old.reconnected
        /\ st.orphaned = old.orphaned
    BY <1>1, <2>2 DEF SocketStates
  <2> HIDE DEF st
  <2>5. Allocated(st) /\ Checked(st)
    BY <1>1, <2>2, <2>3, <2>4 DEF Allocated, Checked, HasEndPoint
  <2>6. Quiet(st)
    BY <1>1, <2>2, <2>4 DEF Quiet, HasEndPoint
  <2> QED
    BY <1>2, <2>1, <2>4, <2>5, <2>6 DEF Good
<1>5. ASSUME NEW k \in 0..MaxQueue, SendWindowData(s, k) PROVE IInv'
  <2> DEFINE events == old.sendEvents - 1
             pending == old.pending - k
             sent == old.sent + k
             st == [old EXCEPT !.sendEvents = events, !.pending = pending,
                               !.sent = sent]
  <2>0. k \in Nat
    BY HostAssumption
  <2>1. old.sendEvents > 0 /\ k <= old.pending /\ SetSocket(s, st)
    BY <1>5 DEF SendWindowData
  <2>2. /\ old.sendEvents = 1
        /\ old.pending \in Nat /\ old.sent \in Nat
    BY <1>1, <2>1 DEF SocketStates
  <2>3. /\ pending \in Nat /\ sent \in Nat /\ events \in 0..1
        /\ sent + pending = old.sent + old.pending
    BY <2>0, <2>1, <2>2
  <2> HIDE DEF pending, sent, events
  <2>4. HasEndPoint(old) \/ old.orphaned
    BY <1>1, <2>2 DEF Quiet
  <2>5. /\ st \in SocketStates
        /\ st.m_endPoint = old.m_endPoint /\ st.sent = sent
        /\ st.pending = pending /\ st.retxEvents = old.retxEvents
        /\ st.m_shutdownSend = old.m_shutdownSend /\ st.stopped = old.stopped
        /\ st.m_connected = old.m_connected /\ st.orphaned = old.orphaned
    BY <1>1, <2>3 DEF SocketStates
  <2> HIDE DEF st
  <2>6. Allocated(st) /\ Checked(st) /\ Quiet(st)
    BY <1>1, <2>3, <2>4, <2>5 DEF Allocated, Checked, Quiet, HasEndPoint
  <2> QED
    BY <1>2, <2>1, <2>5, <2>6 DEF Good
<1> QED
  BY <1>3, <1>4, <1>5

\* A socket that has an end point and is connected takes one more packet.
LEMMA QueueIsGood ==
  ASSUME NEW st, Good(st), HasEndPoint(st), st.m_connected
  PROVE  LET q == ScheduleSend([st EXCEPT !.pending = @ + 1]) IN
         Good(q) /\ q.m_endPoint = st.m_endPoint
<1> DEFINE t == [st EXCEPT !.pending = @ + 1]
           q == ScheduleSend(t)
<1>1. st \in SocketStates /\ Allocated(st) /\ Checked(st)
  BY DEF Good
<1>2. /\ t \in SocketStates /\ t.m_endPoint = st.m_endPoint
      /\ t.m_connected /\ t.stopped = st.stopped /\ t.retxEvents = st.retxEvents
      /\ t.m_shutdownSend = st.m_shutdownSend
  BY <1>1 DEF SocketStates
<1> HIDE DEF t
<1>3. /\ q \in SocketStates /\ q.m_endPoint = st.m_endPoint
      /\ q.m_connected /\ q.stopped = st.stopped /\ q.retxEvents = st.retxEvents
      /\ q.m_shutdownSend = st.m_shutdownSend
  BY <1>2 DEF ScheduleSend, SocketStates
<1> HIDE DEF q
<1>4. Good(q)
  BY <1>1, <1>3 DEF Good, Allocated, Checked, Quiet, HasEndPoint
<1> QED
  BY <1>3, <1>4 DEF q, t

\* Send, which may bind the socket first.
LEMMA SendIInv ==
  ASSUME IInv, NEW s \in Senders, Send(s)
  PROVE  IInv'
<1>0. s \in Sockets /\ Good(sock[s]) /\ m_sockets' = m_sockets /\ sock[s].m_connected
  BY HostAssumption DEF IInv, Send
<1>1. CASE /\ sock[s].m_endPoint # NoEndPoint
           /\ SetSocket(s, ScheduleSend([sock[s] EXCEPT !.pending = @ + 1]))
  <2> DEFINE q == ScheduleSend([sock[s] EXCEPT !.pending = @ + 1])
  <2>1. Good(q) /\ q.m_endPoint = sock[s].m_endPoint
    BY <1>0, <1>1, QueueIsGood DEF HasEndPoint
  <2>2. SetSocket(s, q)
    BY <1>1
  <2> HIDE DEF q
  <2>3. Apart(Others(s), q)
    BY <1>0, <2>1, SameEndPoint
  <2> QED
    BY <1>0, <2>1, <2>2, <2>3, SetSocketKeeps
<1>2. ASSUME NEW p \in FreePorts,
             SetSocket(s, ScheduleSend([Bound(sock[s], AnyAddress, p)
                                          EXCEPT !.pending = @ + 1]))
      PROVE  IInv'
  <2> DEFINE b == Bound(sock[s], AnyAddress, p)
             q == ScheduleSend([b EXCEPT !.pending = @ + 1])
  <2>0. p \in BoundPorts /\ AnyAddress \in BindAddresses \cup {AnyAddress}
    BY DEF BoundPorts, FreePorts
  <2>a. Good(b) /\ HasEndPoint(b) /\ b.m_endPoint.port = p
    BY <1>0, <2>0, BoundIsGood
  <2>b. b.m_connected
    BY <1>0, <2>0, BoundIsGood
  <2>1. Good(b) /\ HasEndPoint(b) /\ b.m_endPoint.port = p /\ b.m_connected
    BY <2>a, <2>b
  <2> HIDE DEF b
  <2>2. Good(q) /\ q.m_endPoint = b.m_endPoint
    BY <2>1, QueueIsGood
  <2>3. SetSocket(s, q)
    BY <1>2 DEF b
  <2> HIDE DEF q
  <2>4. Apart(Others(s), q)
    BY <2>1, <2>2, AllocatedApart DEF Others
  <2> QED
    BY <1>0, <2>2, <2>3, <2>4, SetSocketKeeps
<1> QED
  BY <1>1, <1>2 DEF Send

\* An ACK in order leaves the socket awake; without an end point it changes
\* nothing, unless Bind() has dropped the one the ACK came for.
LEMMA ReceiveAckIInv ==
  ASSUME IInv, NEW s \in Sockets, ~sock[s].m_shutdownRecv,
         NEW inOrder \in BOOLEAN, NEW k \in 0..MaxQueue, ReceiveAck(s, inOrder, k)
  PROVE  IInv'
<1> DEFINE old == sock[s]
           rest == old.sent - k
           t == [old EXCEPT !.sent = rest]
<1>1. /\ old \in SocketStates /\ Allocated(old) /\ Checked(old) /\ Quiet(old)
      /\ old.sent \in Nat /\ old.pending \in Nat /\ k \in Nat
  BY HostAssumption DEF IInv, Good, SocketStates
<1>2. k <= old.sent /\ m_sockets' = m_sockets
  BY DEF ReceiveAck
<1>3. rest \in Nat /\ rest <= old.sent
  BY <1>1, <1>2
<1>a. k = 1 => rest = old.sent - 1
  OBVIOUS
<1> HIDE DEF rest
<1>4. /\ t \in SocketStates /\ t.m_endPoint = old.m_endPoint
      /\ t.m_connected = old.m_connected /\ t.stopped = old.stopped
      /\ t.retxEvents = old.retxEvents /\ t.sendEvents = old.sendEvents
      /\ t.m_shutdownSend = old.m_shutdownSend /\ t.orphaned = old.orphaned
      /\ t.sent = rest /\ t.pending = old.pending
      /\ t.m_shutdownRecv = old.m_shutdownRecv /\ t.reconnected = old.reconnected
  BY <1>1, <1>3 DEF SocketStates
<1>b. inOrder => SetSocket(s, ScheduleSend(t))
  BY <1>a DEF ReceiveAck
<1>c. ~inOrder => SetSocket(s, t)
  BY DEF ReceiveAck, rest
<1>d. inOrder => k = 1
  BY DEF ReceiveAck
<1> HIDE DEF t
<1>5. Allocated(t) /\ Checked(t)
  BY <1>1, <1>3, <1>4 DEF Allocated, Checked, HasEndPoint
<1>6. ~HasEndPoint(old) /\ ~old.orphaned => old.sent = 0
  BY <1>1 DEF Quiet
<1>7. Quiet(t)
  BY <1>1, <1>3, <1>4, <1>6 DEF Quiet, HasEndPoint
<1>8. CASE SetSocket(s, t)
  <2>1. Apart(Others(s), t)
    BY <1>4, SameEndPoint
  <2> QED
    BY <1>2, <1>4, <1>5, <1>7, <1>8, <2>1, SetSocketKeeps DEF Good
<1>9. CASE inOrder /\ SetSocket(s, ScheduleSend(t))
  <2> DEFINE q == ScheduleSend(t)
  <2>1. /\ q \in SocketStates /\ q.m_endPoint = t.m_endPoint
        /\ q.m_connected = t.m_connected /\ q.stopped = t.stopped
        /\ q.retxEvents = t.retxEvents /\ q.m_shutdownSend = t.m_shutdownSend
        /\ q.orphaned = t.orphaned /\ q.sent = t.sent /\ q.pending = t.pending
    BY <1>4 DEF ScheduleSend, SocketStates
  <2> HIDE DEF q
  <2>2. HasEndPoint(old) \/ old.orphaned
    BY <1>1, <1>2, <1>6, <1>9, <1>d
  <2>3. Good(q)
    BY <1>4, <1>5, <2>1, <2>2 DEF Good, Allocated, Checked, Quiet, HasEndPoint
  <2>4. Apart(Others(s), q)
    BY <1>4, <2>1, SameEndPoint
  <2> QED
    BY <1>2, <1>9, <2>3, <2>4, SetSocketKeeps DEF q
<1> QED
  BY <1>b, <1>c, <1>8, <1>9

\* An ACK reaches the socket of the end point that is found for it.
LEMMA ReceiveIInv ==
  ASSUME IInv, NEW addr, NEW port, NEW iface, Receive(addr, port, iface)
  PROVE  IInv'
<1>1. PICK e \in Lookup(addr, port, iface) :
        /\ ~sock[e.socket].m_shutdownRecv
        /\ \E inOrder \in BOOLEAN, k \in 0..MaxQueue :
             ReceiveAck(e.socket, inOrder, k)
  BY DEF Receive
<1>2. e \in m_endPoints
  BY DEF Lookup
<1>3. e.socket \in Sockets
  BY <1>2 DEF IInv, Agree, Records
<1> QED
  BY <1>1, <1>3, ReceiveAckIInv
-----------------------------------------------------------------------------
(* The results.                                                            *)

\* Every step of the node keeps the invariant; the table has no part in it.
LEMMA NextIInv == IInv /\ [Next]_vars => IInv'
<1> SUFFICES ASSUME IInv, [Next]_vars PROVE IInv'
  OBVIOUS
<1>1. ASSUME UNCHANGED <<m_endPoints, sock>>, m_sockets' \subseteq Sockets
      PROVE  IInv'
  <2>1. /\ DOMAIN sock' = Sockets
        /\ \A s \in Sockets : sock'[s] = sock[s]
    BY <1>1 DEF IInv
  <2>2. Agree' /\ EndPointsDiffer'
    BY <1>1 DEF IInv, Agree, EndPointsDiffer
  <2>3. (\A s \in Sockets : Good(sock[s]))'
    BY <1>1 DEF IInv
  <2> QED
    BY <1>1, <2>1, <2>2, <2>3 DEF IInv
<1>2. CASE UNCHANGED socketVars
  BY <1>1, <1>2 DEF socketVars, IInv
<1>3. CASE SocketNext
  <2>1. ASSUME NEW s \in Sockets, CreateSocket(s) PROVE IInv'
    BY <1>1, <2>1 DEF CreateSocket, IInv
  <2> QED
    BY <1>3, <2>1, BindToNetDeviceIInv, BindIInv, BindAnyPortIInv,
       ShutdownIInv, TimersIInv, SendIInv, ReceiveIInv DEF SocketNext
<1> QED
  BY <1>2, <1>3 DEF Next, vars

\* The invariant holds in every state of the node.
LEMMA Invariance == Spec => []IInv
  BY InitIInv, NextIInv, PTL DEF Spec

(***************************************************************************)
(* No two end points that are bound to no device have the same address and *)
(* port, whatever sockets bound, closed, bound again or leaked before: so  *)
(* two that match a packet without BindToNetDevice are wildcards, one at   *)
(* any address and the others at the network address of the interface.     *)
(***************************************************************************)
THEOREM EndPointsAreDistinct == Spec => []EndPointsDiffer
<1>1. IInv => EndPointsDiffer
  BY DEF IInv
<1> QED
  BY <1>1, Invariance, PTL

(***************************************************************************)
(* DoSendTo finds an end point in m_endPoint whenever an event that sends  *)
(* is pending, unless the application connected a closed socket again or   *)
(* Bind() found no port and dropped the end point.                         *)
(***************************************************************************)
THEOREM SendsFindEndPoint == Spec => []SendsHaveEndPoint
<1>1. IInv => SendsHaveEndPoint
  BY DEF IInv, Good, Quiet, HasEndPoint, SendsHaveEndPoint
<1> QED
  BY <1>1, Invariance, PTL

(***************************************************************************)
(* Neither of the two timers of a socket ever runs twice, and the timeout  *)
(* check does not end while packets may need it, until sending is shut     *)
(* down.                                                                   *)
(***************************************************************************)
THEOREM RetransmissionGoesOn == Spec => []RetransmissionKept
<1>1. IInv => RetransmissionKept
  BY DEF IInv, Good, Checked, SocketStates, RetransmissionKept
<1> QED
  BY <1>1, Invariance, PTL
-----------------------------------------------------------------------------
(* Loops over a sequence, which are folds.                                 *)

\* The last of some positions of a sequence.
LEMMA LastPosition ==
  ASSUME NEW n \in Nat, NEW s \in SUBSET (1..n), s # {}
  PROVE  Max(s) \in s /\ \A y \in s : Max(s) >= y
  <1> DEFINE N == {m \in Nat : n - m \in s}
  <1>1. PICK x \in s : TRUE
    OBVIOUS
  <1>2. n - x \in N
    OBVIOUS
  <1>3. PICK m \in N : \A k \in N : m <= k
    BY <1>2, B!LeastNat
  <1>4. \A y \in s : n - m >= y
    <2> SUFFICES ASSUME NEW y \in s PROVE n - m >= y
      OBVIOUS
    <2>1. n - y \in N
      OBVIOUS
    <2> QED BY <1>3, <2>1
  <1>5. n - m \in s
    OBVIOUS
  <1> QED BY <1>4, <1>5 DEF Max

\* The positions up to k.
LEMMA Prefix ==
  ASSUME NEW n \in Nat, NEW k \in 1..n
  PROVE  /\ 1..k \in SUBSET (1..n) /\ 1..k # {}
         /\ Max(1..k) = k
         /\ (1..k) \ {Max(1..k)} = 1..(k - 1)
  <1>1. 1..k \in SUBSET (1..n) /\ k \in 1..k
    OBVIOUS
  <1>2. Max(1..k) \in 1..k /\ Max(1..k) >= k
    BY <1>1, LastPosition
  <1>3. Max(1..k) = k
    BY <1>2
  <1> QED BY <1>1, <1>3

\* g is what FoldLeft builds, for the step F: an outcome for each set of
\* positions in D.
Folded(F, base, seq, D, g) ==
  g = [s \in D |-> IF s = {} THEN base ELSE F[<<g[s \ {Max(s)}], seq[Max(s)]>>]]

\* There is one for all sets of positions.
LEMMA FoldExists ==
  ASSUME NEW F, NEW base, NEW seq, NEW n \in Nat
  PROVE  \E g : Folded(F, base, seq, SUBSET (1..n), g)
  <1> DEFINE S    == 1..n
             D(m) == {s \in SUBSET S : Cardinality(s) <= m}
             Step(g, s) == IF s = {} THEN base
                           ELSE F[<<g[s \ {Max(s)}], seq[Max(s)]>>]
             N    == {m \in Nat : \E g : Folded(F, base, seq, D(m), g)}
  <1>0. IsFiniteSet(S) /\ Cardinality(S) = n
    BY FS_Interval
  <1>1. \A s \in SUBSET S : /\ IsFiniteSet(s) /\ Cardinality(s) \in Nat
                            /\ Cardinality(s) <= n
    <2> HIDE DEF S
    <2> QED BY <1>0, FS_Subset, FS_CardinalityType
  <1>2. \A s \in SUBSET S : s # {} => Cardinality(s \ {Max(s)}) = Cardinality(s) - 1
    BY <1>1, LastPosition, FS_RemoveElement
  <1>3. 0 \in N
    <2> DEFINE g == [s \in D(0) |-> base]
    <2>1. \A s \in D(0) : s = {}
      BY <1>1, FS_EmptySet
    <2>2. Folded(F, base, seq, D(0), g)
      BY <2>1 DEF Folded
    <2> QED BY <2>2
  <1>4. ASSUME NEW m \in N
        PROVE  m + 1 \in N
    <2>1. PICK g : Folded(F, base, seq, D(m), g)
      OBVIOUS
    <2> DEFINE h == [s \in D(m + 1) |-> Step(g, s)]
    <2>2. \A s \in D(m + 1) : s # {} => s \ {Max(s)} \in D(m)
      <3> HIDE DEF S
      <3> SUFFICES ASSUME NEW s \in D(m + 1), s # {} PROVE s \ {Max(s)} \in D(m)
        OBVIOUS
      <3>1. s \in SUBSET S /\ Cardinality(s) <= m + 1 /\ m \in Nat
        OBVIOUS
      <3>2. Cardinality(s) \in Nat /\ Cardinality(s \ {Max(s)}) = Cardinality(s) - 1
        BY <1>1, <1>2, <3>1
      <3>3. Cardinality(s \ {Max(s)}) <= m
        BY ONLY <3>1, <3>2
      <3> QED BY <3>1, <3>3
    <2>3. \A s \in D(m) : s \in D(m + 1) /\ h[s] = g[s]
      <3> SUFFICES ASSUME NEW s \in D(m) PROVE s \in D(m + 1) /\ h[s] = g[s]
        OBVIOUS
      <3>1. s \in D(m + 1)
        BY <1>1
      <3>2. g[s] = Step(g, s)
        BY <2>1, Zenon DEF Folded
      <3> HIDE DEF Step
      <3> QED BY <3>1, <3>2
    <2>4. \A s \in D(m + 1) : s # {} => h[s \ {Max(s)}] = g[s \ {Max(s)}]
      BY <2>2, <2>3
    <2>5. Folded(F, base, seq, D(m + 1), h)
      <3>1. \A s \in D(m + 1) : Step(g, s) = Step(h, s)
        <4> HIDE DEF h, D
        <4> QED BY <2>4
      <3>2. h = [s \in D(m + 1) |-> Step(h, s)]
        <4> HIDE DEF Step, D
        <4> QED BY <3>1
      <3> QED BY <3>2 DEF Folded
    <2> HIDE DEF h, D
    <2> QED BY <2>5
  <1> HIDE DEF N
  <1>5. N \in SUBSET Nat
    BY DEF N
  <1>6. n \in N
    BY <1>3, <1>4, <1>5, B!Upwards
  <1>7. D(n) = SUBSET S
    <2> HIDE DEF S
    <2> QED BY <1>1
  <1> QED BY <1>6, <1>7 DEF N

\* Its outcomes are in T if the step stays there.
LEMMA FoldTyped ==
  ASSUME NEW T, NEW E, NEW F \in [T \X E -> T], NEW base \in T, NEW n \in Nat,
         NEW seq, \A k \in 1..n : seq[k] \in E,
         NEW g, Folded(F, base, seq, SUBSET (1..n), g)
  PROVE  \A s \in SUBSET (1..n) : g[s] \in T
  <1> DEFINE S == 1..n
             N == {m \in Nat : \A s \in SUBSET S : Cardinality(s) <= m => g[s] \in T}
  <1>0. IsFiniteSet(S) /\ Cardinality(S) = n
    BY FS_Interval
  <1>1. \A s \in SUBSET S : /\ IsFiniteSet(s) /\ Cardinality(s) \in Nat
                            /\ Cardinality(s) <= n
    <2> HIDE DEF S
    <2> QED BY <1>0, FS_Subset, FS_CardinalityType
  <1>2. \A s \in SUBSET S : s # {} => Cardinality(s \ {Max(s)}) = Cardinality(s) - 1
    BY <1>1, LastPosition, FS_RemoveElement
  <1>3. g[{}] = base
    BY DEF Folded
  <1>4. \A s \in SUBSET S : s # {} => g[s] = F[<<g[s \ {Max(s)}], seq[Max(s)]>>]
    BY Zenon DEF Folded
  <1>5. 0 \in N
    <2>1. \A s \in SUBSET S : Cardinality(s) <= 0 => s = {}
      BY <1>1, FS_EmptySet
    <2> QED BY <1>3, <2>1
  <1>6. ASSUME NEW m \in N PROVE m + 1 \in N
    <2>1. m \in Nat /\ \A s \in SUBSET S : Cardinality(s) <= m => g[s] \in T
      OBVIOUS
    <2>2. ASSUME NEW s \in SUBSET S, Cardinality(s) <= m + 1, s # {}
          PROVE  g[s] \in T
      <3> DEFINE t == s \ {Max(s)}
      <3>1. Max(s) \in 1..n /\ seq[Max(s)] \in E
        BY <2>2, LastPosition
      <3>2. t \in SUBSET S /\ Cardinality(t) <= m
        <4> HIDE DEF S
        <4>1. Cardinality(s) \in Nat /\ Cardinality(t) = Cardinality(s) - 1
          BY <1>1, <1>2, <2>2
        <4>2. Cardinality(t) <= m
          BY ONLY <2>1, <2>2, <4>1
        <4> QED BY <4>2
      <3>3. g[t] \in T
        BY <2>1, <3>2
      <3>4. g[s] = F[<<g[t], seq[Max(s)]>>]
        BY <1>4, <2>2
      <3> HIDE DEF t
      <3> QED BY <3>1, <3>3, <3>4
    <2>3. \A s \in SUBSET S : Cardinality(s) <= m + 1 => g[s] \in T
      BY <1>3, <2>2
    <2> QED BY <2>1, <2>3
  <1> HIDE DEF N
  <1>7. N \in SUBSET Nat
    BY DEF N
  <1>8. n \in N
    BY <1>5, <1>6, <1>7, B!Upwards
  <1>9. \A s \in SUBSET S : g[s] \in T
    <2> HIDE DEF S
    <2> QED BY <1>1, <1>8 DEF N
  <1> QED BY <1>9

\* A loop over seq has an outcome in T after every step.
LEMMA FoldRuns ==
  \A T, E, F, base, seq :
    F \in [T \X E -> T] /\ base \in T /\ seq \in Seq(E)
    => \E g : /\ Folded(F, base, seq, SUBSET DOMAIN seq, g)
              /\ \A s \in SUBSET DOMAIN seq :
                   g[s] \in T /\ (s # {} => Max(s) \in DOMAIN seq)
  <1> SUFFICES ASSUME NEW T, NEW E, NEW F \in [T \X E -> T], NEW base \in T,
                      NEW seq \in Seq(E)
               PROVE  \E g : /\ Folded(F, base, seq, SUBSET DOMAIN seq, g)
                             /\ \A s \in SUBSET DOMAIN seq :
                                  g[s] \in T /\ (s # {} => Max(s) \in DOMAIN seq)
    OBVIOUS
  <1>1. /\ Len(seq) \in Nat /\ DOMAIN seq = 1..Len(seq)
        /\ \A k \in 1..Len(seq) : seq[k] \in E
    OBVIOUS
  <1>2. PICK g : Folded(F, base, seq, SUBSET (1..Len(seq)), g)
    BY <1>1, FoldExists
  <1>3. \A s \in SUBSET (1..Len(seq)) : g[s] \in T
    BY <1>1, <1>2, FoldTyped
  <1>4. \A s \in SUBSET (1..Len(seq)) : s # {} => Max(s) \in 1..Len(seq)
    BY <1>1, LastPosition
  <1> QED BY <1>1, <1>2, <1>3, <1>4

-----------------------------------------------------------------------------
(* The look-ups.                                                           *)

Routes == Route(Interfaces)
Best == [route : Routes \cup {NoRoute}, longest : 0..AddrBits,
         shortest : 0..MaxMetric, done : BOOLEAN]
Nothing == [route |-> NoRoute, longest |-> 0, shortest |-> MaxMetric,
            done |-> FALSE]

\* What the loop of LookupStatic keeps has the type of its variables.
LEMMA ConsiderTyped ==
  /\ Nothing \in Best
  /\ \A best \in Best, r \in Routes : \A dest, oif : Consider(best, r, dest, oif) \in Best
  <1>1. MaxMetric \in Nat /\ AddrBits \in Nat
    BY RoutingAssumption
  <1>2. Nothing \in Best
    BY <1>1 DEF Nothing, Best
  <1> SUFFICES ASSUME NEW best \in Best, NEW r \in Routes, NEW dest, NEW oif
               PROVE  Consider(best, r, dest, oif) \in Best
    BY <1>2
  <1>3. /\ best.longest \in 0..AddrBits /\ best.shortest \in 0..MaxMetric
        /\ best.route \in Routes \cup {NoRoute} /\ best.done \in BOOLEAN
    BY DEF Best
  <1>4. r.len \in 0..AddrBits /\ r.metric \in 0..MaxMetric
    BY DEF Routes, Route
  <1> HIDE DEF Routes
  <1> DEFINE new == [route |-> r, longest |-> r.len, shortest |-> r.metric,
                     done |-> r.len = AddrBits]
             shortest == IF r.len > best.longest THEN MaxMetric ELSE best.shortest
             pass == [best EXCEPT !.longest = r.len, !.shortest = shortest]
  <1>5. new \in Best
    BY <1>4 DEF Best
  <1>6. pass \in Best
    <2>1. shortest \in 0..MaxMetric
      BY <1>1, <1>3
    <2> HIDE DEF shortest
    <2> QED BY <1>4, <2>1 DEF Best
  <1>7. Consider(best, r, dest, oif) \in {best, new, pass}
    <2> HIDE DEF Best
    <2> QED BY Zenon DEF Consider
  <1> HIDE DEF new, pass
  <1> QED BY <1>5, <1>6, <1>7

\* The loop of LookupStatic, one outcome per turn.
LEMMA LookupRuns ==
  ASSUME NEW rs \in Seq(Routes), NEW dest, NEW oif, dest \notin LocalMulticast
  PROVE  \E it : /\ it[0] = Nothing
                 /\ \A k \in 1..Len(rs) : it[k] = Consider(it[k - 1], rs[k], dest, oif)
                 /\ LookupStatic(rs, dest, oif) = it[Len(rs)].route
  <1> DEFINE Op(best, r) == Consider(best, r, dest, oif)
             Loop(g) == g = [s \in SUBSET DOMAIN rs |->
                               IF s = {} THEN Nothing
                               ELSE Op(g[s \ {Max(s)}], rs[Max(s)])]
             F == [p \in Best \X Routes |-> Op(p[1], p[2])]
  <1>0. Len(rs) \in Nat /\ DOMAIN rs = 1..Len(rs)
    OBVIOUS
  <1>1. \A best \in Best, r \in Routes : Op(best, r) \in Best
    BY ConsiderTyped
  <1> HIDE DEF Op
  <1>2. F \in [Best \X Routes -> Best]
    BY <1>1
  <1>3. PICK g : /\ Folded(F, Nothing, rs, SUBSET DOMAIN rs, g)
                 /\ \A s \in SUBSET DOMAIN rs :
                      g[s] \in Best /\ (s # {} => Max(s) \in DOMAIN rs)
    <2>1. Nothing \in Best /\ rs \in Seq(Routes)
      BY ConsiderTyped
    <2> HIDE DEF F
    <2> QED BY <1>2, <2>1, FoldRuns, Zenon
  <1>4. Loop(g)
    <2>1. \A s \in SUBSET DOMAIN rs :
            s # {} => F[<<g[s \ {Max(s)}], rs[Max(s)]>>] = Op(g[s \ {Max(s)}], rs[Max(s)])
      BY <1>3
    <2> HIDE DEF F
    <2> QED BY <1>3, <2>1 DEF Folded
  <1> DEFINE f == CHOOSE h : Loop(h)
  <1>5. Loop(f)
    BY <1>4, Zenon
  <1>6. LookupStatic(rs, dest, oif) = f[DOMAIN rs].route
    BY Zenon DEF LookupStatic, FoldLeft, MapThenFoldSet, Op, Nothing
  <1> HIDE DEF f
  <1>7. f[1..0] = Nothing
    BY <1>5
  <1>8. \A k \in 1..Len(rs) : f[1..k] = Op(f[1..(k - 1)], rs[k])
    <2> SUFFICES ASSUME NEW k \in 1..Len(rs) PROVE f[1..k] = Op(f[1..(k - 1)], rs[k])
      OBVIOUS
    <2>1. /\ 1..k \in SUBSET (1..Len(rs)) /\ 1..k # {}
          /\ Max(1..k) = k /\ (1..k) \ {Max(1..k)} = 1..(k - 1)
      BY <1>0, Prefix
    <2> DEFINE s == 1..k
    <2> HIDE DEF s
    <2>2. s \in SUBSET DOMAIN rs /\ s # {} /\ Max(s) = k /\ s \ {Max(s)} = 1..(k - 1)
      BY <1>0, <2>1 DEF s
    <2>3. f[s] = Op(f[s \ {Max(s)}], rs[Max(s)])
      BY <1>5, <2>2, Zenon
    <2> QED BY <2>2, <2>3 DEF s
  <1> DEFINE it == [k \in 0..Len(rs) |-> f[1..k]]
  <1>9. it[0] = Nothing
    BY <1>0, <1>7
  <1>10. \A k \in 1..Len(rs) : it[k] = Consider(it[k - 1], rs[k], dest, oif)
    BY <1>0, <1>8 DEF Op
  <1>11. LookupStatic(rs, dest, oif) = it[Len(rs)].route
    BY <1>0, <1>6
  <1> HIDE DEF it
  <1> QED BY <1>9, <1>10, <1>11

\* GetDefaultRoute's loop.
DefaultBest == [route : Routes \cup {NoRoute}, shortest : 0..MaxMetric]
NoDefault == [route |-> NoRoute, shortest |-> MaxMetric]
ConsiderDefault(best, r) ==
  IF r.len # 0 \/ r.metric > best.shortest THEN best
  ELSE [route |-> r, shortest |-> r.metric]

\* What the loop of GetDefaultRoute keeps has the type of its variables.
LEMMA ConsiderDefaultTyped ==
  /\ NoDefault \in DefaultBest
  /\ \A best \in DefaultBest, r \in Routes : ConsiderDefault(best, r) \in DefaultBest
  <1>1. MaxMetric \in Nat
    BY RoutingAssumption
  <1>2. NoDefault \in DefaultBest
    BY <1>1 DEF NoDefault, DefaultBest
  <1>3. \A r \in Routes : r.metric \in 0..MaxMetric
    BY DEF Routes, Route
  <1> QED BY <1>2, <1>3 DEF ConsiderDefault, DefaultBest

\* The loop of GetDefaultRoute, one outcome per turn.
LEMMA DefaultRuns ==
  ASSUME NEW rs \in Seq(Routes)
  PROVE  \E it : /\ it[0] = NoDefault
                 /\ \A k \in 1..Len(rs) : it[k] = ConsiderDefault(it[k - 1], rs[k])
                 /\ GetDefaultRoute(rs) = it[Len(rs)].route
  <1> DEFINE Op(best, r) == ConsiderDefault(best, r)
             Loop(g) == g = [s \in SUBSET DOMAIN rs |->
                               IF s = {} THEN NoDefault
                               ELSE Op(g[s \ {Max(s)}], rs[Max(s)])]
             F == [p \in DefaultBest \X Routes |-> Op(p[1], p[2])]
  <1>0. Len(rs) \in Nat /\ DOMAIN rs = 1..Len(rs)
    OBVIOUS
  <1>1. \A best \in DefaultBest, r \in Routes : Op(best, r) \in DefaultBest
    BY ConsiderDefaultTyped
  <1> HIDE DEF Op
  <1>2. F \in [DefaultBest \X Routes -> DefaultBest]
    BY <1>1
  <1>3. PICK g : /\ Folded(F, NoDefault, rs, SUBSET DOMAIN rs, g)
                 /\ \A s \in SUBSET DOMAIN rs :
                      g[s] \in DefaultBest /\ (s # {} => Max(s) \in DOMAIN rs)
    <2>1. NoDefault \in DefaultBest /\ rs \in Seq(Routes)
      BY ConsiderDefaultTyped
    <2> HIDE DEF F
    <2> QED BY <1>2, <2>1, FoldRuns, Zenon
  <1>4. Loop(g)
    <2>1. \A s \in SUBSET DOMAIN rs :
            s # {} => F[<<g[s \ {Max(s)}], rs[Max(s)]>>] = Op(g[s \ {Max(s)}], rs[Max(s)])
      BY <1>3
    <2> HIDE DEF F
    <2> QED BY <1>3, <2>1 DEF Folded
  <1> DEFINE f == CHOOSE h : Loop(h)
  <1>5. Loop(f)
    BY <1>4, Zenon
  <1>6. GetDefaultRoute(rs) = f[DOMAIN rs].route
    BY Zenon DEF GetDefaultRoute, FoldLeft, MapThenFoldSet, Op, NoDefault, ConsiderDefault
  <1> HIDE DEF f
  <1>7. f[1..0] = NoDefault
    BY <1>5
  <1>8. \A k \in 1..Len(rs) : f[1..k] = Op(f[1..(k - 1)], rs[k])
    <2> SUFFICES ASSUME NEW k \in 1..Len(rs) PROVE f[1..k] = Op(f[1..(k - 1)], rs[k])
      OBVIOUS
    <2>1. /\ 1..k \in SUBSET (1..Len(rs)) /\ 1..k # {}
          /\ Max(1..k) = k /\ (1..k) \ {Max(1..k)} = 1..(k - 1)
      BY <1>0, Prefix
    <2> DEFINE s == 1..k
    <2> HIDE DEF s
    <2>2. s \in SUBSET DOMAIN rs /\ s # {} /\ Max(s) = k /\ s \ {Max(s)} = 1..(k - 1)
      BY <1>0, <2>1 DEF s
    <2>3. f[s] = Op(f[s \ {Max(s)}], rs[Max(s)])
      BY <1>5, <2>2, Zenon
    <2> QED BY <2>2, <2>3 DEF s
  <1> DEFINE it == [k \in 0..Len(rs) |-> f[1..k]]
  <1>9. it[0] = NoDefault
    BY <1>0, <1>7
  <1>10. \A k \in 1..Len(rs) : it[k] = ConsiderDefault(it[k - 1], rs[k])
    BY <1>0, <1>8 DEF Op
  <1>11. GetDefaultRoute(rs) = it[Len(rs)].route
    BY <1>0, <1>6
  <1> HIDE DEF it
  <1> QED BY <1>9, <1>10, <1>11

\* The routes among the first k that fit the destination and the device.
Fits(rs, dest, oif, k) ==
  {n \in 1..k : IsMatch(rs[n].len, dest, rs[n].dest)
                  /\ oif \in {NoDevice, rs[n].interface}}

\* Route n beats route m: the first host route, otherwise the longest mask,
\* then the smallest metric, then the latest.
Beats(rs, n, m) ==
  \/ rs[n].len > rs[m].len
  \/ /\ rs[n].len = rs[m].len /\ rs[n].len = AddrBits
     /\ n <= m
  \/ /\ rs[n].len = rs[m].len /\ rs[n].len # AddrBits
     /\ \/ rs[n].metric < rs[m].metric
        \/ rs[n].metric = rs[m].metric /\ n >= m

\* best is the route of fitting that beats the others.
IsBest(rs, fitting, best) ==
  IF fitting = {} THEN best = Nothing
  ELSE \E n \in fitting :
         /\ best.route = rs[n]
         /\ best.longest = rs[n].len /\ best.shortest = rs[n].metric
         /\ best.done <=> rs[n].len = AddrBits
         /\ \A m \in fitting : Beats(rs, n, m)

\* The mask lengths and metrics of a table.
LEMMA RouteNumbers ==
  ASSUME NEW rs \in Seq(Routes)
  PROVE  \A n \in 1..Len(rs) :
           rs[n].len \in 0..AddrBits /\ rs[n].metric \in 0..MaxMetric
  <1>1. \A n \in 1..Len(rs) : rs[n] \in Routes
    OBVIOUS
  <1> QED BY <1>1 DEF Routes, Route

\* One turn of the loop keeps the best of the routes seen.
LEMMA ConsiderKeepsBest ==
  ASSUME NEW rs \in Seq(Routes), NEW dest, NEW oif, NEW k \in 1..Len(rs),
         NEW best, IsBest(rs, Fits(rs, dest, oif, k - 1), best)
  PROVE  IsBest(rs, Fits(rs, dest, oif, k), Consider(best, rs[k], dest, oif))
  <1> DEFINE old == Fits(rs, dest, oif, k - 1)
             fitting == Fits(rs, dest, oif, k)
             next == Consider(best, rs[k], dest, oif)
             r == rs[k]
             fits == IsMatch(r.len, dest, r.dest) /\ oif \in {NoDevice, r.interface}
             new == [route |-> r, longest |-> r.len, shortest |-> r.metric,
                     done |-> r.len = AddrBits]
  <1> SUFFICES IsBest(rs, fitting, next)
    OBVIOUS
  <1>1. /\ Len(rs) \in Nat /\ AddrBits \in Nat /\ MaxMetric \in Nat
        /\ \A n \in 1..Len(rs) :
             rs[n].len \in 0..AddrBits /\ rs[n].metric \in 0..MaxMetric
    BY RoutingAssumption, RouteNumbers
  <1>2. fitting = IF fits THEN old \cup {k} ELSE old
    BY <1>1 DEF Fits
  <1>3. old \subseteq 1..(k - 1)
    BY DEF Fits
  <1>4. IsBest(rs, old, best)
    OBVIOUS
  <1>5. CASE ~fits
    <2>1. next = best
      <3>1. Skipped(best, r, dest, oif)
        BY <1>5 DEF Skipped
      <3> QED BY <3>1, Zenon DEF Consider
    <2> HIDE DEF next, fitting, old
    <2> QED BY <1>2, <1>4, <1>5, <2>1
  <1>6. CASE fits /\ old = {}
    <2>1. best = Nothing
      BY <1>4, <1>6 DEF IsBest
    <2>2. /\ best.longest = 0 /\ best.shortest = MaxMetric /\ best.done = FALSE
      BY <2>1 DEF Nothing
    <2>3. ~Skipped(best, r, dest, oif)
      BY <1>1, <1>6, <2>2 DEF Skipped
    <2>4. next = new
      <3>1. ~(r.metric > (IF r.len > best.longest THEN MaxMetric ELSE best.shortest))
        BY <1>1, <2>2
      <3> QED BY <2>3, <3>1, Zenon DEF Consider
    <2>5. fitting = {k}
      BY <1>2, <1>6
    <2>6. /\ next.route = r /\ next.longest = r.len /\ next.shortest = r.metric
          /\ next.done <=> r.len = AddrBits
      <3> HIDE DEF next
      <3> QED BY <2>4
    <2>7. Beats(rs, k, k)
      BY <1>1 DEF Beats
    <2> HIDE DEF next, fitting, old, new
    <2> QED BY <2>5, <2>6, <2>7 DEF IsBest
  <1>7. CASE fits /\ old # {}
    <2>1. PICK n \in old : /\ best.route = rs[n]
                           /\ best.longest = rs[n].len /\ best.shortest = rs[n].metric
                           /\ best.done <=> rs[n].len = AddrBits
                           /\ \A m \in old : Beats(rs, n, m)
      BY <1>4, <1>7 DEF IsBest
    <2>2. /\ n \in 1..Len(rs) /\ n < k /\ n \in Nat /\ k \in Nat
          /\ rs[n].len \in 0..AddrBits /\ rs[n].metric \in 0..MaxMetric
          /\ r.len \in 0..AddrBits /\ r.metric \in 0..MaxMetric
      BY <1>1, <1>3
    <2>3. fitting = old \cup {k} /\ k \notin old
      BY <1>2, <1>3, <1>7
    <2>4. /\ ~Beats(rs, n, k)
          => \A m \in old : Beats(rs, k, m)
      <3> SUFFICES ASSUME ~Beats(rs, n, k), NEW m \in old PROVE Beats(rs, k, m)
        OBVIOUS
      <3>1. m \in 1..Len(rs) /\ m < k /\ m \in Nat /\ rs[m].len \in 0..AddrBits
            /\ rs[m].metric \in 0..MaxMetric
        BY <1>1, <1>3
      <3>2. Beats(rs, n, m)
        BY <2>1
      <3> QED BY <1>1, <2>2, <3>1, <3>2 DEF Beats
    <2>5. Beats(rs, k, k)
      BY <2>2, <1>1 DEF Beats
    <2>6. CASE Beats(rs, n, k)
      <3>1. /\ next.route = rs[n] /\ next.longest = rs[n].len
            /\ next.shortest = rs[n].metric
            /\ next.done <=> rs[n].len = AddrBits
        <4>1. CASE Skipped(best, r, dest, oif)
          <5>1. next = best
            BY <4>1, Zenon DEF Consider
          <5> HIDE DEF next
          <5> QED BY <2>1, <5>1
        <4>2. CASE ~Skipped(best, r, dest, oif)
          <5>1. r.len = rs[n].len /\ ~best.done
            BY <1>1, <2>1, <2>2, <2>6, <4>2 DEF Skipped, Beats
          <5>2. r.metric > rs[n].metric
            BY <1>1, <2>1, <2>2, <2>6, <5>1 DEF Beats
          <5>3. next = [best EXCEPT !.longest = r.len, !.shortest = best.shortest]
            <6>1. ~(r.len > best.longest) /\ r.metric > best.shortest
              BY <2>1, <2>2, <5>1, <5>2
            <6> QED BY <4>2, <6>1, Zenon DEF Consider
          <5> HIDE DEF next
          <5> QED BY <2>1, <5>1, <5>3
        <4> QED BY <4>1, <4>2
      <3> HIDE DEF next, fitting, old
      <3> QED BY <2>1, <2>3, <2>6, <3>1 DEF IsBest
    <2>7. CASE ~Beats(rs, n, k)
      <3>1. ~Skipped(best, r, dest, oif)
        BY <1>1, <1>7, <2>1, <2>2, <2>7 DEF Skipped, Beats
      <3>2. ~(r.metric > (IF r.len > best.longest THEN MaxMetric ELSE best.shortest))
        BY <1>1, <2>1, <2>2, <2>7 DEF Beats
      <3>3. next = new
        BY <3>1, <3>2, Zenon DEF Consider
      <3>4. /\ next.route = r /\ next.longest = r.len /\ next.shortest = r.metric
            /\ next.done <=> r.len = AddrBits
        <4> HIDE DEF next
        <4> QED BY <3>3
      <3> HIDE DEF next, fitting, old, new
      <3> QED BY <2>3, <2>4, <2>5, <2>7, <3>4 DEF IsBest
    <2> QED BY <2>6, <2>7
  <1> QED BY <1>5, <1>6, <1>7

\* The default routes among the first k.
Defaults(rs, k) == {n \in 1..k : rs[n].len = 0}

\* best is the default route of the smallest metric, the latest of them.
IsBestDefault(rs, defaults, best) ==
  IF defaults = {} THEN best = NoDefault
  ELSE \E n \in defaults :
         /\ best.route = rs[n] /\ best.shortest = rs[n].metric
         /\ \A m \in defaults : \/ rs[n].metric < rs[m].metric
                                \/ rs[n].metric = rs[m].metric /\ n >= m

\* One turn of the loop keeps the best of the default routes seen.
LEMMA DefaultKeepsBest ==
  ASSUME NEW rs \in Seq(Routes), NEW k \in 1..Len(rs),
         NEW best, IsBestDefault(rs, Defaults(rs, k - 1), best)
  PROVE  IsBestDefault(rs, Defaults(rs, k), ConsiderDefault(best, rs[k]))
  <1> DEFINE old == Defaults(rs, k - 1)
             defaults == Defaults(rs, k)
             next == ConsiderDefault(best, rs[k])
             r == rs[k]
  <1> SUFFICES IsBestDefault(rs, defaults, next)
    OBVIOUS
  <1>1. /\ Len(rs) \in Nat /\ MaxMetric \in Nat
        /\ \A n \in 1..Len(rs) : rs[n].metric \in 0..MaxMetric
    BY RoutingAssumption, RouteNumbers
  <1>2. defaults = IF r.len = 0 THEN old \cup {k} ELSE old
    BY <1>1 DEF Defaults
  <1>3. old \subseteq 1..(k - 1)
    BY DEF Defaults
  <1>4. IsBestDefault(rs, old, best)
    OBVIOUS
  <1>5. CASE r.len # 0
    <2>1. next = best
      BY <1>5, Zenon DEF ConsiderDefault
    <2> HIDE DEF next, defaults, old
    <2> QED BY <1>2, <1>4, <1>5, <2>1
  <1>6. ASSUME r.len = 0, r.metric <= best.shortest,
               \A m \in old : rs[k].metric <= rs[m].metric
        PROVE  IsBestDefault(rs, defaults, next)
    <2>1. best.shortest \in Int
      <3>1. CASE old = {}
        BY <1>1, <1>4, <3>1 DEF IsBestDefault, NoDefault
      <3>2. CASE old # {}
        BY <1>1, <1>3, <1>4, <3>2 DEF IsBestDefault
      <3> QED BY <3>1, <3>2
    <2>2. ~(r.metric > best.shortest)
      BY <1>1, <1>6, <2>1
    <2>3. next = [route |-> r, shortest |-> r.metric]
      BY <1>6, <2>2, Zenon DEF ConsiderDefault
    <2>4. next.route = r /\ next.shortest = r.metric
      <3> HIDE DEF next
      <3> QED BY <2>3
    <2>5. defaults = old \cup {k}
      BY <1>2, <1>6
    <2>6. \A m \in defaults : \/ rs[k].metric < rs[m].metric
                              \/ rs[k].metric = rs[m].metric /\ k >= m
      <3> HIDE DEF next, defaults
      <3> QED BY <1>1, <1>3, <1>6, <2>5
    <2> HIDE DEF next, defaults, old
    <2> QED BY <2>4, <2>5, <2>6 DEF IsBestDefault
  <1>7. CASE r.len = 0 /\ old = {}
    <2>1. best.shortest = MaxMetric
      BY <1>4, <1>7 DEF IsBestDefault, NoDefault
    <2>2. r.metric <= best.shortest
      BY <1>1, <2>1
    <2> HIDE DEF next, defaults, old
    <2> QED BY <1>6, <1>7, <2>2
  <1>8. CASE r.len = 0 /\ old # {}
    <2>1. PICK n \in old :
            /\ best.route = rs[n] /\ best.shortest = rs[n].metric
            /\ \A m \in old : \/ rs[n].metric < rs[m].metric
                              \/ rs[n].metric = rs[m].metric /\ n >= m
      BY <1>4, <1>8 DEF IsBestDefault
    <2>2. /\ n \in 1..Len(rs) /\ rs[n].metric \in Int /\ r.metric \in Int
          /\ \A m \in old : rs[m].metric \in Int
      BY <1>1, <1>3
    <2>3. CASE r.metric <= rs[n].metric
      <3>1. \A m \in old : rs[k].metric <= rs[m].metric
        BY <2>1, <2>2, <2>3
      <3> HIDE DEF next, defaults, old
      <3> QED BY <1>6, <1>8, <2>1, <2>3, <3>1
    <2>4. CASE r.metric > rs[n].metric
      <3>1. next = best
        BY <2>1, <2>4, Zenon DEF ConsiderDefault
      <3>2. defaults = old \cup {k}
        BY <1>2, <1>8
      <3> HIDE DEF next, defaults, old
      <3> QED BY <2>1, <2>4, <3>1, <3>2 DEF IsBestDefault
    <2> QED BY <2>2, <2>3, <2>4
  <1> QED BY <1>5, <1>7, <1>8

\* What the loop of LookupStatic finds.
LEMMA LookupIsBest ==
  ASSUME NEW rs \in Seq(Routes), NEW dest, NEW oif, dest \notin LocalMulticast
  PROVE  \E best : /\ IsBest(rs, Fits(rs, dest, oif, Len(rs)), best)
                   /\ LookupStatic(rs, dest, oif) = best.route
  <1>1. PICK it : /\ it[0] = Nothing
                  /\ \A k \in 1..Len(rs) : it[k] = Consider(it[k - 1], rs[k], dest, oif)
                  /\ LookupStatic(rs, dest, oif) = it[Len(rs)].route
    BY LookupRuns
  <1> DEFINE N == {k \in Nat : k <= Len(rs) => IsBest(rs, Fits(rs, dest, oif, k), it[k])}
  <1>2. 0 \in N
    BY <1>1 DEF Fits, IsBest
  <1>3. ASSUME NEW k \in N PROVE k + 1 \in N
    <2> SUFFICES ASSUME k + 1 <= Len(rs)
                 PROVE  IsBest(rs, Fits(rs, dest, oif, k + 1), it[k + 1])
      OBVIOUS
    <2>1. /\ k \in Nat /\ Len(rs) \in Nat /\ k + 1 \in 1..Len(rs) /\ (k + 1) - 1 = k
          /\ k <= Len(rs)
      OBVIOUS
    <2>2. IsBest(rs, Fits(rs, dest, oif, (k + 1) - 1), it[k])
      BY <2>1
    <2>3. it[k + 1] = Consider(it[k], rs[k + 1], dest, oif)
      BY <1>1, <2>1
    <2>4. IsBest(rs, Fits(rs, dest, oif, k + 1), Consider(it[k], rs[k + 1], dest, oif))
      BY <2>1, <2>2, ConsiderKeepsBest
    <2> QED BY <2>3, <2>4
  <1> HIDE DEF N
  <1>4. N \in SUBSET Nat
    BY DEF N
  <1>5. Len(rs) \in N
    BY <1>2, <1>3, <1>4, B!Upwards
  <1> QED BY <1>1, <1>5 DEF N

\* What the loop of GetDefaultRoute finds.
LEMMA DefaultIsBest ==
  ASSUME NEW rs \in Seq(Routes)
  PROVE  \E best : /\ IsBestDefault(rs, Defaults(rs, Len(rs)), best)
                   /\ GetDefaultRoute(rs) = best.route
  <1>1. PICK it : /\ it[0] = NoDefault
                  /\ \A k \in 1..Len(rs) : it[k] = ConsiderDefault(it[k - 1], rs[k])
                  /\ GetDefaultRoute(rs) = it[Len(rs)].route
    BY DefaultRuns
  <1> DEFINE N == {k \in Nat : k <= Len(rs) => IsBestDefault(rs, Defaults(rs, k), it[k])}
  <1>2. 0 \in N
    BY <1>1 DEF Defaults, IsBestDefault
  <1>3. ASSUME NEW k \in N PROVE k + 1 \in N
    <2> SUFFICES ASSUME k + 1 <= Len(rs)
                 PROVE  IsBestDefault(rs, Defaults(rs, k + 1), it[k + 1])
      OBVIOUS
    <2>1. /\ k \in Nat /\ Len(rs) \in Nat /\ k + 1 \in 1..Len(rs) /\ (k + 1) - 1 = k
          /\ k <= Len(rs)
      OBVIOUS
    <2>2. IsBestDefault(rs, Defaults(rs, (k + 1) - 1), it[k])
      BY <2>1
    <2>3. it[k + 1] = ConsiderDefault(it[k], rs[k + 1])
      BY <1>1, <2>1
    <2>4. IsBestDefault(rs, Defaults(rs, k + 1), ConsiderDefault(it[k], rs[k + 1]))
      BY <2>1, <2>2, DefaultKeepsBest
    <2> QED BY <2>3, <2>4
  <1> HIDE DEF N
  <1>4. N \in SUBSET Nat
    BY DEF N
  <1>5. Len(rs) \in N
    BY <1>2, <1>3, <1>4, B!Upwards
  <1> QED BY <1>1, <1>5 DEF N

-----------------------------------------------------------------------------
(* Masks.                                                                  *)

Doubles(D, p) == p = [n \in D |-> IF n = 0 THEN 1 ELSE 2 * p[n - 1]]

\* The recursion that defines Pow2 has a solution.
LEMMA PowersExist ==
  ASSUME NEW m \in Nat
  PROVE  \E p : Doubles(0..m, p)
  <1> DEFINE N == {k \in Nat : \E p : Doubles(0..k, p)}
  <1>1. 0 \in N
    <2> DEFINE p == [n \in 0..0 |-> 1]
    <2>1. Doubles(0..0, p)
      BY DEF Doubles
    <2> HIDE DEF p
    <2> QED BY <2>1
  <1>2. ASSUME NEW k \in N PROVE k + 1 \in N
    <2>1. PICK p : Doubles(0..k, p)
      OBVIOUS
    <2>2. k \in Nat
      OBVIOUS
    <2> DEFINE q == [n \in 0..(k + 1) |-> IF n = 0 THEN 1 ELSE 2 * p[n - 1]]
    <2>3. \A n \in 0..k : p[n] = IF n = 0 THEN 1 ELSE 2 * p[n - 1]
      BY <2>1, Zenon DEF Doubles
    <2>4. \A n \in 0..k : q[n] = p[n]
      BY <2>2, <2>3
    <2>5. \A n \in 0..(k + 1) : n # 0 => n - 1 \in 0..k /\ q[n - 1] = p[n - 1]
      <3> HIDE DEF q
      <3> QED BY <2>2, <2>4
    <2>6. q = [n \in 0..(k + 1) |-> IF n = 0 THEN 1 ELSE 2 * q[n - 1]]
      BY <2>5
    <2> HIDE DEF q
    <2>7. Doubles(0..(k + 1), q)
      BY <2>6 DEF Doubles
    <2> QED BY <2>2, <2>7
  <1> HIDE DEF N
  <1>3. N \in SUBSET Nat
    BY DEF N
  <1>4. m \in N
    BY <1>1, <1>2, <1>3, B!Upwards
  <1> QED BY <1>4 DEF N

\* Powers of two are positive and grow.
LEMMA Powers ==
  \A k \in 0..AddrBits : /\ Pow2[k] \in Nat \ {0}
                         /\ Pow2[k] <= Pow2[AddrBits]
  <1>0. AddrBits \in Nat
    BY RoutingAssumption
  <1>1. Doubles(0..AddrBits, Pow2)
    <2>1. \E p : Doubles(0..AddrBits, p)
      BY <1>0, PowersExist
    <2> QED BY <2>1, Zenon DEF Pow2, Doubles
  <1>2. Pow2[0] = 1
    BY <1>0, <1>1 DEF Doubles
  <1>3. \A k \in 1..AddrBits : Pow2[k] = 2 * Pow2[k - 1]
    <2> SUFFICES ASSUME NEW k \in 1..AddrBits PROVE Pow2[k] = 2 * Pow2[k - 1]
      OBVIOUS
    <2>1. k \in 0..AddrBits /\ k # 0
      BY <1>0
    <2> QED BY <1>1, <2>1, Zenon DEF Doubles
  <1> DEFINE N == {k \in Nat : k <= AddrBits => Pow2[k] \in Nat \ {0}}
  <1>4. \A k \in Nat : k \in N
    <2>1. 0 \in N
      BY <1>2
    <2>2. ASSUME NEW k \in N PROVE k + 1 \in N
      <3> SUFFICES ASSUME k + 1 <= AddrBits PROVE Pow2[k + 1] \in Nat \ {0}
        OBVIOUS
      <3>1. k \in Nat /\ k + 1 \in 1..AddrBits /\ (k + 1) - 1 = k /\ k <= AddrBits
        BY <1>0
      <3>2. Pow2[k] \in Nat \ {0} /\ Pow2[k + 1] = 2 * Pow2[k]
        BY <1>3, <3>1
      <3> QED BY <3>2
    <2> HIDE DEF N
    <2>3. N \in SUBSET Nat
      BY DEF N
    <2> QED BY <2>1, <2>2, <2>3, B!Upwards
  <1>5. \A k \in 0..AddrBits : Pow2[k] \in Nat \ {0}
    BY <1>0, <1>4
  <1> DEFINE M == {j \in Nat : j <= AddrBits => Pow2[AddrBits - j] <= Pow2[AddrBits]}
  <1>6. \A j \in Nat : j \in M
    <2>1. 0 \in M
      BY <1>0, <1>5
    <2>2. ASSUME NEW j \in M PROVE j + 1 \in M
      <3> SUFFICES ASSUME j + 1 <= AddrBits
                   PROVE  Pow2[AddrBits - (j + 1)] <= Pow2[AddrBits]
        OBVIOUS
      <3> DEFINE k == AddrBits - j
      <3>1. /\ k \in 1..AddrBits /\ k - 1 \in 0..AddrBits
            /\ k - 1 = AddrBits - (j + 1) /\ AddrBits \in 0..AddrBits
        BY <1>0
      <3>2. Pow2[k] <= Pow2[AddrBits]
        BY <1>0
      <3> HIDE DEF k
      <3>3. /\ Pow2[k] = 2 * Pow2[k - 1]
            /\ Pow2[k - 1] \in Nat /\ Pow2[k] \in Nat /\ Pow2[AddrBits] \in Nat
        BY <1>3, <1>5, <3>1
      <3>4. Pow2[k - 1] <= Pow2[AddrBits]
        BY <3>2, <3>3
      <3> QED BY <3>1, <3>4
    <2> HIDE DEF M
    <2>3. M \in SUBSET Nat
      BY DEF M
    <2> QED BY <2>1, <2>2, <2>3, B!Upwards
  <1> SUFFICES ASSUME NEW k \in 0..AddrBits PROVE Pow2[k] <= Pow2[AddrBits]
    BY <1>5
  <1>7. AddrBits - k \in M /\ AddrBits - k <= AddrBits /\ AddrBits - (AddrBits - k) = k
    <2> HIDE DEF M
    <2> QED BY <1>0, <1>6
  <1> QED BY <1>7

\* A masked address is an address; the empty mask leaves nothing of it.
LEMMA Masks ==
  /\ AnyAddress \in Address /\ MulticastNet \in Address
  /\ \A a \in Address : \A len \in 0..AddrBits : CombineMask(a, len) \in Address
  /\ \A a \in Address : CombineMask(a, 0) = 0
  <1>0. /\ AddrBits \in Nat /\ MulticastLen \in 1..AddrBits
        /\ Pow2[AddrBits] \in Nat \ {0}
    BY RoutingAssumption, Powers
  <1>1. ASSUME NEW a \in Nat, NEW m \in Nat \ {0} PROVE a % m \in 0..a
    OBVIOUS
  <1>2. AnyAddress \in Address
    BY <1>0 DEF AnyAddress, Address
  <1>3. MulticastNet \in Address
    <2>1. AddrBits - MulticastLen \in 0..AddrBits
      BY <1>0
    <2>2. /\ Pow2[AddrBits - MulticastLen] \in Nat \ {0}
          /\ Pow2[AddrBits - MulticastLen] <= Pow2[AddrBits]
      BY <2>1, Powers
    <2> QED BY <1>0, <2>2 DEF MulticastNet, Address
  <1>4. ASSUME NEW a \in Address, NEW len \in 0..AddrBits
        PROVE  CombineMask(a, len) \in Address
    <2>1. AddrBits - len \in 0..AddrBits
      BY <1>0
    <2> DEFINE m == Pow2[AddrBits - len]
    <2>2. m \in Nat \ {0}
      BY <2>1, Powers
    <2>3. a \in Nat /\ a <= Pow2[AddrBits] - 1
      BY <1>0 DEF Address
    <2>4. CombineMask(a, len) = a - (a % m)
      BY DEF CombineMask
    <2> HIDE DEF m
    <2>5. a % m \in 0..a
      BY <1>1, <2>2, <2>3
    <2> QED BY <1>0, <2>3, <2>4, <2>5 DEF Address
  <1>5. ASSUME NEW a \in Address PROVE CombineMask(a, 0) = 0
    <2>1. AddrBits - 0 = AddrBits
      BY <1>0
    <2>2. a % Pow2[AddrBits] = a
      BY <1>0 DEF Address
    <2>3. a \in Nat
      BY <1>0 DEF Address
    <2> QED BY <2>1, <2>2, <2>3 DEF CombineMask
  <1> QED BY <1>2, <1>3, <1>4, <1>5

\* Every route to the network 0.0.0.0/0 fits.
LEMMA DefaultsFit ==
  ASSUME NEW rs \in Seq(Routes), NEW dest \in Address
  PROVE  Defaults(rs, Len(rs)) \subseteq Fits(rs, dest, NoDevice, Len(rs))
  <1>1. \A n \in 1..Len(rs) : rs[n] \in Routes
    OBVIOUS
  <1>2. \A n \in 1..Len(rs) : rs[n].dest \in Address
    BY <1>1 DEF Routes, Route
  <1>3. \A n \in 1..Len(rs) : IsMatch(0, dest, rs[n].dest)
    BY <1>2, Masks DEF IsMatch
  <1> QED BY <1>3 DEF Defaults, Fits

\* Over any table the loops find what they should.
LEMMA TablesAreSearched ==
  ASSUME m_networkRoutes \in Seq(Routes)
  PROVE  LookupFindsBest
  <1> DEFINE rs == m_networkRoutes
  <1> SUFFICES ASSUME NEW dest \in Unicast, NEW oif \in Outputs
               PROVE
      LET found == LookupStatic(m_networkRoutes, dest, oif)
      IN /\ Matching(dest, oif) = {} => found = NoRoute
         /\ Matching(dest, oif) # {} =>
              \E n \in Longest(Matching(dest, oif)) :
                /\ found = m_networkRoutes[n]
                /\ found.len # AddrBits => n \in Cheapest(Longest(Matching(dest, oif)))
         /\ oif = NoDevice /\ (\A n \in Matching(dest, oif) : m_networkRoutes[n].len = 0)
              => found = GetDefaultRoute(m_networkRoutes)
    BY Zenon DEF LookupFindsBest
  <1> USE DEF Unicast, Outputs
  <1> DEFINE matching == Matching(dest, oif)
             longest == Longest(Matching(dest, oif))
             best == Cheapest(Longest(Matching(dest, oif)))
             found == LookupStatic(rs, dest, oif)
  <1>a. /\ matching = {n \in DOMAIN rs : IsMatch(rs[n].len, dest, rs[n].dest)
                                           /\ oif \in {NoDevice, rs[n].interface}}
        /\ longest = {n \in matching : \A m \in matching : rs[m].len <= rs[n].len}
        /\ best = {n \in longest : \A m \in longest : rs[n].metric <= rs[m].metric}
    BY Zenon DEF Matching, Longest, Cheapest
  <1> HIDE DEF matching, longest, best
  <1>0. /\ Len(rs) \in Nat /\ DOMAIN rs = 1..Len(rs) /\ AddrBits \in Nat \ {0}
        /\ MaxMetric \in Nat
        /\ \A n \in 1..Len(rs) :
             rs[n].len \in 0..AddrBits /\ rs[n].metric \in 0..MaxMetric
    BY RoutingAssumption, RouteNumbers
  <1>1. PICK b : IsBest(rs, Fits(rs, dest, oif, Len(rs)), b) /\ found = b.route
    BY LookupIsBest
  <1>2. Fits(rs, dest, oif, Len(rs)) = matching /\ matching \subseteq 1..Len(rs)
    BY <1>0, <1>a DEF Fits
  <1>3. IsBest(rs, matching, b)
    BY <1>1, <1>2
  <1>4. PICK d : IsBestDefault(rs, Defaults(rs, Len(rs)), d) /\ GetDefaultRoute(rs) = d.route
    BY DefaultIsBest
  <1> HIDE DEF rs, found
  <1>5. CASE matching = {}
    <2>1. found = NoRoute
      BY <1>1, <1>3, <1>5 DEF IsBest, Nothing
    <2>2. ASSUME oif = NoDevice PROVE found = GetDefaultRoute(rs)
      <3>1. Defaults(rs, Len(rs)) = {}
        BY <1>2, <1>5, <2>2, DefaultsFit DEF rs
      <3>2. d = NoDefault
        BY <1>4, <3>1 DEF IsBestDefault
      <3> QED BY <1>4, <2>1, <3>2 DEF NoDefault
    <2> QED BY <1>5, <2>1, <2>2, Zenon DEF matching, found, rs
  <1>6. CASE matching # {}
    <2>1. PICK n \in matching : b.route = rs[n] /\ \A m \in matching : Beats(rs, n, m)
      BY <1>3, <1>6 DEF IsBest
    <2>2. \A m \in matching : /\ m \in Nat /\ rs[m].len \in 0..AddrBits
                              /\ rs[m].metric \in 0..MaxMetric
      BY <1>0, <1>2
    <2>3. n \in longest
      BY <1>0, <1>a, <2>1, <2>2 DEF Beats
    <2>4. \A m \in longest : m \in matching /\ rs[m].len = rs[n].len
      BY <1>a, <2>1, <2>2, <2>3
    <2>5. rs[n].len # AddrBits => n \in best
      BY <1>0, <1>a, <2>1, <2>2, <2>3, <2>4 DEF Beats
    <2>7. found = rs[n]
      BY <1>1, <2>1
    <2>9. ASSUME oif = NoDevice, \A m \in matching : rs[m].len = 0
          PROVE  found = GetDefaultRoute(rs)
      <3>1. Defaults(rs, Len(rs)) = matching
        <4>1. Defaults(rs, Len(rs)) \subseteq matching
          BY <1>2, <2>9, DefaultsFit DEF rs
        <4>2. matching \subseteq Defaults(rs, Len(rs))
          BY <1>2, <2>9 DEF Defaults
        <4> QED BY <4>1, <4>2
      <3>2. PICK e \in matching :
              /\ d.route = rs[e]
              /\ \A m \in matching : \/ rs[e].metric < rs[m].metric
                                     \/ rs[e].metric = rs[m].metric /\ e >= m
        BY <1>4, <1>6, <3>1 DEF IsBestDefault
      <3>3. e = n
        <4>1. Beats(rs, n, e) /\ rs[n].len = 0 /\ rs[e].len = 0
          BY <2>1, <2>9
        <4>2. \/ rs[n].metric < rs[e].metric
              \/ rs[n].metric = rs[e].metric /\ n >= e
          BY <1>0, <4>1 DEF Beats
        <4>3. \/ rs[e].metric < rs[n].metric
              \/ rs[e].metric = rs[n].metric /\ e >= n
          BY <3>2
        <4>4. n \in Nat /\ e \in Nat /\ rs[n].metric \in Int /\ rs[e].metric \in Int
          BY <2>2
        <4> QED BY <4>2, <4>3, <4>4
      <3> QED BY <1>4, <2>7, <3>2, <3>3
    <2>11. /\ matching = {} => found = NoRoute
           /\ oif = NoDevice /\ (\A m \in matching : rs[m].len = 0)
                => found = GetDefaultRoute(rs)
      BY <1>6, <2>9
    <2>12. Matching(dest, oif) # {}
      BY <1>6, Zenon DEF matching
    <2>13. \E m \in Longest(Matching(dest, oif)) :
             /\ LookupStatic(m_networkRoutes, dest, oif) = m_networkRoutes[m]
             /\ LookupStatic(m_networkRoutes, dest, oif).len # AddrBits
                  => m \in Cheapest(Longest(Matching(dest, oif)))
      <3>1. n \in Longest(Matching(dest, oif))
        BY <2>3 DEF longest
      <3>2. LookupStatic(m_networkRoutes, dest, oif) = m_networkRoutes[n]
        BY <2>7 DEF found, rs
      <3>3. m_networkRoutes[n].len # AddrBits => n \in Cheapest(Longest(Matching(dest, oif)))
        BY <2>5 DEF best, rs
      <3> QED BY <3>1, <3>2, <3>3
    <2>14. oif = NoDevice /\ (\A m \in Matching(dest, oif) : m_networkRoutes[m].len = 0)
             => LookupStatic(m_networkRoutes, dest, oif) = GetDefaultRoute(m_networkRoutes)
      BY <2>11, Zenon DEF matching, found, rs
    <2> QED BY <2>12, <2>13, <2>14, Zenon
  <1> QED BY <1>5, <1>6

-----------------------------------------------------------------------------
(* The loops that change the table.                                        *)

Addresses == [local : Address, len : 0..AddrBits]

\* Appending adds the element and nothing else.
LEMMA AppendRange ==
  ASSUME NEW S, NEW s \in Seq(S), NEW e \in S
  PROVE  /\ Append(s, e) \in Seq(S)
         /\ Range(Append(s, e)) = Range(s) \cup {e}
  <1> DEFINE t == Append(s, e)
  <1>1. /\ t \in Seq(S) /\ Len(t) = Len(s) + 1 /\ Len(s) \in Nat
        /\ t[Len(t)] = e /\ \A k \in 1..Len(s) : t[k] = s[k]
        /\ DOMAIN t = 1..Len(t) /\ DOMAIN s = 1..Len(s)
    OBVIOUS
  <1> HIDE DEF t
  <1>2. Range(t) \subseteq Range(s) \cup {e}
    <2> SUFFICES ASSUME NEW k \in DOMAIN t PROVE t[k] \in Range(s) \cup {e}
      BY DEF Range
    <2>1. CASE k = Len(t)
      BY <1>1, <2>1
    <2>2. CASE k # Len(t)
      <3>1. k \in 1..Len(s)
        BY <1>1, <2>2
      <3> QED BY <1>1, <3>1 DEF Range
    <2> QED BY <2>1, <2>2
  <1>3. Range(s) \subseteq Range(t)
    <2> SUFFICES ASSUME NEW k \in DOMAIN s PROVE s[k] \in Range(t)
      BY DEF Range
    <2>1. k \in DOMAIN t /\ t[k] = s[k]
      BY <1>1
    <2> QED BY <2>1 DEF Range
  <1>4. e \in Range(t)
    <2>1. Len(t) \in DOMAIN t
      BY <1>1
    <2> QED BY <1>1, <2>1 DEF Range
  <1> QED BY <1>1, <1>2, <1>3, <1>4 DEF t

\* The route to the network of an address is a route of the table.
LEMMA ConnectedRouteTyped ==
  ASSUME NEW i \in Interfaces, NEW a \in Addresses
  PROVE  ConnectedRoute(i, a) \in Routes
  <1>1. a.local \in Address /\ a.len \in 0..AddrBits
    BY DEF Addresses
  <1>2. CombineMask(a.local, a.len) \in Address /\ AnyAddress \in Address
    BY <1>1, Masks
  <1>3. 0 \in 0..MaxMetric
    BY RoutingAssumption
  <1> QED BY <1>1, <1>2, <1>3 DEF ConnectedRoute, NetworkRoute, Routes, Route

\* Adding a route leaves exactly it behind, besides what was there.
LEMMA AddRange ==
  ASSUME NEW rs \in Seq(Routes), NEW r \in Routes
  PROVE  /\ AddNetworkRouteTo(rs, r) \in Seq(Routes)
         /\ Range(AddNetworkRouteTo(rs, r)) = Range(rs) \cup {r}
  BY AppendRange DEF AddNetworkRouteTo, LookupRoute

\* One turn of the loops of EraseRoutes and NotifyInterfaceUp, and of SetIpv4.
KeepUnless(rs, r, gone) == IF r \in gone THEN rs ELSE Append(rs, r)
AddConnected(rs, i, a) ==
  IF a.len = AddrBits THEN rs ELSE AddNetworkRouteTo(rs, ConnectedRoute(i, a))
NotifyUpOrDown(rs, i) ==
  IF i \in up THEN NotifyInterfaceUp(rs, i, addrs[i])
  ELSE NotifyInterfaceDown(rs, i)

\* EraseRoutes, one table per turn.
LEMMA EraseRuns ==
  ASSUME NEW routes \in Seq(Routes), NEW gone
  PROVE  \E it : /\ it[0] = <<>>
                 /\ \A k \in 1..Len(routes) : it[k] = KeepUnless(it[k - 1], routes[k], gone)
                 /\ EraseRoutes(routes, gone) = it[Len(routes)]
  <1> DEFINE Op(rs, x) == KeepUnless(rs, x, gone)
             Loop(g) == g = [s \in SUBSET DOMAIN routes |->
                               IF s = {} THEN <<>>
                               ELSE Op(g[s \ {Max(s)}], routes[Max(s)])]
             F == [p \in Seq(Routes) \X Routes |-> Op(p[1], p[2])]
  <1>0. Len(routes) \in Nat /\ DOMAIN routes = 1..Len(routes)
    OBVIOUS
  <1>1. \A rs \in Seq(Routes), x \in Routes : Op(rs, x) \in Seq(Routes)
    BY AppendRange DEF KeepUnless
  <1> HIDE DEF Op
  <1>2. F \in [Seq(Routes) \X Routes -> Seq(Routes)]
    BY <1>1
  <1>3. PICK g : /\ Folded(F, <<>>, routes, SUBSET DOMAIN routes, g)
                 /\ \A s \in SUBSET DOMAIN routes :
                      g[s] \in Seq(Routes) /\ (s # {} => Max(s) \in DOMAIN routes)
    <2>1. <<>> \in Seq(Routes) /\ routes \in Seq(Routes)
      OBVIOUS
    <2> HIDE DEF F
    <2> QED BY <1>2, <2>1, FoldRuns, Zenon
  <1>4. Loop(g)
    <2>1. \A s \in SUBSET DOMAIN routes :
            s # {} => F[<<g[s \ {Max(s)}], routes[Max(s)]>>]
                        = Op(g[s \ {Max(s)}], routes[Max(s)])
      BY <1>3
    <2> HIDE DEF F
    <2> QED BY <1>3, <2>1 DEF Folded
  <1> DEFINE f == CHOOSE h : Loop(h)
  <1>5. Loop(f)
    BY <1>4, Zenon
  <1>6. EraseRoutes(routes, gone) = f[DOMAIN routes]
    BY Zenon DEF EraseRoutes, KeepUnless, FoldLeft, MapThenFoldSet, Op
  <1> HIDE DEF f
  <1>7. f[1..0] = <<>>
    BY <1>5
  <1>8. \A k \in 1..Len(routes) : f[1..k] = Op(f[1..(k - 1)], routes[k])
    <2> SUFFICES ASSUME NEW k \in 1..Len(routes)
                 PROVE  f[1..k] = Op(f[1..(k - 1)], routes[k])
      OBVIOUS
    <2>1. /\ 1..k \in SUBSET (1..Len(routes)) /\ 1..k # {}
          /\ Max(1..k) = k /\ (1..k) \ {Max(1..k)} = 1..(k - 1)
      BY <1>0, Prefix
    <2> DEFINE s == 1..k
    <2> HIDE DEF s
    <2>2. s \in SUBSET DOMAIN routes /\ s # {} /\ Max(s) = k /\ s \ {Max(s)} = 1..(k - 1)
      BY <1>0, <2>1 DEF s
    <2>3. f[s] = Op(f[s \ {Max(s)}], routes[Max(s)])
      BY <1>5, <2>2, Zenon
    <2> QED BY <2>2, <2>3 DEF s
  <1> DEFINE it == [k \in 0..Len(routes) |-> f[1..k]]
  <1>9. it[0] = <<>>
    BY <1>0, <1>7
  <1>10. \A k \in 1..Len(routes) : it[k] = Op(it[k - 1], routes[k])
    BY <1>0, <1>8
  <1>11. EraseRoutes(routes, gone) = it[Len(routes)]
    BY <1>0, <1>6
  <1> HIDE DEF it
  <1> QED BY <1>9, <1>10, <1>11 DEF Op

\* NotifyInterfaceUp, one table per address.
LEMMA NotifyUpRuns ==
  ASSUME NEW routes \in Seq(Routes), NEW i \in Interfaces, NEW adds \in Seq(Addresses)
  PROVE  \E it : /\ it[0] = routes
                 /\ \A k \in 1..Len(adds) : it[k] = AddConnected(it[k - 1], i, adds[k])
                 /\ NotifyInterfaceUp(routes, i, adds) = it[Len(adds)]
  <1> DEFINE Op(rs, x) == AddConnected(rs, i, x)
             Loop(g) == g = [s \in SUBSET DOMAIN adds |->
                               IF s = {} THEN routes
                               ELSE Op(g[s \ {Max(s)}], adds[Max(s)])]
             F == [p \in Seq(Routes) \X Addresses |-> Op(p[1], p[2])]
  <1>0. Len(adds) \in Nat /\ DOMAIN adds = 1..Len(adds)
    OBVIOUS
  <1>1. \A rs \in Seq(Routes), x \in Addresses : Op(rs, x) \in Seq(Routes)
    BY ConnectedRouteTyped, AddRange DEF AddConnected
  <1> HIDE DEF Op
  <1>2. F \in [Seq(Routes) \X Addresses -> Seq(Routes)]
    BY <1>1
  <1>3. PICK g : /\ Folded(F, routes, adds, SUBSET DOMAIN adds, g)
                 /\ \A s \in SUBSET DOMAIN adds :
                      g[s] \in Seq(Routes) /\ (s # {} => Max(s) \in DOMAIN adds)
    <2>1. routes \in Seq(Routes) /\ adds \in Seq(Addresses)
      OBVIOUS
    <2> HIDE DEF F
    <2> QED BY <1>2, <2>1, FoldRuns, Zenon
  <1>4. Loop(g)
    <2>1. \A s \in SUBSET DOMAIN adds :
            s # {} => F[<<g[s \ {Max(s)}], adds[Max(s)]>>]
                        = Op(g[s \ {Max(s)}], adds[Max(s)])
      BY <1>3
    <2> HIDE DEF F
    <2> QED BY <1>3, <2>1 DEF Folded
  <1> DEFINE f == CHOOSE h : Loop(h)
  <1>5. Loop(f)
    BY <1>4, Zenon
  <1>6. NotifyInterfaceUp(routes, i, adds) = f[DOMAIN adds]
    BY Zenon DEF NotifyInterfaceUp, AddConnected, FoldLeft, MapThenFoldSet, Op
  <1> HIDE DEF f
  <1>7. f[1..0] = routes
    BY <1>5
  <1>8. \A k \in 1..Len(adds) : f[1..k] = Op(f[1..(k - 1)], adds[k])
    <2> SUFFICES ASSUME NEW k \in 1..Len(adds)
                 PROVE  f[1..k] = Op(f[1..(k - 1)], adds[k])
      OBVIOUS
    <2>1. /\ 1..k \in SUBSET (1..Len(adds)) /\ 1..k # {}
          /\ Max(1..k) = k /\ (1..k) \ {Max(1..k)} = 1..(k - 1)
      BY <1>0, Prefix
    <2> DEFINE s == 1..k
    <2> HIDE DEF s
    <2>2. s \in SUBSET DOMAIN adds /\ s # {} /\ Max(s) = k /\ s \ {Max(s)} = 1..(k - 1)
      BY <1>0, <2>1 DEF s
    <2>3. f[s] = Op(f[s \ {Max(s)}], adds[Max(s)])
      BY <1>5, <2>2, Zenon
    <2> QED BY <2>2, <2>3 DEF s
  <1> DEFINE it == [k \in 0..Len(adds) |-> f[1..k]]
  <1>9. it[0] = routes
    BY <1>0, <1>7
  <1>10. \A k \in 1..Len(adds) : it[k] = Op(it[k - 1], adds[k])
    BY <1>0, <1>8
  <1>11. NotifyInterfaceUp(routes, i, adds) = it[Len(adds)]
    BY <1>0, <1>6
  <1> HIDE DEF it
  <1> QED BY <1>9, <1>10, <1>11 DEF Op

\* EraseRoutes leaves the routes that are not in gone.
LEMMA EraseRange ==
  ASSUME NEW routes \in Seq(Routes), NEW gone
  PROVE  /\ EraseRoutes(routes, gone) \in Seq(Routes)
         /\ Range(EraseRoutes(routes, gone)) = Range(routes) \ gone
  <1>1. PICK it : /\ it[0] = <<>>
                  /\ \A k \in 1..Len(routes) : it[k] = KeepUnless(it[k - 1], routes[k], gone)
                  /\ EraseRoutes(routes, gone) = it[Len(routes)]
    BY EraseRuns
  <1>0. /\ Len(routes) \in Nat /\ DOMAIN routes = 1..Len(routes)
        /\ \A k \in 1..Len(routes) : routes[k] \in Routes
    OBVIOUS
  <1> DEFINE Upto(k) == {routes[n] : n \in 1..k}
             N == {k \in Nat : k <= Len(routes) =>
                     it[k] \in Seq(Routes) /\ Range(it[k]) = Upto(k) \ gone}
  <1>2. 0 \in N
    <2>1. Range(it[0]) = {} /\ it[0] \in Seq(Routes)
      BY <1>1 DEF Range
    <2>2. Upto(0) = {}
      OBVIOUS
    <2> QED BY <2>1, <2>2
  <1>3. ASSUME NEW k \in N PROVE k + 1 \in N
    <2> SUFFICES ASSUME k + 1 <= Len(routes)
                 PROVE  /\ it[k + 1] \in Seq(Routes)
                        /\ Range(it[k + 1]) = Upto(k + 1) \ gone
      OBVIOUS
    <2>1. k \in Nat /\ k + 1 \in 1..Len(routes) /\ (k + 1) - 1 = k
      BY <1>0
    <2>2. it[k] \in Seq(Routes) /\ Range(it[k]) = Upto(k) \ gone
      BY <1>0, <2>1
    <2> DEFINE r == routes[k + 1]
    <2>3. Upto(k + 1) = Upto(k) \cup {r}
      BY <2>1
    <2>4. it[k + 1] = KeepUnless(it[k], r, gone) /\ r \in Routes
      BY <1>0, <1>1, <2>1
    <2> HIDE DEF r, Upto
    <2>5. CASE r \in gone
      BY <2>2, <2>3, <2>4, <2>5 DEF KeepUnless
    <2>6. CASE r \notin gone
      <3>1. it[k + 1] = Append(it[k], r)
        BY <2>4, <2>6 DEF KeepUnless
      <3>2. it[k + 1] \in Seq(Routes) /\ Range(it[k + 1]) = Range(it[k]) \cup {r}
        BY <2>2, <2>4, <3>1, AppendRange
      <3> QED BY <2>2, <2>3, <2>6, <3>2
    <2> QED BY <2>5, <2>6
  <1> HIDE DEF N
  <1>4. N \in SUBSET Nat
    BY DEF N
  <1>5. Len(routes) \in N
    BY <1>0, <1>2, <1>3, <1>4, B!Upwards
  <1>6. Upto(Len(routes)) = Range(routes)
    BY <1>0 DEF Range
  <1> HIDE DEF Upto
  <1> QED BY <1>0, <1>1, <1>5, <1>6 DEF N

\* The routes NotifyInterfaceUp makes sure of.
ConnectedRoutes(i, adds) ==
  {ConnectedRoute(i, a) : a \in {b \in Range(adds) : b.len # AddrBits}}

\* NotifyInterfaceUp adds them and nothing else.
LEMMA NotifyUpRange ==
  ASSUME NEW routes \in Seq(Routes), NEW i \in Interfaces, NEW adds \in Seq(Addresses)
  PROVE  /\ NotifyInterfaceUp(routes, i, adds) \in Seq(Routes)
         /\ Range(NotifyInterfaceUp(routes, i, adds))
              = Range(routes) \cup ConnectedRoutes(i, adds)
  <1>1. PICK it : /\ it[0] = routes
                  /\ \A k \in 1..Len(adds) : it[k] = AddConnected(it[k - 1], i, adds[k])
                  /\ NotifyInterfaceUp(routes, i, adds) = it[Len(adds)]
    BY NotifyUpRuns
  <1>0. /\ Len(adds) \in Nat /\ DOMAIN adds = 1..Len(adds)
        /\ \A k \in 1..Len(adds) : adds[k] \in Addresses
    OBVIOUS
  <1> DEFINE Upto(k) == {ConnectedRoute(i, adds[n]) :
                           n \in {m \in 1..k : adds[m].len # AddrBits}}
             N == {k \in Nat : k <= Len(adds) =>
                     it[k] \in Seq(Routes) /\ Range(it[k]) = Range(routes) \cup Upto(k)}
  <1>2. 0 \in N
    BY <1>1
  <1>3. ASSUME NEW k \in N PROVE k + 1 \in N
    <2> SUFFICES ASSUME k + 1 <= Len(adds)
                 PROVE  /\ it[k + 1] \in Seq(Routes)
                        /\ Range(it[k + 1]) = Range(routes) \cup Upto(k + 1)
      OBVIOUS
    <2>1. k \in Nat /\ k + 1 \in 1..Len(adds) /\ (k + 1) - 1 = k
      BY <1>0
    <2>2. it[k] \in Seq(Routes) /\ Range(it[k]) = Range(routes) \cup Upto(k)
      BY <1>0, <2>1
    <2> DEFINE a == adds[k + 1]
               r == ConnectedRoute(i, a)
    <2>3. Upto(k + 1) = IF a.len = AddrBits THEN Upto(k) ELSE Upto(k) \cup {r}
      BY <2>1
    <2>4. it[k + 1] = AddConnected(it[k], i, a) /\ r \in Routes
      BY <1>0, <1>1, <2>1, ConnectedRouteTyped
    <2> HIDE DEF a, Upto
    <2>5. CASE a.len = AddrBits
      BY <2>2, <2>3, <2>4, <2>5 DEF AddConnected
    <2>6. CASE a.len # AddrBits
      <3>1. it[k + 1] = AddNetworkRouteTo(it[k], r)
        BY <2>4, <2>6 DEF AddConnected
      <3> HIDE DEF r
      <3>2. it[k + 1] \in Seq(Routes) /\ Range(it[k + 1]) = Range(it[k]) \cup {r}
        BY <2>2, <2>4, <3>1, AddRange
      <3> QED BY <2>2, <2>3, <2>6, <3>2
    <2> QED BY <2>5, <2>6
  <1> HIDE DEF N
  <1>4. N \in SUBSET Nat
    BY DEF N
  <1>5. Len(adds) \in N
    BY <1>0, <1>2, <1>3, <1>4, B!Upwards
  <1>6. Upto(Len(adds)) = ConnectedRoutes(i, adds)
    BY <1>0 DEF Range, ConnectedRoutes
  <1> HIDE DEF Upto
  <1> QED BY <1>0, <1>1, <1>5, <1>6 DEF N

\* A connected route and its network determine each other.
LEMMA ConnectedNetwork ==
  /\ \A i, a : /\ ConnectedRoute(i, a).interface = i
               /\ NetworkOf(i, a).interface = i
               /\ NetworkOfRoute(ConnectedRoute(i, a)) = NetworkOf(i, a)
  /\ \A i, a, j, b : NetworkOf(i, a) = NetworkOf(j, b)
                       => i = j /\ ConnectedRoute(i, a) = ConnectedRoute(j, b)
  <1>1. \A i, a : /\ ConnectedRoute(i, a).interface = i
                  /\ NetworkOf(i, a).interface = i
                  /\ NetworkOfRoute(ConnectedRoute(i, a)) = NetworkOf(i, a)
    BY DEF ConnectedRoute, NetworkRoute, NetworkOf, NetworkOfRoute
  <1> SUFFICES ASSUME NEW i, NEW a, NEW j, NEW b, NetworkOf(i, a) = NetworkOf(j, b)
               PROVE  i = j /\ ConnectedRoute(i, a) = ConnectedRoute(j, b)
    BY <1>1
  <1>2. /\ i = j /\ a.len = b.len
        /\ CombineMask(a.local, a.len) = CombineMask(b.local, b.len)
    BY DEF NetworkOf
  <1> QED BY <1>2 DEF ConnectedRoute

\* SetIpv4, over a list of interfaces.
SetIpv4Over(ids) ==
  FoldLeft(LAMBDA rs, i : IF i \in up THEN NotifyInterfaceUp(rs, i, addrs[i])
                          ELSE NotifyInterfaceDown(rs, i),
           <<>>, ids)

\* SetIpv4, one table per interface.
LEMMA SetIpv4Runs ==
  ASSUME NEW ids \in Seq(Interfaces), addrs \in [Interfaces -> Seq(Addresses)]
  PROVE  \E it : /\ it[0] = <<>>
                 /\ \A k \in 1..Len(ids) : it[k] = NotifyUpOrDown(it[k - 1], ids[k])
                 /\ SetIpv4Over(ids) = it[Len(ids)]
  <1> DEFINE Op(rs, x) == NotifyUpOrDown(rs, x)
             Loop(g) == g = [s \in SUBSET DOMAIN ids |->
                               IF s = {} THEN <<>>
                               ELSE Op(g[s \ {Max(s)}], ids[Max(s)])]
             F == [p \in Seq(Routes) \X Interfaces |-> Op(p[1], p[2])]
  <1>0. Len(ids) \in Nat /\ DOMAIN ids = 1..Len(ids)
    OBVIOUS
  <1>1. \A rs \in Seq(Routes), x \in Interfaces : Op(rs, x) \in Seq(Routes)
    BY NotifyUpRange, EraseRange DEF NotifyUpOrDown, NotifyInterfaceDown
  <1> HIDE DEF Op
  <1>2. F \in [Seq(Routes) \X Interfaces -> Seq(Routes)]
    BY <1>1
  <1>3. PICK g : /\ Folded(F, <<>>, ids, SUBSET DOMAIN ids, g)
                 /\ \A s \in SUBSET DOMAIN ids :
                      g[s] \in Seq(Routes) /\ (s # {} => Max(s) \in DOMAIN ids)
    <2>1. <<>> \in Seq(Routes) /\ ids \in Seq(Interfaces)
      OBVIOUS
    <2> HIDE DEF F
    <2> QED BY <1>2, <2>1, FoldRuns, Zenon
  <1>4. Loop(g)
    <2>1. \A s \in SUBSET DOMAIN ids :
            s # {} => F[<<g[s \ {Max(s)}], ids[Max(s)]>>]
                        = Op(g[s \ {Max(s)}], ids[Max(s)])
      BY <1>3
    <2> HIDE DEF F
    <2> QED BY <1>3, <2>1 DEF Folded
  <1> DEFINE f == CHOOSE h : Loop(h)
  <1>5. Loop(f)
    BY <1>4, Zenon
  <1>6. SetIpv4Over(ids) = f[DOMAIN ids]
    BY Zenon DEF SetIpv4Over, NotifyUpOrDown, FoldLeft, MapThenFoldSet, Op
  <1> HIDE DEF f
  <1>7. f[1..0] = <<>>
    BY <1>5
  <1>8. \A k \in 1..Len(ids) : f[1..k] = Op(f[1..(k - 1)], ids[k])
    <2> SUFFICES ASSUME NEW k \in 1..Len(ids)
                 PROVE  f[1..k] = Op(f[1..(k - 1)], ids[k])
      OBVIOUS
    <2>1. /\ 1..k \in SUBSET (1..Len(ids)) /\ 1..k # {}
          /\ Max(1..k) = k /\ (1..k) \ {Max(1..k)} = 1..(k - 1)
      BY <1>0, Prefix
    <2> DEFINE s == 1..k
    <2> HIDE DEF s
    <2>2. s \in SUBSET DOMAIN ids /\ s # {} /\ Max(s) = k /\ s \ {Max(s)} = 1..(k - 1)
      BY <1>0, <2>1 DEF s
    <2>3. f[s] = Op(f[s \ {Max(s)}], ids[Max(s)])
      BY <1>5, <2>2, Zenon
    <2> QED BY <2>2, <2>3 DEF s
  <1> DEFINE it == [k \in 0..Len(ids) |-> f[1..k]]
  <1>9. it[0] = <<>>
    BY <1>0, <1>7
  <1>10. \A k \in 1..Len(ids) : it[k] = Op(it[k - 1], ids[k])
    BY <1>0, <1>8
  <1>11. SetIpv4Over(ids) = it[Len(ids)]
    BY <1>0, <1>6
  <1> HIDE DEF it
  <1> QED BY <1>9, <1>10, <1>11 DEF Op

\* After SetIpv4 the table has the connected routes of the interfaces that are up.
LEMMA SetIpv4Range ==
  ASSUME addrs \in [Interfaces -> Seq(Addresses)], up \subseteq Interfaces
  PROVE  /\ SetIpv4 \in Seq(Routes)
         /\ Range(SetIpv4) = UNION {ConnectedRoutes(i, addrs[i]) : i \in up}
  <1> DEFINE ids == [i \in Interfaces |-> i]
             n == Len(IfAddresses)
  <1>0. /\ Interfaces = 1..n /\ n \in Nat
    BY HostAssumption
  <1>1. ids \in Seq(Interfaces) /\ Len(ids) = n
    <2> HIDE DEF n
    <2> QED BY <1>0
  <1>2. \A k \in 1..n : ids[k] = k
    BY <1>0
  <1>9. SetIpv4 = SetIpv4Over(ids)
    BY Zenon DEF SetIpv4, SetIpv4Over
  <1>10. \A j \in up : j \in 1..n /\ j \in Int
    BY <1>0
  <1>11. n \in Nat
    BY <1>0
  <1> HIDE DEF ids, n
  <1>3. PICK it : /\ it[0] = <<>>
                  /\ \A k \in 1..n : it[k] = NotifyUpOrDown(it[k - 1], ids[k])
                  /\ SetIpv4 = it[n]
    <2>1. \E it : /\ it[0] = <<>>
                  /\ \A k \in 1..Len(ids) : it[k] = NotifyUpOrDown(it[k - 1], ids[k])
                  /\ SetIpv4Over(ids) = it[Len(ids)]
      BY <1>1, SetIpv4Runs
    <2> QED BY <1>1, <1>9, <2>1
  <1> DEFINE Upto(k) == UNION {ConnectedRoutes(i, addrs[i]) : i \in {j \in up : j <= k}}
             N == {k \in Nat : k <= n => it[k] \in Seq(Routes) /\ Range(it[k]) = Upto(k)}
  <1>4. 0 \in N
    <2>1. Range(it[0]) = {} /\ it[0] \in Seq(Routes)
      BY <1>3 DEF Range
    <2>2. {j \in up : j <= 0} = {}
      BY <1>10
    <2> QED BY <2>1, <2>2
  <1>5. ASSUME NEW k \in N PROVE k + 1 \in N
    <2> SUFFICES ASSUME k + 1 <= n
                 PROVE  it[k + 1] \in Seq(Routes) /\ Range(it[k + 1]) = Upto(k + 1)
      OBVIOUS
    <2> DEFINE i == k + 1
    <2>1. k \in Nat /\ i \in 1..n /\ i - 1 = k /\ k <= n /\ i \in Interfaces
      BY <1>0
    <2>2. it[k] \in Seq(Routes) /\ Range(it[k]) = Upto(k)
      BY <2>1
    <2>3. it[i] = NotifyUpOrDown(it[k], i)
      BY <1>2, <1>3, <2>1
    <2>4. CASE i \in up
      <3>1. it[i] = NotifyInterfaceUp(it[k], i, addrs[i])
        BY <2>3, <2>4 DEF NotifyUpOrDown
      <3>2. addrs[i] \in Seq(Addresses)
        BY <2>1
      <3>3. /\ it[i] \in Seq(Routes)
            /\ Range(it[i]) = Range(it[k]) \cup ConnectedRoutes(i, addrs[i])
        <4> HIDE DEF i
        <4> QED BY <2>1, <2>2, <3>1, <3>2, NotifyUpRange
      <3>4. {j \in up : j <= i} = {j \in up : j <= k} \cup {i}
        BY ONLY <1>10, <1>11, <2>1, <2>4
      <3>5. Upto(i) = Upto(k) \cup ConnectedRoutes(i, addrs[i])
        <4> HIDE DEF i
        <4> QED BY <3>4
      <3> QED BY <2>2, <3>3, <3>5
    <2>5. CASE i \notin up
      <3> DEFINE gone == {r \in Range(it[k]) : r.interface = i}
      <3>3. it[i] = EraseRoutes(it[k], gone)
        BY <2>3, <2>5 DEF NotifyUpOrDown, NotifyInterfaceDown
      <3>4. gone = {}
        <4> SUFFICES ASSUME NEW r \in Upto(k) PROVE r.interface # i
          BY <2>2
        <4>1. PICK j \in up : j <= k /\ r \in ConnectedRoutes(j, addrs[j])
          OBVIOUS
        <4>2. r.interface = j
          BY <4>1, ConnectedNetwork DEF ConnectedRoutes
        <4>3. j # k + 1
          BY ONLY <1>10, <2>1, <4>1
        <4> QED BY <4>2, <4>3
      <3> HIDE DEF gone
      <3>1. it[i] \in Seq(Routes) /\ Range(it[i]) = Range(it[k])
        BY <2>2, <3>3, <3>4, EraseRange
      <3>2. {j \in up : j <= i} = {j \in up : j <= k}
        BY ONLY <1>10, <1>11, <2>1, <2>5
      <3> QED BY <2>2, <3>1, <3>2
    <2> QED BY <2>4, <2>5
  <1> HIDE DEF N
  <1>6. N \in SUBSET Nat
    BY DEF N
  <1>7. n \in N
    BY <1>0, <1>4, <1>5, <1>6, B!Upwards
  <1>8. {j \in up : j <= n} = up
    BY ONLY <1>10, <1>11
  <1>12. SetIpv4 \in Seq(Routes) /\ Range(SetIpv4) = Upto(n)
    BY <1>3, <1>7, <1>11 DEF N
  <1> QED BY <1>8, <1>12
-----------------------------------------------------------------------------
(* The table and the interfaces.                                           *)

NoStrayRoute ==
  \A r \in Range(m_networkRoutes) : r.interface \in up \/ r \in byHand

NetworksReached ==
  \A i \in up : \A a \in Range(addrs[i]) :
    a.len # AddrBits => \/ ConnectedRoute(i, a) \in Range(m_networkRoutes)
                        \/ NetworkOf(i, a) \in takenAway

TableInv ==
  /\ m_networkRoutes \in Seq(Routes)
  /\ up \subseteq Interfaces
  /\ addrs \in [Interfaces -> Seq(Addresses)]
  /\ NoStrayRoute
  /\ NetworksReached

\* The elements of a concatenation.
LEMMA Concatenation ==
  ASSUME NEW S, NEW u \in Seq(S), NEW v \in Seq(S)
  PROVE  /\ u \o v \in Seq(S) /\ Len(u \o v) = Len(u) + Len(v)
         /\ \A k \in 1..Len(u \o v) :
              (u \o v)[k] = IF k <= Len(u) THEN u[k] ELSE v[k - Len(u)]
  OBVIOUS

\* Taking out one position takes out at most its element.
LEMMA RemoveAtRange ==
  ASSUME NEW S, NEW s \in Seq(S), NEW n \in DOMAIN s
  PROVE  /\ RemoveAt(s, n) \in Seq(S)
         /\ Range(RemoveAt(s, n)) \subseteq Range(s)
         /\ Range(s) \subseteq Range(RemoveAt(s, n)) \cup {s[n]}
  <1> DEFINE t == RemoveAt(s, n)
  <1>1. /\ Len(s) \in Nat /\ DOMAIN s = 1..Len(s) /\ n \in 1..Len(s)
        /\ t \in Seq(S) /\ DOMAIN t = 1..(Len(s) - 1)
        /\ \A k \in 1..(Len(s) - 1) : t[k] = IF k < n THEN s[k] ELSE s[k + 1]
    <2>1. Len(s) \in Nat /\ DOMAIN s = 1..Len(s) /\ n \in 1..Len(s)
      OBVIOUS
    <2> DEFINE u == SubSeq(s, 1, n - 1)
               v == SubSeq(s, n + 1, Len(s))
    <2>5. u \in Seq(S) /\ Len(u) = n - 1 /\ \A k \in 1..(n - 1) : u[k] = s[k]
      BY <2>1
    <2>6. /\ v \in Seq(S) /\ Len(v) = Len(s) - n
          /\ \A k \in 1..(Len(s) - n) : v[k] = s[n + k]
      BY <2>1
    <2>7. t = u \o v
      BY DEF RemoveAt
    <2> HIDE DEF t, u, v
    <2>2. t \in Seq(S) /\ \A k \in 1..(Len(s) - 1) : t[k] = IF k < n THEN s[k] ELSE s[k + 1]
      <3>1. /\ t \in Seq(S) /\ Len(t) = Len(u) + Len(v)
            /\ \A k \in 1..Len(t) : t[k] = IF k <= Len(u) THEN u[k] ELSE v[k - Len(u)]
        <4>1. /\ u \o v \in Seq(S) /\ Len(u \o v) = Len(u) + Len(v)
              /\ \A k \in 1..Len(u \o v) :
                   (u \o v)[k] = IF k <= Len(u) THEN u[k] ELSE v[k - Len(u)]
          BY <2>5, <2>6, Concatenation
        <4> QED BY <2>7, <4>1
      <3> SUFFICES ASSUME NEW k \in 1..(Len(s) - 1)
                   PROVE  t[k] = IF k < n THEN s[k] ELSE s[k + 1]
        BY <3>1
      <3>2. k \in 1..Len(t)
        BY <2>1, <2>5, <2>6, <3>1
      <3>3. CASE k < n
        <4>1. k \in 1..(n - 1) /\ k <= Len(u)
          BY <2>1, <2>5, <3>3
        <4> QED BY <2>5, <3>1, <3>2, <3>3, <4>1
      <3>4. CASE ~(k < n)
        <4>1. ~(k <= Len(u)) /\ k - Len(u) = k - n + 1
          BY <2>1, <2>5, <3>4
        <4>2. k - n + 1 \in 1..(Len(s) - n) /\ n + (k - n + 1) = k + 1
          BY <2>1, <3>4
        <4>3. t[k] = v[k - n + 1]
          BY <3>1, <3>2, <4>1
        <4> QED BY <2>6, <3>4, <4>2, <4>3
      <3> QED BY <3>3, <3>4
    <2>3. Len(t) = Len(s) - 1
      <3>1. Len(u \o v) = Len(u) + Len(v)
        BY <2>5, <2>6, Concatenation
      <3> QED BY <2>1, <2>5, <2>6, <2>7, <3>1
    <2>4. DOMAIN t = 1..Len(t)
      BY <2>2
    <2> QED BY <2>1, <2>2, <2>3, <2>4
  <1> HIDE DEF t
  <1>2. Range(t) \subseteq Range(s)
    <2> SUFFICES ASSUME NEW k \in DOMAIN t PROVE t[k] \in Range(s)
      BY DEF Range
    <2>1. k \in 1..Len(s) /\ k + 1 \in 1..Len(s)
      BY <1>1
    <2> QED BY <1>1, <2>1 DEF Range
  <1>3. Range(s) \subseteq Range(t) \cup {s[n]}
    <2> SUFFICES ASSUME NEW k \in DOMAIN s, k # n PROVE s[k] \in Range(t)
      BY DEF Range
    <2>1. CASE k < n
      <3>1. k \in DOMAIN t /\ t[k] = s[k]
        BY <1>1, <2>1
      <3> QED BY <3>1 DEF Range
    <2>2. CASE k > n
      <3>1. k - 1 \in DOMAIN t /\ t[k - 1] = s[k]
        BY <1>1, <2>2
      <3> QED BY <3>1 DEF Range
    <2> QED BY <1>1, <2>1, <2>2
  <1> QED BY <1>1, <1>2, <1>3 DEF t

\* The table SetIpv4 makes.
LEMMA InitTable ==
  ASSUME Init
  PROVE  TableInv
  <1>1. up \subseteq Interfaces /\ m_networkRoutes = SetIpv4
    BY DEF Init
  <1>2. addrs \in [Interfaces -> Seq(Addresses)]
    <2>1. PICK a \in [Interfaces -> {<<>>} \cup {<<x>> : x \in UNION Range(IfAddresses)}] :
            addrs = a
      BY DEF Init
    <2>2. \A x \in UNION Range(IfAddresses) : x \in Addresses
      BY HostAssumption DEF Range, Addresses
    <2>3. \A i \in Interfaces : a[i] \in Seq(Addresses)
      <3> SUFFICES ASSUME NEW i \in Interfaces PROVE a[i] \in Seq(Addresses)
        OBVIOUS
      <3>1. a[i] = <<>> \/ \E x \in UNION Range(IfAddresses) : a[i] = <<x>>
        BY <2>1
      <3>2. CASE a[i] = <<>>
        BY <3>2
      <3>3. ASSUME NEW x \in UNION Range(IfAddresses), a[i] = <<x>>
            PROVE  a[i] \in Seq(Addresses)
        <4>1. x \in Addresses
          BY <2>2
        <4> QED BY <3>3, <4>1
      <3> QED BY <3>1, <3>2, <3>3
    <2> QED BY <2>1, <2>3
  <1>3. /\ m_networkRoutes \in Seq(Routes)
        /\ Range(m_networkRoutes) = UNION {ConnectedRoutes(i, addrs[i]) : i \in up}
    BY <1>1, <1>2, SetIpv4Range
  <1>4. NoStrayRoute
    <2> SUFFICES ASSUME NEW r \in Range(m_networkRoutes) PROVE r.interface \in up
      BY DEF NoStrayRoute
    <2>1. PICK i \in up : r \in ConnectedRoutes(i, addrs[i])
      BY <1>3
    <2>2. PICK a : r = ConnectedRoute(i, a)
      BY <2>1 DEF ConnectedRoutes
    <2> QED BY <2>2, ConnectedNetwork
  <1>5. NetworksReached
    BY <1>3 DEF NetworksReached, ConnectedRoutes
  <1> QED BY <1>1, <1>2, <1>3, <1>4, <1>5 DEF TableInv

\* AddNetworkRouteTo and its relatives, SetDefaultMulticastRoute.
LEMMA AddTable ==
  ASSUME TableInv,
         \/ \E r \in Calls : AddRoute(r)
         \/ \E i \in Interfaces : AddDefaultMulticastRoute(i)
  PROVE  TableInv'
  <1>1. PICK r \in Routes :
          /\ m_networkRoutes' \in Seq(Routes)
          /\ Range(m_networkRoutes') = Range(m_networkRoutes) \cup {r}
          /\ byHand' = IF r.interface \in up THEN byHand ELSE byHand \cup {r}
          /\ up' = up /\ addrs' = addrs /\ takenAway' = takenAway
    <2>0. m_networkRoutes \in Seq(Routes)
      BY DEF TableInv
    <2>1. ASSUME NEW r \in Calls, AddRoute(r)
          PROVE  /\ r \in Routes
                 /\ m_networkRoutes' \in Seq(Routes)
                 /\ Range(m_networkRoutes') = Range(m_networkRoutes) \cup {r}
                 /\ byHand' = IF r.interface \in up THEN byHand ELSE byHand \cup {r}
                 /\ up' = up /\ addrs' = addrs /\ takenAway' = takenAway
      <3>1. r \in Routes
        BY HostAssumption DEF Routes
      <3>2. m_networkRoutes' = AddNetworkRouteTo(m_networkRoutes, r)
        BY <2>1 DEF AddRoute
      <3>3. /\ m_networkRoutes' \in Seq(Routes)
            /\ Range(m_networkRoutes') = Range(m_networkRoutes) \cup {r}
        BY <2>0, <3>1, <3>2, AddRange
      <3> QED BY <2>1, <3>1, <3>3 DEF AddRoute
    <2>2. ASSUME NEW i \in Interfaces, AddDefaultMulticastRoute(i)
          PROVE  \E r \in Routes :
                   /\ m_networkRoutes' \in Seq(Routes)
                   /\ Range(m_networkRoutes') = Range(m_networkRoutes) \cup {r}
                   /\ byHand' = IF r.interface \in up THEN byHand ELSE byHand \cup {r}
                   /\ up' = up /\ addrs' = addrs /\ takenAway' = takenAway
      <3> DEFINE r == NetworkRoute(MulticastNet, MulticastLen, AnyAddress, i, 0)
      <3>1. r \in Routes
        BY RoutingAssumption, Masks DEF NetworkRoute, Routes, Route
      <3>2. r.interface = i
        BY DEF NetworkRoute
      <3>3. m_networkRoutes' = Append(m_networkRoutes, r)
        BY <2>2 DEF AddDefaultMulticastRoute, SetDefaultMulticastRoute
      <3>4. byHand' = IF i \in up THEN byHand ELSE byHand \cup {Last(m_networkRoutes')}
        BY <2>2 DEF AddDefaultMulticastRoute
      <3> HIDE DEF r
      <3>5. Last(m_networkRoutes') = r
        BY <2>0, <3>1, <3>3 DEF Last
      <3>6. /\ m_networkRoutes' \in Seq(Routes)
            /\ Range(m_networkRoutes') = Range(m_networkRoutes) \cup {r}
        BY <2>0, <3>1, <3>3, AppendRange
      <3>7. up' = up /\ addrs' = addrs /\ takenAway' = takenAway
        BY <2>2 DEF AddDefaultMulticastRoute
      <3> QED BY <3>1, <3>2, <3>4, <3>5, <3>6, <3>7
    <2> QED BY <2>1, <2>2
  <1>2. NoStrayRoute'
    BY <1>1 DEF TableInv, NoStrayRoute
  <1>3. NetworksReached'
    <2> SUFFICES ASSUME NEW i \in up, NEW a \in Range(addrs[i]), a.len # AddrBits
                 PROVE  \/ ConnectedRoute(i, a) \in Range(m_networkRoutes')
                        \/ NetworkOf(i, a) \in takenAway'
      BY <1>1 DEF NetworksReached, ConnectedRoute, NetworkOf, NetworkRoute
    <2> QED BY <1>1 DEF TableInv, NetworksReached
  <1> QED BY <1>1, <1>2, <1>3 DEF TableInv

\* RemoveRoute notes the network it takes away.
LEMMA RemoveTable ==
  ASSUME TableInv, NEW n \in DOMAIN m_networkRoutes, RemoveRoute(n)
  PROVE  TableInv'
  <1> DEFINE r == m_networkRoutes[n]
             new == m_networkRoutes'
  <1>1. /\ new \in Seq(Routes)
        /\ Range(new) \subseteq Range(m_networkRoutes)
        /\ Range(m_networkRoutes) \subseteq Range(new) \cup {r}
    BY RemoveAtRange DEF RemoveRoute, TableInv
  <1>2. /\ byHand' = byHand \cap Range(new)
        /\ up' = up /\ addrs' = addrs
        /\ takenAway' = takenAway \cup (IF r.interface \notin up THEN {}
                                        ELSE Connected({NetworkOfRoute(r)}, addrs))
    BY DEF RemoveRoute
  <1> HIDE DEF r, new
  <1>3. NoStrayRoute'
    BY <1>1, <1>2 DEF TableInv, NoStrayRoute, new
  <1>4. NetworksReached'
    <2> SUFFICES ASSUME NEW i \in up, NEW a \in Range(addrs[i]), a.len # AddrBits,
                        ConnectedRoute(i, a) \notin Range(new)
                 PROVE  NetworkOf(i, a) \in takenAway'
      BY <1>2 DEF NetworksReached, new, ConnectedRoute, NetworkOf, NetworkRoute
    <2>1. CASE ConnectedRoute(i, a) \in Range(m_networkRoutes)
      <3>1. r = ConnectedRoute(i, a)
        BY <1>1, <2>1
      <3>2. r.interface = i /\ NetworkOfRoute(r) = NetworkOf(i, a)
        BY <3>1, ConnectedNetwork
      <3>3. NetworkOf(i, a) \in Connected({NetworkOfRoute(r)}, addrs)
        BY <3>2, ConnectedNetwork DEF Connected
      <3> QED BY <1>2, <3>2, <3>3
    <2>2. CASE ConnectedRoute(i, a) \notin Range(m_networkRoutes)
      BY <1>2, <2>2 DEF TableInv, NetworksReached
    <2> QED BY <2>1, <2>2
  <1> QED BY <1>1, <1>2, <1>3, <1>4 DEF TableInv, new

\* NotifyInterfaceUp.
LEMMA UpTable ==
  ASSUME TableInv, NEW i \in Interfaces, InterfaceUp(i)
  PROVE  TableInv'
  <1> DEFINE new == m_networkRoutes'
  <1>1. /\ up' = up \cup {i} /\ addrs' = addrs /\ takenAway' = takenAway
        /\ byHand' = {r \in byHand : r.interface # i}
        /\ new = NotifyInterfaceUp(m_networkRoutes, i, addrs[i])
    BY DEF InterfaceUp
  <1>2. addrs[i] \in Seq(Addresses) /\ m_networkRoutes \in Seq(Routes)
    BY DEF TableInv
  <1> HIDE DEF new
  <1>3. /\ new \in Seq(Routes)
        /\ Range(new) = Range(m_networkRoutes) \cup ConnectedRoutes(i, addrs[i])
    BY <1>1, <1>2, NotifyUpRange
  <1>4. NoStrayRoute'
    <2> SUFFICES ASSUME NEW r \in Range(new)
                 PROVE  r.interface \in up' \/ r \in byHand'
      BY DEF NoStrayRoute, new
    <2>1. CASE r \in Range(m_networkRoutes)
      BY <1>1, <2>1 DEF TableInv, NoStrayRoute
    <2>2. CASE r \in ConnectedRoutes(i, addrs[i])
      <3>1. PICK a : r = ConnectedRoute(i, a)
        BY <2>2 DEF ConnectedRoutes
      <3> QED BY <1>1, <3>1, ConnectedNetwork
    <2> QED BY <1>3, <2>1, <2>2
  <1>5. NetworksReached'
    <2> SUFFICES ASSUME NEW j \in up', NEW a \in Range(addrs[j]), a.len # AddrBits,
                        ConnectedRoute(j, a) \notin Range(new)
                 PROVE  NetworkOf(j, a) \in takenAway'
      BY <1>1 DEF NetworksReached, new, ConnectedRoute, NetworkOf, NetworkRoute
    <2>1. j # i
      BY <1>3 DEF ConnectedRoutes
    <2> QED BY <1>1, <1>3, <2>1 DEF TableInv, NetworksReached
  <1> QED BY <1>1, <1>3, <1>4, <1>5 DEF TableInv, new

\* NotifyInterfaceDown.
LEMMA DownTable ==
  ASSUME TableInv, NEW i \in Interfaces, InterfaceDown(i)
  PROVE  TableInv'
  <1> DEFINE new == m_networkRoutes'
             gone == {r \in Range(m_networkRoutes) : r.interface = i}
  <1>1. /\ up' = up \ {i} /\ addrs' = addrs /\ byHand' = byHand
        /\ takenAway' = {n \in takenAway : n.interface # i}
        /\ new = EraseRoutes(m_networkRoutes, gone)
    BY DEF InterfaceDown, NotifyInterfaceDown
  <1>2. m_networkRoutes \in Seq(Routes)
    BY DEF TableInv
  <1> HIDE DEF new, gone
  <1>3. new \in Seq(Routes) /\ Range(new) = Range(m_networkRoutes) \ gone
    BY <1>1, <1>2, EraseRange
  <1>4. NoStrayRoute'
    BY <1>1, <1>3 DEF TableInv, NoStrayRoute, new, gone
  <1>5. NetworksReached'
    <2> SUFFICES ASSUME NEW j \in up', NEW a \in Range(addrs[j]), a.len # AddrBits,
                        ConnectedRoute(j, a) \notin Range(new)
                 PROVE  NetworkOf(j, a) \in takenAway'
      BY <1>1 DEF NetworksReached, new, ConnectedRoute, NetworkOf, NetworkRoute
    <2>1. j \in up /\ j # i
      BY <1>1
    <2>2. ConnectedRoute(j, a) \notin gone
      BY <2>1, ConnectedNetwork DEF gone
    <2>3. NetworkOf(j, a) \in takenAway
      BY <1>3, <2>1, <2>2 DEF TableInv, NetworksReached
    <2> QED BY <1>1, <2>1, <2>3, ConnectedNetwork
  <1> QED BY <1>1, <1>3, <1>4, <1>5 DEF TableInv, new

\* NotifyAddAddress.
LEMMA AddAddressTable ==
  ASSUME TableInv, NEW i \in Interfaces, NEW a \in IfAddresses[i], AddAddress(i, a)
  PROVE  TableInv'
  <1> DEFINE new == m_networkRoutes'
             r == ConnectedRoute(i, a)
  <1>0. a \in Addresses
    BY HostAssumption DEF Addresses
  <1>1. /\ m_networkRoutes \in Seq(Routes) /\ addrs \in [Interfaces -> Seq(Addresses)]
        /\ r \in Routes
    BY <1>0, ConnectedRouteTyped DEF TableInv
  <1>2. /\ up' = up /\ byHand' = byHand
        /\ addrs' = [addrs EXCEPT ![i] = Append(addrs[i], a)]
        /\ new = IF i \notin up THEN m_networkRoutes
                 ELSE AddNetworkRouteTo(m_networkRoutes, r)
        /\ takenAway' = IF i \notin up THEN takenAway
                        ELSE takenAway \ {NetworkOf(i, a)}
    BY DEF AddAddress
  <1> HIDE DEF new, r
  <1>3. /\ Append(addrs[i], a) \in Seq(Addresses)
        /\ Range(Append(addrs[i], a)) = Range(addrs[i]) \cup {a}
    BY <1>0, <1>1, AppendRange
  <1>4. /\ addrs' \in [Interfaces -> Seq(Addresses)]
        /\ \A j \in Interfaces :
             Range(addrs'[j]) = IF j = i THEN Range(addrs[i]) \cup {a} ELSE Range(addrs[j])
    <2> DEFINE x == Append(addrs[i], a)
    <2> HIDE DEF x
    <2>1. addrs' = [addrs EXCEPT ![i] = x] /\ x \in Seq(Addresses)
          /\ Range(x) = Range(addrs[i]) \cup {a}
      BY <1>2, <1>3 DEF x
    <2> QED BY <1>1, <2>1
  <1>5. /\ new \in Seq(Routes)
        /\ Range(new) = IF i \in up THEN Range(m_networkRoutes) \cup {r}
                        ELSE Range(m_networkRoutes)
    BY <1>1, <1>2, AddRange
  <1>6. r.interface = i
    BY ConnectedNetwork DEF r
  <1>7. NoStrayRoute'
    BY <1>2, <1>5, <1>6 DEF TableInv, NoStrayRoute, new
  <1>8. NetworksReached'
    <2> SUFFICES ASSUME NEW j \in up, NEW b \in Range(addrs'[j]), b.len # AddrBits,
                        ConnectedRoute(j, b) \notin Range(new)
                 PROVE  NetworkOf(j, b) \in takenAway'
      BY <1>2 DEF NetworksReached, new, ConnectedRoute, NetworkOf, NetworkRoute
    <2>1. j \in Interfaces
      BY DEF TableInv
    <2>2. CASE i \notin up
      <3>1. b \in Range(addrs[j])
        BY <1>4, <2>1, <2>2
      <3> QED BY <1>2, <1>5, <2>2, <3>1 DEF TableInv, NetworksReached
    <2>3. CASE i \in up
      <3>1. ConnectedRoute(j, b) # r
        BY <1>5, <2>3
      <3>2. NetworkOf(j, b) # NetworkOf(i, a)
        BY <3>1, ConnectedNetwork DEF r
      <3>3. b \in Range(addrs[j])
        BY <1>4, <2>1, <3>1 DEF r
      <3>4. NetworkOf(j, b) \in takenAway
        BY <1>5, <3>3 DEF TableInv, NetworksReached
      <3> QED BY <1>2, <2>3, <3>2, <3>4
    <2> QED BY <2>2, <2>3
  <1> QED BY <1>2, <1>4, <1>5, <1>7, <1>8 DEF TableInv, new

\* NotifyRemoveAddress notes the network it takes away.
LEMMA RemoveAddressTable ==
  ASSUME TableInv, NEW i \in Interfaces, NEW k \in DOMAIN addrs[i], RemoveAddress(i, k)
  PROVE  TableInv'
  <1> DEFINE new == m_networkRoutes'
             a == addrs[i][k]
             gone == {r \in Range(m_networkRoutes) :
                        NetworkOfRoute(r) = NetworkOf(i, a) /\ r.len # AddrBits}
             x == RemoveAt(addrs[i], k)
  <1>1. /\ m_networkRoutes \in Seq(Routes) /\ addrs \in [Interfaces -> Seq(Addresses)]
        /\ addrs[i] \in Seq(Addresses)
    BY DEF TableInv
  <1>2. /\ up' = up /\ byHand' = byHand
        /\ addrs' = [addrs EXCEPT ![i] = x]
        /\ new = IF i \notin up THEN m_networkRoutes
                 ELSE EraseRoutes(m_networkRoutes, gone)
        /\ takenAway' = IF i \notin up THEN takenAway
                        ELSE Connected(takenAway \cup {NetworkOf(i, a)}, addrs')
    BY DEF RemoveAddress
  <1>3. x \in Seq(Addresses) /\ Range(x) \subseteq Range(addrs[i])
    BY <1>1, RemoveAtRange
  <1> HIDE DEF new, a, gone, x
  <1>4. /\ addrs' \in [Interfaces -> Seq(Addresses)]
        /\ \A j \in Interfaces : Range(addrs'[j]) \subseteq Range(addrs[j])
    BY <1>1, <1>2, <1>3
  <1>5. /\ new \in Seq(Routes)
        /\ Range(new) = IF i \in up THEN Range(m_networkRoutes) \ gone
                        ELSE Range(m_networkRoutes)
    BY <1>1, <1>2, EraseRange
  <1>6. NoStrayRoute'
    BY <1>2, <1>5 DEF TableInv, NoStrayRoute, new
  <1>7. NetworksReached'
    <2> SUFFICES ASSUME NEW j \in up, NEW b \in Range(addrs'[j]), b.len # AddrBits,
                        ConnectedRoute(j, b) \notin Range(new)
                 PROVE  NetworkOf(j, b) \in takenAway'
      BY <1>2 DEF NetworksReached, new, ConnectedRoute, NetworkOf, NetworkRoute
    <2>1. j \in Interfaces /\ b \in Range(addrs[j])
      BY <1>4 DEF TableInv
    <2>2. CASE i \notin up
      BY <1>2, <1>5, <2>1, <2>2 DEF TableInv, NetworksReached
    <2>3. CASE i \in up
      <3>1. NetworkOf(j, b) \in takenAway \cup {NetworkOf(i, a)}
        <4>1. CASE ConnectedRoute(j, b) \in gone
          BY <4>1, ConnectedNetwork DEF gone
        <4>2. CASE ConnectedRoute(j, b) \notin gone
          BY <1>5, <2>1, <2>3, <4>2 DEF TableInv, NetworksReached
        <4> QED BY <4>1, <4>2
      <3>2. NetworkOf(j, b).interface = j
        BY ConnectedNetwork
      <3>3. NetworkOf(j, b) \in Connected(takenAway \cup {NetworkOf(i, a)}, addrs')
        BY <3>1, <3>2 DEF Connected
      <3> QED BY <1>2, <2>3, <3>3
    <2> QED BY <2>2, <2>3
  <1> QED BY <1>2, <1>4, <1>5, <1>6, <1>7 DEF TableInv, new

\* What leaves the unicast table, the interfaces and the histories alone.
LEMMA SameTable ==
  ASSUME TableInv,
         UNCHANGED <<m_networkRoutes, up, addrs, byHand, takenAway>>
  PROVE  TableInv'
  BY DEF TableInv, NoStrayRoute, NetworksReached, ConnectedRoute, NetworkRoute,
         NetworkOf

\* Every step keeps the table invariant.
LEMMA NextTable ==
  ASSUME TableInv, [Next]_vars
  PROVE  TableInv'
  <1>1. CASE UNCHANGED tableVars
    BY <1>1, SameTable DEF tableVars
  <1>2. ASSUME NEW r \in MulticastCalls, AddMulticastRoute(r) \/ RemoveMulticastRoute(r)
        PROVE  TableInv'
    BY <1>2, SameTable DEF AddMulticastRoute, RemoveMulticastRoute
  <1>3. ASSUME NEW n, RemoveMulticastRouteAt(n)
        PROVE  TableInv'
    BY <1>3, SameTable DEF RemoveMulticastRouteAt
  <1>4. CASE TableNext
    BY <1>2, <1>3, <1>4, AddTable, RemoveTable, UpTable, DownTable,
       AddAddressTable, RemoveAddressTable DEF TableNext
  <1> QED BY <1>1, <1>4 DEF Next, vars

\* The table invariant holds throughout.
LEMMA TableInvariance == Spec => []TableInv
  <1>1. Init => TableInv
    BY InitTable
  <1>2. TableInv /\ [Next]_vars => TableInv'
    BY NextTable
  <1> QED BY <1>1, <1>2, PTL DEF Spec

(***************************************************************************)
(* Whatever routes, addresses and interfaces come and go, the loops of     *)
(* LookupStatic and GetDefaultRoute find a route with the longest mask and *)
(* of those, host routes excepted, the smallest metric, or none if none    *)
(* matches.                                                                *)
(***************************************************************************)
THEOREM LookupIsRight == Spec => []LookupFindsBest
  <1>1. TableInv => LookupFindsBest
    BY TablesAreSearched DEF TableInv
  <1> QED BY <1>1, TableInvariance, PTL

(***************************************************************************)
(* NotifyInterfaceUp, NotifyInterfaceDown, NotifyAddAddress and            *)
(* NotifyRemoveAddress keep the table in step with the interfaces.         *)
(***************************************************************************)
THEOREM RoutesStayInStep == Spec => []RoutesFollowInterfaces
  <1>1. TableInv => RoutesFollowInterfaces
    BY DEF TableInv, NoStrayRoute, NetworksReached, RoutesFollowInterfaces
  <1> QED BY <1>1, TableInvariance, PTL
=============================================================================
