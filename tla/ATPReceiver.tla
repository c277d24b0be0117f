----------------------------- MODULE ATPReceiver -----------------------------
(***************************************************************************)
(* The receiving half of an ATPSocket at a parameter server and the        *)
(* ATPPacketSink that reads from it: aggregation of what the network left  *)
(* unaggregated (JobAggregator), duplicate suppression (RcvWindow),        *)
(* delivery into the receive buffer, and the multicast ACK scheduled for   *)
(* every completed aggregation.                                            *)
(*                                                                         *)
(* Buffer space is counted in packets; every packet has the same size.     *)
(* The tag fields that only feed congestion control and timestamps are     *)
(* left out.                                                               *)
(***************************************************************************)
EXTENDS ATPJobTree, FiniteSets

CONSTANTS
  Jobs,          \* jobs whose packets may reach the socket
  SeqNums,
  JobTreeMap,    \* m_jobTreeMap: a job given to SetJobTree -> its tree
  AddressMap,    \* the jobs given to AddAddressMapping
  Arrivals,      \* the data packets that can reach the socket
  RxBufferSize,  \* m_rxBufferSize, in packets
  RxModulus,     \* 2^32 in the code: m_rxAvailable is unsigned
  MaxAckEvents   \* bound on SendMultiAck events waiting for their time step

Key == Jobs \X SeqNums

VARIABLES
  m_aggregators,     \* (job, seq) -> JobAggregator; an entry that is not in
                     \* the map has no bits
  m_rcvWindows,      \* job -> RcvWindow
  m_rxBuffer,        \* packets delivered and not yet read
  m_rxAvailable,
  m_shutdownRecv,
  ackEvents,         \* scheduled SendMultiAck calls, in order
  reading,           \* the sink has set its receive callback
  m_jobRx,           \* job -> packets the sink has read
  delivered,         \* history: everything ever put into m_rxBuffer
  acked              \* history: the keys of the ACKs sent

vars == <<m_aggregators, m_rcvWindows, m_rxBuffer, m_rxAvailable,
          m_shutdownRecv, ackEvents, reading, m_jobRx, delivered, acked>>

KeyOf(p) == <<p.jobId, p.seqNum>>
NoAggregator == [flat |-> {}, data |-> {}]

\* What the ghost field "data" is a set of: a worker's part of a packet.
Contribution == Uint32Bits \X SeqNums

Packet == [jobId : Jobs, seqNum : SeqNums, bitmap0 : SUBSET Uint32Bits,
           bitmap1 : SUBSET Uint32Bits, data : SUBSET Contribution]

ASSUME ReceiverAssumption ==
  /\ SeqNums \subseteq Nat
  /\ DOMAIN JobTreeMap \subseteq Jobs
  /\ \A j \in DOMAIN JobTreeMap :
       JobTreeMap[j].expectedFlatBitmap \subseteq Uint32Bits
  /\ AddressMap \subseteq Jobs
  /\ \A p \in Arrivals : p \in Packet
  /\ RxBufferSize \in Nat
  /\ RxModulus \in Nat \ {0}
  /\ MaxAckEvents \in Nat

\* A socket just created, and nothing received.
NewSocket ==
  /\ m_aggregators = [k \in Key |-> NoAggregator]
  /\ m_rcvWindows = [j \in Jobs |-> [rcvNext |-> 0, outOfOrderSeqs |-> {}]]
  /\ m_rxBuffer = <<>>
  /\ m_rxAvailable = RxBufferSize
  /\ m_shutdownRecv = FALSE
  /\ ackEvents = <<>>
  /\ m_jobRx = [j \in Jobs |-> 0]
  /\ delivered = <<>>
  /\ acked = {}

Init == NewSocket /\ reading = FALSE
-----------------------------------------------------------------------------
\* GetFlatBitmap of a packet whose job has a tree.
GetFlatBitmap(p) ==
  ConvertToFlatBitmap(JobTreeMap[p.jobId], p.bitmap0, p.bitmap1)

\* What the network owes the socket: the data of a packet are those of the
\* workers its bitmaps name.
TruthfulArrivals ==
  \A p \in Arrivals :
    p.jobId \in DOMAIN JobTreeMap => p.data = GetFlatBitmap(p) \X {p.seqNum}

\* Mutant: what came out of order is not looked up.
IsBelowWindow(j, seq) == seq < m_rcvWindows[j].rcvNext

IsDuplicatePacket(j, seq) ==
  LET win == m_rcvWindows[j] IN
  seq < win.rcvNext \/ (seq > win.rcvNext /\ seq \in win.outOfOrderSeqs)

\* The first number from "after" on that is not among those that wait.
FirstMissing(after, waiting) ==
  CHOOSE n \in after..(after + Cardinality(waiting)) :
    n \notin waiting /\ after..(n - 1) \subseteq waiting

\* rcvNext moves over the packet and over all that waited right behind it.
Advanced(win) ==
  LET after == win.rcvNext + 1
      next  == FirstMissing(after, win.outOfOrderSeqs)
  IN  [rcvNext |-> next,
       outOfOrderSeqs |-> win.outOfOrderSeqs \ (after..(next - 1))]

\* Mutant: what comes out of order is not remembered.
UpdateInOrderOnly(win, seq) ==
  IF seq = win.rcvNext THEN Advanced(win) ELSE win

UpdateRcvWindow(win, seq) ==
  IF seq = win.rcvNext THEN Advanced(win)
  ELSE IF seq > win.rcvNext
       THEN [win EXCEPT !.outOfOrderSeqs = @ \cup {seq}]
       ELSE win

\* The number of packets of job j in a sequence.
OfJob(packets, j) == Cardinality({i \in DOMAIN packets : packets[i].jobId = j})

\* Mutant: one packet is counted per call.
HandleReadOnce(buffer) ==
  /\ m_jobRx' = [j \in Jobs |-> m_jobRx[j] +
                   (IF buffer # <<>> /\ Head(buffer).jobId = j THEN 1 ELSE 0)]
  /\ m_rxBuffer' = <<>>

\* ATPPacketSink::HandleRead: read the buffer until it is empty.
HandleRead(buffer) ==
  /\ m_jobRx' = [j \in Jobs |-> m_jobRx[j] + OfJob(buffer, j)]
  /\ m_rxBuffer' = <<>>

\* Mutant: m_rxAvailable is taken for a signed number.
NotifyDataRecvSigned(buffer) ==
  \/ /\ reading
     /\ HandleRead(buffer)
     /\ m_rxAvailable' = m_rxAvailable - 1 + Len(buffer)
  \/ /\ ~reading
     /\ m_rxBuffer' = buffer
     /\ m_rxAvailable' = m_rxAvailable - 1
     /\ UNCHANGED m_jobRx

\* NotifyDataRecv, which runs the sink's callback if it has set one.
\* m_rxAvailable loses a packet on delivery and regains those read.
NotifyDataRecv(buffer) ==
  \/ /\ reading
     /\ HandleRead(buffer)
     /\ m_rxAvailable' = (m_rxAvailable - 1 + Len(buffer)) % RxModulus
  \/ /\ ~reading
     /\ m_rxBuffer' = buffer
     /\ m_rxAvailable' = (m_rxAvailable + (RxModulus - 1)) % RxModulus
     /\ UNCHANGED m_jobRx

\* A completed aggregation: deliver it unless it is a duplicate, and in both
\* cases schedule the ACK.  The guard m_rxAvailable - size >= 0 compares an
\* unsigned value with 0: it is always true, so no packet is ever dropped.
Complete(p) ==
  /\ Len(ackEvents) < MaxAckEvents
  /\ ackEvents' = Append(ackEvents, KeyOf(p))
  /\ \/ /\ IsDuplicatePacket(p.jobId, p.seqNum)
        /\ UNCHANGED <<m_rcvWindows, m_rxBuffer, m_rxAvailable, m_jobRx,
                       delivered>>
     \/ /\ ~IsDuplicatePacket(p.jobId, p.seqNum)
        /\ m_rcvWindows' =
             [m_rcvWindows EXCEPT ![p.jobId] = UpdateRcvWindow(@, p.seqNum)]
        /\ delivered' = Append(delivered, p)
        /\ NotifyDataRecv(Append(m_rxBuffer, p))

\* JobAggregator::ProcessPacket.
ProcessPacket(agg, flat, data) ==
  IF flat \subseteq agg.flat
  THEN agg
  ELSE [flat |-> agg.flat \cup flat, data |-> agg.data \cup data]

\* Mutants: the map is keyed by the job alone; an incomplete aggregation is
\* acknowledged too.
AggregateByJob(p) ==
  LET k   == CHOOSE key \in Key : key[1] = p.jobId
      agg == ProcessPacket(m_aggregators[k], GetFlatBitmap(p), p.data)
  IN  \/ /\ agg.flat = JobTreeMap[p.jobId].expectedFlatBitmap
         /\ m_aggregators' = [m_aggregators EXCEPT ![k] = NoAggregator]
         /\ Complete([p EXCEPT !.data = agg.data])
      \/ /\ agg.flat # JobTreeMap[p.jobId].expectedFlatBitmap
         /\ m_aggregators' = [m_aggregators EXCEPT ![k] = agg]
         /\ UNCHANGED <<m_rcvWindows, m_rxBuffer, m_rxAvailable, ackEvents,
                        m_jobRx, delivered>>

AggregateAckingParts(p) ==
  /\ m_aggregators' = [m_aggregators EXCEPT ![KeyOf(p)] =
                         ProcessPacket(@, GetFlatBitmap(p), p.data)]
  /\ Len(ackEvents) < MaxAckEvents
  /\ ackEvents' = Append(ackEvents, KeyOf(p))
  /\ UNCHANGED <<m_rcvWindows, m_rxBuffer, m_rxAvailable, m_jobRx, delivered>>

\* ATPSocket::AggregatePacket: the packet the aggregator stored first is the
\* one delivered; what matters of it is its key and whose data it sums up.
AggregatePacket(p) ==
  LET k   == KeyOf(p)
      agg == ProcessPacket(m_aggregators[k], GetFlatBitmap(p), p.data)
  IN  \/ /\ agg.flat = JobTreeMap[p.jobId].expectedFlatBitmap
         /\ m_aggregators' = [m_aggregators EXCEPT ![k] = NoAggregator]
         /\ Complete([p EXCEPT !.data = agg.data])
      \/ /\ agg.flat # JobTreeMap[p.jobId].expectedFlatBitmap
         /\ m_aggregators' = [m_aggregators EXCEPT ![k] = agg]
         /\ UNCHANGED <<m_rcvWindows, m_rxBuffer, m_rxAvailable, ackEvents,
                        m_jobRx, delivered>>

\* ATPSocket::ForwardUp on a data packet.  A packet that comes when receiving
\* is shut down or whose job has no tree is dropped: nothing changes.
ForwardUp(p) ==
  /\ ~m_shutdownRecv
  /\ p.jobId \in DOMAIN JobTreeMap
  /\ \/ /\ GetFlatBitmap(p) = JobTreeMap[p.jobId].expectedFlatBitmap
        /\ Complete(p)
        /\ UNCHANGED m_aggregators
     \/ /\ GetFlatBitmap(p) # JobTreeMap[p.jobId].expectedFlatBitmap
        /\ AggregatePacket(p)
  /\ UNCHANGED <<m_shutdownRecv, reading, acked>>

\* A scheduled SendMultiAck fires.  Without an address nothing is sent.
SendMultiAck ==
  /\ ackEvents # <<>>
  /\ ackEvents' = Tail(ackEvents)
  /\ acked' = IF Head(ackEvents)[1] \in AddressMap
              THEN acked \cup {Head(ackEvents)} ELSE acked
  /\ UNCHANGED <<m_aggregators, m_rcvWindows, m_rxBuffer, m_rxAvailable,
                 m_shutdownRecv, reading, m_jobRx, delivered>>

\* ATPPacketSink::StartApplication sets the callback; what is in the buffer
\* stays there until the next delivery notifies it.
StartApplication ==
  /\ ~reading /\ ~m_shutdownRecv
  /\ reading' = TRUE
  /\ UNCHANGED <<m_aggregators, m_rcvWindows, m_rxBuffer, m_rxAvailable,
                 m_shutdownRecv, ackEvents, m_jobRx, delivered, acked>>

\* ATPPacketSink::StopApplication closes the socket.  CancelAllTimers holds
\* only the handle of the ACK scheduled last: the ones before it still fire.
StopApplication ==
  /\ reading
  /\ reading' = FALSE
  /\ m_shutdownRecv' = TRUE
  /\ ackEvents' = SubSeq(ackEvents, 1, Len(ackEvents) - 1)
  /\ UNCHANGED <<m_aggregators, m_rcvWindows, m_rxBuffer, m_rxAvailable,
                 m_jobRx, delivered, acked>>

Next ==
  \/ \E p \in Arrivals : ForwardUp(p)
  \/ SendMultiAck
  \/ StartApplication
  \/ StopApplication

Spec == Init /\ [][Next]_vars
-----------------------------------------------------------------------------
TypeOK ==
  /\ m_aggregators \in
       [Key -> [flat : SUBSET Uint32Bits, data : SUBSET Contribution]]
  /\ m_rcvWindows \in
       [Jobs -> [rcvNext : Nat, outOfOrderSeqs : SUBSET SeqNums]]
  /\ m_rxBuffer \in Seq(Packet)
  /\ m_rxAvailable \in Nat
  /\ m_shutdownRecv \in BOOLEAN
  /\ ackEvents \in Seq(Key)
  /\ reading \in BOOLEAN
  /\ m_jobRx \in [Jobs -> Nat]
  /\ delivered \in Seq(Packet)
  /\ acked \subseteq Key

IsDelivered(k) == \E i \in DOMAIN delivered : KeyOf(delivered[i]) = k

\* The application gets every (jobId, seqNum) at most once, however often
\* full results, partial results and single packets of it arrive again and
\* in whatever order: IsDuplicatePacket and UpdateRcvWindow agree.
AtMostOnce ==
  \A i, k \in DOMAIN delivered :
    KeyOf(delivered[i]) = KeyOf(delivered[k]) => i = k

\* What is delivered sums up every worker's part of that sequence number and
\* nothing else, whether a switch completed the aggregation or the parameter
\* server did from parts.
DeliveredComplete ==
  \A i \in DOMAIN delivered :
    LET p == delivered[i] IN
    p.data = JobTreeMap[p.jobId].expectedFlatBitmap \X {p.seqNum}

\* An ACK is scheduled, and sent, only for what has been delivered: a sender
\* that drops an acknowledged packet loses nothing.
AckImpliesDelivered ==
  /\ \A i \in DOMAIN ackEvents : IsDelivered(ackEvents[i])
  /\ \A k \in acked : IsDelivered(k)

\* The sink's per-job count and the buffer together account for every
\* delivered packet, whenever the sink starts or stops reading.
SinkCountExact ==
  \A j \in Jobs : m_jobRx[j] + OfJob(m_rxBuffer, j) = OfJob(delivered, j)
=============================================================================
