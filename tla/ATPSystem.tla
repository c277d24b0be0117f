------------------------------ MODULE ATPSystem ------------------------------
(***************************************************************************)
(* One job on a spine-leaf network: its workers (ATPTxBuffer), the leaf    *)
(* switch above each group of them and a second switch on the way to the   *)
(* parameter server (ATPAggregator), the parameter server (ATPReceiver),   *)
(* and the links between them, which keep the order of their packets, are  *)
(* as slow as they like and may lose some.                                 *)
(*                                                                         *)
(*   worker --up--> leaf --leafUp--> core --coreUp--> parameter server     *)
(*   worker <--ackWorker-- leaf <--ackLeaf-- core <--ackCore-- server      *)
(*                                                                         *)
(* A worker is named by its place in the flat bitmap of the job.  It has   *)
(* all its packets in its send buffer from the start.  An event that       *)
(* SendWindowData is pending is not kept: ATPSender shows that one is      *)
(* whenever a packet can be sent, and without one it has no effect.        *)
(***************************************************************************)
EXTENDS ATPTxBuffer, ATPAggregator

CONSTANTS
  FanIns,        \* FanIns[l]: the workers under leaf l
  NumPackets,    \* packets per worker
  Windows,       \* the congestion windows ProcessCongestion may choose
  Slots,         \* m_maxAggregators of every switch
  Hierarchical,  \* the second switch aggregates what the leaves send
  UpCapacity,    \* bound on the packets on a worker's link to its leaf
  LinkCapacity,  \* bound on the packets on any other link
  Faults,        \* the kinds of faults: "data" and "ack" packets lost,
                 \* "early" timeouts of packets still on their way
  MaxFaults      \* bound on the faults

Job == 1
Leaves == DOMAIN FanIns
Offset(l) == LET sum[k \in 0..Len(FanIns)] ==
                   IF k = 0 THEN 0 ELSE sum[k - 1] + FanIns[k]
             IN  sum[l - 1]
Under(l) == Offset(l)..(Offset(l) + FanIns[l] - 1)
Workers == UNION {Under(l) : l \in Leaves}
LeafOf(w) == CHOOSE l \in Leaves : w \in Under(l)
SeqNums == 1..NumPackets
MaxWindow == CHOOSE m \in Windows : \A c \in Windows : c <= m

VARIABLES
  tx,                            \* worker -> its ATPTxBuffer
  slots,                         \* leaf -> m_aggregators of its switch
  coreSlots,                     \* m_aggregators of the second switch
  up, leafUp, coreUp,            \* data on the links towards the server
  ackCore, ackLeaf, ackWorker,   \* sequence numbers of the ACKs under way
  faults,                        \* counter for the bound
  \* the parameter server:
  m_aggregators, m_rcvWindows, m_rxBuffer, m_rxAvailable, m_shutdownRecv,
  ackEvents, reading, m_jobRx, delivered, acked

data == <<up, leafUp, coreUp>>
acks == <<ackCore, ackLeaf, ackWorker>>
server == <<m_aggregators, m_rcvWindows, m_rxBuffer, m_rxAvailable,
            m_shutdownRecv, ackEvents, reading, m_jobRx, delivered, acked>>
vars == <<tx, slots, coreSlots, data, acks, faults, server>>

JobTree == INSTANCE ATPJobTree
Tree == JobTree!InstallJobTree(FanIns)

PS == INSTANCE ATPReceiver WITH
        Jobs <- {Job}, JobTreeMap <- [j \in {Job} |-> Tree],
        AddressMap <- {Job}, Arrivals <- {}, RxBufferSize <- 2000,
        RxModulus <- 2^30, MaxAckEvents <- LinkCapacity

ASSUME SystemAssumption ==
  /\ FanIns \in Seq(Nat \ {0})
  /\ NumPackets \in Nat
  /\ Windows \subseteq Nat \ {0}
  /\ \E m \in Windows : \A c \in Windows : c <= m
  /\ Slots \in Nat \ {0}
  /\ Hierarchical \in BOOLEAN
  /\ UpCapacity \in Nat \ {0} /\ LinkCapacity \in Nat \ {0}
  /\ Faults \subseteq {"data", "ack", "early"} /\ MaxFaults \in Nat

\* The workers fit into the 32-bit bitmaps.
WorkersFit == Workers \subseteq JobTree!Uint32Bits

\* The names the workers have here are the positions at which
\* ConvertToFlatBitmap puts them, and these fit: a consequence of WorkersFit.
FlatNumbering ==
  /\ Len(FanIns) <= 32
  /\ \A l \in Leaves :
       /\ Offset(l) \in Nat
       /\ Offset(l) = JobTree!WorkerOffset(Tree.branches, l - 1)
       /\ Under(l) \subseteq JobTree!Uint32Bits

\* Where HashToIndex puts the packets of the job.  The multiplier is odd, so
\* the sequence numbers of one job take turns over one or two slots.
HashToIndex(s) == s % Slots

Init ==
  /\ \E initCwnd \in Windows :
       tx = [w \in Workers |-> AddPackets(NewBuffer(initCwnd), NumPackets)]
  /\ slots = [l \in Leaves |-> [i \in 0..(Slots - 1) |-> Reset]]
  /\ coreSlots = [i \in 0..(Slots - 1) |-> Reset]
  /\ up = [w \in Workers |-> <<>>]
  /\ leafUp = [l \in Leaves |-> <<>>]
  /\ coreUp = <<>>
  /\ ackCore = <<>>
  /\ ackLeaf = [l \in Leaves |-> <<>>]
  /\ ackWorker = [w \in Workers |-> <<>>]
  /\ faults = 0
  /\ PS!NewSocket /\ reading = TRUE
-----------------------------------------------------------------------------
HasRoom(link) == Len(link) < LinkCapacity

\* A fault of some kind happens.
Fault(kind) == kind \in Faults /\ faults < MaxFaults /\ faults' = faults + 1

\* The tag the application of worker w gives packet o.m_packetId; o.resend is
\* set by the timeout check.
Tagged(w, o) ==
  LET l == LeafOf(w) IN
  [jobId |-> Job, seqNum |-> o.m_packetId,
   bitmap0 |-> {w - Offset(l)}, bitmap1 |-> {l - 1},
   fanin0 |-> FanIns[l], fanin1 |-> Len(FanIns), edge |-> 0,
   resend |-> o.resend, collision |-> FALSE, isAck |-> FALSE,
   data |-> {<<w, o.m_packetId>>}]

\* The tag of an ACK.  What SendMultiAck copies into it besides the key (ECN,
\* collision, last bitmaps, fan-ins) is read by congestion control only.
AckTag(s) ==
  [jobId |-> Job, seqNum |-> s, bitmap0 |-> {}, bitmap1 |-> {},
   fanin0 |-> 0, fanin1 |-> 0, edge |-> 0,
   resend |-> FALSE, collision |-> FALSE, isAck |-> TRUE, data |-> {}]

\* A handler of worker w leaves the buffer and the packets in r.
Transmit(w, r) ==
  /\ Len(up[w]) + Len(r.out) <= UpCapacity
  /\ tx' = [tx EXCEPT ![w] = r.tx]
  /\ up' = [up EXCEPT ![w] = @ \o [k \in DOMAIN r.out |-> Tagged(w, r.out[k])]]
  /\ UNCHANGED <<leafUp, coreUp>>

SendWindow(w) ==
  /\ InWindow(tx[w]) > 0
  /\ Transmit(w, SendWindowData(tx[w]))
  /\ UNCHANGED <<slots, coreSlots, acks, faults, server>>

\* A timeout while packets or ACKs are still on their way is premature.
Quiet ==
  /\ \A w \in Workers : up[w] = <<>> /\ ackWorker[w] = <<>>
  /\ \A l \in Leaves : leafUp[l] = <<>> /\ ackLeaf[l] = <<>>
  /\ coreUp = <<>> /\ ackCore = <<>> /\ ackEvents = <<>>

CheckRetransmitTimeout(w, n) ==
  /\ n >= Expired(tx[w])
  /\ \/ Quiet /\ UNCHANGED faults
     \/ ~Quiet /\ Fault("early")
  /\ Transmit(w, CheckAndMoveTimeoutPackets(tx[w], n))
  /\ UNCHANGED <<slots, coreSlots, acks, server>>

\* The leaf switch forwards the head of worker w's link.
LeafForward(w) ==
  LET l == LeafOf(w)
      p == Head(up[w])
      i == HashToIndex(p.seqNum)
      r == FilterPacket(slots[l][i], p, Hierarchical)
  IN  /\ up[w] # <<>>
      /\ HasRoom(leafUp[l])
      /\ up' = [up EXCEPT ![w] = Tail(@)]
      /\ slots' = [slots EXCEPT ![l][i] = r.slot]
      /\ leafUp' = [leafUp EXCEPT ![l] = @ \o r.out]
      /\ UNCHANGED <<tx, coreSlots, coreUp, acks, faults, server>>

CoreForward(l) ==
  LET p == Head(leafUp[l])
      i == HashToIndex(p.seqNum)
      r == FilterPacket(coreSlots[i], p, Hierarchical)
  IN  /\ leafUp[l] # <<>>
      /\ HasRoom(coreUp)
      /\ leafUp' = [leafUp EXCEPT ![l] = Tail(@)]
      /\ coreSlots' = [coreSlots EXCEPT ![i] = r.slot]
      /\ coreUp' = coreUp \o r.out
      /\ UNCHANGED <<tx, slots, up, acks, faults, server>>

\* What the parameter server sees of a packet.
Received(p) == [jobId |-> p.jobId, seqNum |-> p.seqNum, bitmap0 |-> p.bitmap0,
                bitmap1 |-> p.bitmap1, data |-> p.data]

ServerReceive ==
  /\ coreUp # <<>>
  /\ PS!ForwardUp(Received(Head(coreUp)))
  /\ coreUp' = Tail(coreUp)
  /\ UNCHANGED <<tx, slots, coreSlots, up, leafUp, acks, faults>>

ServerAck ==
  /\ HasRoom(ackCore)
  /\ PS!SendMultiAck
  /\ ackCore' = Append(ackCore, Head(ackEvents)[2])
  /\ UNCHANGED <<tx, slots, coreSlots, data, ackLeaf, ackWorker, faults>>

\* An ACK frees the slot it meets and is copied to every branch below.
CoreAck ==
  LET s == Head(ackCore)
      i == HashToIndex(s)
  IN  /\ ackCore # <<>>
      /\ \A l \in Leaves : HasRoom(ackLeaf[l])
      /\ ackCore' = Tail(ackCore)
      /\ coreSlots' = [coreSlots EXCEPT ![i] =
                         FilterPacket(@, AckTag(s), Hierarchical).slot]
      /\ ackLeaf' = [l \in Leaves |-> Append(ackLeaf[l], s)]
      /\ UNCHANGED <<tx, slots, data, ackWorker, faults, server>>

LeafAck(l) ==
  LET s == Head(ackLeaf[l])
      i == HashToIndex(s)
  IN  /\ ackLeaf[l] # <<>>
      /\ \A w \in Under(l) : HasRoom(ackWorker[w])
      /\ ackLeaf' = [ackLeaf EXCEPT ![l] = Tail(@)]
      /\ slots' = [slots EXCEPT ![l][i] =
                     FilterPacket(@, AckTag(s), Hierarchical).slot]
      /\ ackWorker' = [w \in Workers |-> IF w \in Under(l)
                                         THEN Append(ackWorker[w], s)
                                         ELSE ackWorker[w]]
      /\ UNCHANGED <<tx, coreSlots, data, ackCore, faults, server>>

\* ReceiveAck at worker w.
WorkerAck(w, cwnd) ==
  LET s == Head(ackWorker[w])
      t == tx[w]
  IN  /\ ackWorker[w] # <<>>
      /\ \/ /\ IsOrderedAck(t, s)
            /\ Transmit(w, [tx |-> ProcessCongestion(ProcessOrderedAck(t, s), s, cwnd),
                            out |-> <<>>])
         \/ ~IsOrderedAck(t, s) /\ Transmit(w, ProcessUnorderedAck(t, s))
      /\ ackWorker' = [ackWorker EXCEPT ![w] = Tail(@)]
      /\ UNCHANGED <<slots, coreSlots, ackCore, ackLeaf, faults, server>>

\* A link drops a packet.
Lose(link) == link # <<>> /\ link' = Tail(link)
LoseOneOf(links) ==
  \E x \in DOMAIN links : /\ links[x] # <<>>
                          /\ links' = [links EXCEPT ![x] = Tail(@)]

LoseData ==
  /\ Fault("data")
  /\ \/ LoseOneOf(up) /\ UNCHANGED <<leafUp, coreUp>>
     \/ LoseOneOf(leafUp) /\ UNCHANGED <<up, coreUp>>
     \/ Lose(coreUp) /\ UNCHANGED <<up, leafUp>>
  /\ UNCHANGED <<tx, slots, coreSlots, acks, server>>

LoseAck ==
  /\ Fault("ack")
  /\ \/ Lose(ackCore) /\ UNCHANGED <<ackLeaf, ackWorker>>
     \/ LoseOneOf(ackLeaf) /\ UNCHANGED <<ackCore, ackWorker>>
     \/ LoseOneOf(ackWorker) /\ UNCHANGED <<ackCore, ackLeaf>>
  /\ UNCHANGED <<tx, slots, coreSlots, data, server>>

Timeout(w) ==
  \E n \in 1..Len(tx[w].m_sentQueue) : CheckRetransmitTimeout(w, n)
AckArrives(w) == \E cwnd \in Windows : WorkerAck(w, cwnd)

Next ==
  \/ \E w \in Workers :
       SendWindow(w) \/ Timeout(w) \/ LeafForward(w) \/ AckArrives(w)
  \/ \E l \in Leaves : CoreForward(l) \/ LeafAck(l)
  \/ ServerReceive \/ ServerAck \/ CoreAck
  \/ LoseData \/ LoseAck

\* Every event the simulator has scheduled is run: a packet on a link
\* arrives, and the timeout check of a connected socket comes round again.
\* Strong fairness for the timeouts, because the model lets them wait for a
\* quiet network, which another worker's timeout disturbs; in the code the
\* time of a check does not depend on other workers.
Fairness ==
  /\ \A w \in Workers :
       /\ WF_vars(SendWindow(w))
       /\ SF_vars(Timeout(w))
       /\ WF_vars(LeafForward(w))
       /\ WF_vars(AckArrives(w))
  /\ \A l \in Leaves : WF_vars(CoreForward(l)) /\ WF_vars(LeafAck(l))
  /\ WF_vars(ServerReceive) /\ WF_vars(ServerAck) /\ WF_vars(CoreAck)

Spec == Init /\ [][Next]_vars
FairSpec == Spec /\ Fairness
-----------------------------------------------------------------------------
InFlight(link) == {link[k] : k \in DOMAIN link}
DataInFlight ==
  (UNION {InFlight(up[w]) : w \in Workers})
    \cup (UNION {InFlight(leafUp[l]) : l \in Leaves}) \cup InFlight(coreUp)

\* The workers the parameter server takes a packet to speak for have really
\* contributed to it: no merge on the way adds bits of another level or of
\* another leaf (case 4 of the comment on ConvertToFlatBitmap).
PacketsTruthful ==
  \A p \in DataInFlight :
    \A w \in JobTree!ConvertToFlatBitmap(Tree, p.bitmap0, p.bitmap1) :
      <<w, p.seqNum>> \in p.data

\* What is waiting in a slot of a leaf is of workers of that leaf, exactly
\* those whose bits are set.
LeafSlotsTruthful ==
  \A l \in Leaves : \A i \in DOMAIN slots[l] :
    LET slot == slots[l][i] IN
    slot.data = {<<Offset(l) + k, slot.m_seqNum>> : k \in slot.m_bitmap}

\* Bitmaps are truthful, those of packets and those of the slots, under every
\* order of fresh packets, copies, merges and ACKs.
TruthfulBitmaps == PacketsTruthful /\ LeafSlotsTruthful

\* The server delivers a sequence number only when it has every worker's
\* contribution, and only once.
DeliveredOnceAndComplete == PS!DeliveredComplete /\ PS!AtMostOnce

\* A worker's window moves over a packet, or an ACK of it is under way, only
\* when the server has delivered that packet.
AckedIsDelivered ==
  /\ \A w \in Workers : tx[w].m_leftBound > 0 =>
       PS!IsDelivered(<<Job, tx[w].m_leftBound>>)
  /\ \A w \in Workers : \A s \in InFlight(ackWorker[w]) : PS!IsDelivered(<<Job, s>>)

Forgotten(w) ==
  (1..tx[w].m_highestSentPacketId) \
     {tx[w].m_sentQueue[k].m_packetId : k \in DOMAIN tx[w].m_sentQueue}

Reduction == INSTANCE AllReduce WITH
  Window <- MaxWindow,
  submitted <- [w \in Workers |-> 1..tx[w].m_highestSentPacketId],
  result <- [s \in SeqNums |->
               UNION {delivered[k].data :
                        k \in {i \in DOMAIN delivered : delivered[i].seqNum = s}}],
  handed <- m_jobRx[Job],
  confirmed <- [w \in Workers |-> Forgotten(w)]

\* The system implements the reduction: a sequence number reaches the sink
\* once, summed over all workers that have sent it, and a worker takes it
\* out of its retransmission queue only after that or, since an unordered ACK
\* passes over packets, after a later one less than a window away.
ImplementsAllReduce == Reduction!Spec

\* Every worker learns that each of its packets was aggregated.
Confirmed(w) ==
  tx[w].m_pendingQueue = <<>> /\ tx[w].m_sentQueue = <<>>
EventuallyAllAcked == <>(\A w \in Workers : Confirmed(w))

\* Every sequence number is delivered by the server in the end.
EventuallyAllDelivered ==
  <>(\A s \in SeqNums : PS!IsDelivered(<<Job, s>>))
=============================================================================
