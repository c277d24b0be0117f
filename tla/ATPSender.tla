------------------------------ MODULE ATPSender ------------------------------
(***************************************************************************)
(* A worker: an ATPBulkSendApplication and the sending half of its         *)
(* ATPSocket, with the two timers of the socket, driven by ACKs that may   *)
(* come late, twice or in any order, and by a coordinator that changes how *)
(* much the application may send.                                          *)
(***************************************************************************)
EXTENDS ATPTxBuffer

CONSTANTS
  BufferSize,   \* m_bufferSize, in packets
  InitCwnds,    \* the windows SetInitCwnd is called with; 1 is the default
  MaxCwnd,      \* m_maxCwnd, in packets
  Limits,       \* m_maxBytes in packets, of SetMaxBytes; 0 is no limit
  MaxPackets    \* bound on the packets the application creates

VARIABLES
  started,            \* StartApplication has been called
  m_connected,        \* of the application; the socket's, once set, stays so
  m_maxBytes,         \* in packets
  m_totBytes,         \* packets given to the socket
  m_seqNum,           \* sequence number of the last packet created
  m_unsentPacket,     \* the sequence number of the packet refused, or 0
  seqNums,            \* the sequence numbers in the tags of the packets the
                      \* buffer took, in the order of their packet ids
  tx,                 \* m_txBuffer
  m_shutdownSend,
  m_sendWindowDataEvent,     \* is the event pending?
  m_retxTimeoutCheckEvent,   \* is the event pending?
  acks                \* history: the sequence numbers acknowledged so far

app == <<started, m_connected, m_maxBytes, m_totBytes, m_seqNum, m_unsentPacket,
         seqNums>>
timers == <<m_sendWindowDataEvent, m_retxTimeoutCheckEvent>>
vars == <<app, tx, m_shutdownSend, timers, acks>>

ASSUME SenderAssumption ==
  /\ BufferSize \in Nat \ {0}
  /\ MaxCwnd \in Nat \ {0}
  /\ InitCwnds \subseteq 1..MaxCwnd
  /\ Limits \subseteq Nat
  /\ MaxPackets \in Nat

Init ==
  /\ started = FALSE
  /\ m_connected = FALSE
  /\ m_maxBytes \in Limits
  /\ m_totBytes = 0
  /\ m_seqNum = 0
  /\ m_unsentPacket = 0
  /\ seqNums = <<>>
  /\ \E w \in InitCwnds : tx = NewBuffer(w)
  /\ m_shutdownSend = FALSE
  /\ m_sendWindowDataEvent = FALSE
  /\ m_retxTimeoutCheckEvent = FALSE
  /\ acks = {}
-----------------------------------------------------------------------------
\* ATPBulkSendApplication::SendData with the calls of ATPSocket::Send it
\* makes, on buffer t and with the event pending or not: it fills the buffer
\* up to its limit, and keeps the packet the full buffer refused.
Wanted(limit) ==
  LET end == IF limit = 0 THEN MaxPackets ELSE limit
  IN  IF m_totBytes < end THEN end - m_totBytes ELSE 0

\* The sequence number in the tag of the k-th packet the loop offers: a packet
\* refused before goes first, every other one is created with m_seqNum++.
Offered(k) ==
  IF m_unsentPacket = 0 THEN m_seqNum + k
  ELSE IF k = 1 THEN m_unsentPacket ELSE m_seqNum + k - 1

\* Mutant: the refused packet is thrown away, and created anew the next time.
SendDataDropping(t, limit, event) ==
  LET room   == Room(t, BufferSize)
      wanted == Wanted(limit)
      n      == IF room < wanted THEN room ELSE wanted
      tries  == IF n < wanted THEN n + 1 ELSE n
  IN  /\ tx' = AddPackets(t, n)
      /\ seqNums' = seqNums \o [k \in 1..n |-> Offered(k)]
      /\ m_totBytes' = m_totBytes + n
      /\ m_sendWindowDataEvent' = (event \/ n > 0)
      /\ m_seqNum' = m_seqNum + tries
      /\ m_unsentPacket' = 0

SendData(t, limit, event) ==
  LET room   == Room(t, BufferSize)
      wanted == Wanted(limit)
      n      == IF room < wanted THEN room ELSE wanted
      tries  == IF n < wanted THEN n + 1 ELSE n
      reused == IF m_unsentPacket # 0 /\ tries > 0 THEN 1 ELSE 0
  IN  /\ tx' = AddPackets(t, n)
      /\ seqNums' = seqNums \o [k \in 1..n |-> Offered(k)]
      /\ m_totBytes' = m_totBytes + n
      /\ m_sendWindowDataEvent' = (event \/ n > 0)
      /\ m_seqNum' = m_seqNum + tries - reused
      /\ m_unsentPacket' = IF n < wanted THEN Offered(n + 1)
                           ELSE IF n > 0 THEN 0 ELSE m_unsentPacket

\* ATPSocket::Connect, which the examples call while they set a worker up: it
\* starts the timeout check and calls ConnectionSucceeded.
Connect ==
  /\ ~started /\ ~m_connected
  /\ m_connected' = TRUE
  /\ m_retxTimeoutCheckEvent' = TRUE
  /\ UNCHANGED <<started, m_maxBytes, m_totBytes, m_seqNum, m_unsentPacket,
                 seqNums, tx, m_shutdownSend, m_sendWindowDataEvent, acks>>

\* StartApplication connects a socket of its own unless it was given one that
\* is connected, and sends.
StartApplication ==
  /\ ~started
  /\ started' = TRUE
  /\ m_connected' = TRUE
  /\ m_retxTimeoutCheckEvent' = TRUE
  /\ SendData(tx, m_maxBytes, m_sendWindowDataEvent)
  /\ UNCHANGED <<m_maxBytes, m_shutdownSend, acks>>

\* StopApplication: Close cancels every timer and frees the end point, so
\* that no ACK reaches the socket any more.
StopApplication ==
  /\ started /\ m_connected
  /\ m_connected' = FALSE
  /\ m_shutdownSend' = TRUE
  /\ m_sendWindowDataEvent' = FALSE
  /\ m_retxTimeoutCheckEvent' = FALSE
  /\ UNCHANGED <<started, m_maxBytes, m_totBytes, m_seqNum, m_unsentPacket,
                 seqNums, tx, acks>>

SetMaxBytes(limit) ==
  /\ m_maxBytes' = limit
  /\ \/ m_connected /\ SendData(tx, limit, m_sendWindowDataEvent)
     \/ /\ ~m_connected
        /\ UNCHANGED <<m_totBytes, m_seqNum, m_unsentPacket, seqNums, tx,
                       m_sendWindowDataEvent>>
  /\ UNCHANGED <<started, m_connected, m_shutdownSend,
                 m_retxTimeoutCheckEvent, acks>>

\* The scheduled SendWindowData fires.
SendWindow ==
  /\ m_sendWindowDataEvent
  /\ tx' = SendWindowData(tx).tx
  /\ m_sendWindowDataEvent' = FALSE
  /\ UNCHANGED <<app, m_shutdownSend, m_retxTimeoutCheckEvent, acks>>

\* CheckRetransmitTimeout fires: the n oldest packets have timed out, among
\* them those that had done so before.  It schedules itself again.
CheckRetransmitTimeout(n) ==
  /\ m_retxTimeoutCheckEvent
  /\ n >= Expired(tx)
  /\ tx' = CheckAndMoveTimeoutPackets(tx, n).tx
  /\ UNCHANGED <<app, m_shutdownSend, timers, acks>>

\* Mutant: an ordered ACK schedules nothing.
ReceiveAckUnscheduled(id, cwnd) ==
  /\ m_connected
  /\ \/ /\ IsOrderedAck(tx, id)
        /\ SendData(ProcessCongestion(ProcessOrderedAck(tx, id), id, cwnd),
                    m_maxBytes, m_sendWindowDataEvent)
     \/ /\ ~IsOrderedAck(tx, id)
        /\ SendData(ProcessUnorderedAck(tx, id).tx, m_maxBytes,
                    m_sendWindowDataEvent)
  /\ acks' = acks \cup {id}
  /\ UNCHANGED <<started, m_connected, m_maxBytes, m_shutdownSend,
                 m_retxTimeoutCheckEvent>>

\* ReceiveAck for a packet sent before.  NotifySend runs DataSend at the end.
ReceiveAck(id, cwnd) ==
  /\ m_connected
  /\ \/ /\ IsOrderedAck(tx, id)
        /\ SendData(ProcessCongestion(ProcessOrderedAck(tx, id), id, cwnd),
                    m_maxBytes, TRUE)
     \/ /\ ~IsOrderedAck(tx, id)
        /\ SendData(ProcessUnorderedAck(tx, id).tx, m_maxBytes,
                    m_sendWindowDataEvent)
  /\ acks' = acks \cup {id}
  /\ UNCHANGED <<started, m_connected, m_maxBytes, m_shutdownSend,
                 m_retxTimeoutCheckEvent>>

Next ==
  \/ Connect
  \/ StartApplication
  \/ StopApplication
  \/ \E limit \in Limits : SetMaxBytes(limit)
  \/ SendWindow
  \/ \E n \in 1..Len(tx.m_sentQueue) : CheckRetransmitTimeout(n)
  \/ \E id \in 1..tx.m_highestSentPacketId, cwnd \in 1..MaxCwnd :
       ReceiveAck(id, cwnd)

Spec == Init /\ [][Next]_vars
-----------------------------------------------------------------------------
SentItems == [m_packetId : Nat, expired : BOOLEAN]

Buffers ==
  [m_pendingQueue : Seq(Nat), m_sentQueue : Seq(SentItems),
   m_packetNum : Nat, m_leftBound : Nat, m_lcw : 1..MaxCwnd,
   m_highestSentPacketId : Nat, m_roundEndPacketId : Nat]

TypeOK ==
  /\ started \in BOOLEAN
  /\ m_connected \in BOOLEAN
  /\ m_maxBytes \in Limits
  /\ m_totBytes \in Nat
  /\ m_seqNum \in Nat
  /\ m_unsentPacket \in Nat
  /\ seqNums \in Seq(Nat)
  /\ tx \in Buffers
  /\ m_shutdownSend \in BOOLEAN
  /\ m_sendWindowDataEvent \in BOOLEAN
  /\ m_retxTimeoutCheckEvent \in BOOLEAN
  /\ acks \subseteq Nat

SentIds == {tx.m_sentQueue[k].m_packetId : k \in DOMAIN tx.m_sentQueue}

\* The sequence number in a packet's tag is the packet id the buffer gave it,
\* although the application counts the packets it creates, the buffer those it
\* takes, and a packet refused by a full buffer is offered again later, perhaps
\* under another limit: ACKs name the number, the queues are searched for the id.
SeqNumIsPacketId ==
  /\ Len(seqNums) = tx.m_packetNum
  /\ \A id \in DOMAIN seqNums : seqNums[id] = id

InOrder(t) ==
  /\ t.m_leftBound <= t.m_highestSentPacketId
  /\ \A k \in DOMAIN t.m_pendingQueue :
       t.m_pendingQueue[k] = t.m_highestSentPacketId + k
  /\ t.m_packetNum = t.m_highestSentPacketId + Len(t.m_pendingQueue)
  /\ \A k \in DOMAIN t.m_sentQueue :
       t.m_sentQueue[k].m_packetId \in
         (t.m_leftBound + 1)..t.m_highestSentPacketId
  /\ \A j, k \in DOMAIN t.m_sentQueue :
       j < k => t.m_sentQueue[j].m_packetId < t.m_sentQueue[k].m_packetId

\* The queues hold consecutive stretches of the packets in order: what is
\* pending follows what was ever sent, and what may still be retransmitted
\* lies between the window's left bound and the last packet sent.
QueuesInOrder == InOrder(tx)

\* No wake-up is lost: whenever a pending packet lies in the window of a
\* connected socket, an event that will send it is scheduled, whichever of
\* Send, ReceiveAck and SendWindowData ran last.
NoLostWakeup ==
  m_connected /\ InWindow(tx) > 0 => m_sendWindowDataEvent

\* No packet is sent further ahead of the left bound than the largest window.
OutstandingBounded ==
  tx.m_highestSentPacketId <= tx.m_leftBound + MaxCwnd

\* Everything that left m_sentQueue was acknowledged or skipped by an ACK for
\* a later packet; so while the oldest packet is not acknowledged and none
\* behind it is, the sender still holds it and will retransmit it.
UnackedRetransmitted ==
  \A id \in 1..tx.m_highestSentPacketId :
    (\A a \in acks : a < id) => id \in SentIds

\* The left bound never moves back, whatever old ACKs arrive.
LeftBoundMonotone == [][tx.m_leftBound <= tx'.m_leftBound]_vars
=============================================================================
