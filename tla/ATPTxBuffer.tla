----------------------------- MODULE ATPTxBuffer -----------------------------
(***************************************************************************)
(* class ATPTxBuffer (atp-tx-buffer.{h,cc}) and the three handlers of      *)
(* ATPSocket that drive it: SendWindowData, ReceiveAck and                 *)
(* CheckRetransmitTimeout.  Each operator takes a buffer and returns the   *)
(* buffer afterwards, or that and the packets handed to DoSend.            *)
(*                                                                         *)
(* A packet is its m_packetId: all packets of a sender have one size, and  *)
(* room is counted in packets.  m_retxQueue is no part of the state: who   *)
(* fills it calls Retransmit, which empties it, before returning.          *)
(***************************************************************************)
EXTENDS Integers, Sequences, FiniteSets

\* An entry of m_sentQueue.  "expired" stands for m_lastSentTime: whether a
\* timeout check has found the packet too old.  Nothing ever makes it young
\* again, since no retransmission writes m_lastSentTime.
SentItem(id) == [m_packetId |-> id, expired |-> FALSE]

\* A new buffer, with SetLCW and SetACW called with the initial window.
NewBuffer(initCwnd) ==
  [m_pendingQueue |-> <<>>, m_sentQueue |-> <<>>, m_packetNum |-> 0,
   m_leftBound |-> 0, m_lcw |-> initCwnd, m_highestSentPacketId |-> 0,
   m_roundEndPacketId |-> 0]

\* AddPacket, n times: the packets are numbered on.
AddPackets(tx, n) ==
  [tx EXCEPT !.m_pendingQueue = @ \o [k \in 1..n |-> tx.m_packetNum + k],
             !.m_packetNum = @ + n]

\* The room AddPacket finds in a buffer of m_bufferSize packets.  A packet
\* takes room only until it is sent.
Room(tx, m_bufferSize) == m_bufferSize - Len(tx.m_pendingQueue)

\* SendPacket, n times.
SendPackets(tx, n) ==
  [tx EXCEPT
     !.m_pendingQueue = SubSeq(@, n + 1, Len(@)),
     !.m_sentQueue = @ \o [k \in 1..n |-> SentItem(tx.m_pendingQueue[k])],
     !.m_highestSentPacketId =
        IF n > 0 /\ tx.m_pendingQueue[n] > @ THEN tx.m_pendingQueue[n] ELSE @]

\* What a handler hands to DoSend: new packets or copies, the latter with the
\* tag's resend bit when they come from the timeout check.
Sent(id) == [m_packetId |-> id, resend |-> FALSE]
Resent(id) == [m_packetId |-> id, resend |-> TRUE]

\* How many entries of a queue, from its front, have an id up to bound: where
\* a loop stops that pops while the front is within it.
FrontUpTo(ids, bound) ==
  CHOOSE n \in 0..Len(ids) :
    /\ \A k \in 1..n : ids[k] <= bound
    /\ n < Len(ids) => ids[n + 1] > bound

\* Mutant: one packet beyond the window.
InWindowPlusOne(tx) ==
  FrontUpTo(tx.m_pendingQueue, tx.m_leftBound + tx.m_lcw + 1)

\* How many packets SendWindowData sends: the pending ones in the window, and
\* one at most when the window is one packet.
InWindow(tx) ==
  LET n == FrontUpTo(tx.m_pendingQueue, tx.m_leftBound + tx.m_lcw)
  IN  IF tx.m_lcw = 1 /\ n > 1 THEN 1 ELSE n

SendWindowData(tx) ==
  LET n == InWindow(tx) IN
  [tx |-> SendPackets(tx, n),
   out |-> [k \in 1..n |-> Sent(tx.m_pendingQueue[k])]]

IsOrderedAck(tx, id) ==
  tx.m_sentQueue # <<>> /\ Head(tx.m_sentQueue).m_packetId = id

\* ProcessCongestion: the window changes at most once per round trip, when
\* the ACK of the packet that was the last one sent at its beginning comes.
\* How it changes (ECN, collision and straggler statistics in floating point)
\* is left open: cwnd is any window SetMaxBufferSize and the floor of 1 allow.
EndsRound(tx, id) ==
  id >= (IF tx.m_roundEndPacketId = 0 THEN tx.m_highestSentPacketId
         ELSE tx.m_roundEndPacketId)

\* Mutant: the window has no floor.
ProcessCongestionNoFloor(tx, id, cwnd) ==
  IF EndsRound(tx, id)
  THEN [tx EXCEPT !.m_roundEndPacketId = tx.m_highestSentPacketId,
                  !.m_lcw = cwnd - 1]
  ELSE tx

ProcessCongestion(tx, id, cwnd) ==
  IF EndsRound(tx, id)
  THEN [tx EXCEPT !.m_roundEndPacketId = tx.m_highestSentPacketId,
                  !.m_lcw = cwnd]
  ELSE [tx EXCEPT !.m_roundEndPacketId =
                    IF @ = 0 THEN tx.m_highestSentPacketId ELSE @]

\* Mutant: the acknowledged packet stays in the queue.
ProcessOrderedAckKeeping(tx, id) == [tx EXCEPT !.m_leftBound = id]

ProcessOrderedAck(tx, id) ==
  [tx EXCEPT !.m_sentQueue = Tail(@), !.m_leftBound = id]

\* Mutant: every ACK moves the left bound.
ProcessUnorderedAckMoving(tx, id) ==
  [tx |-> [tx EXCEPT !.m_leftBound = id], out |-> <<>>]

\* An ACK ahead of the oldest unacknowledged packet takes everything up to it
\* out of m_sentQueue; what it skipped is sent once more, as a plain copy.
\* One behind it, or one that finds the queue empty, changes nothing.  The
\* queue is in order, so those up to id are at its front.
ProcessUnorderedAck(tx, id) ==
  LET ids     == [k \in DOMAIN tx.m_sentQueue |-> tx.m_sentQueue[k].m_packetId]
      passed  == FrontUpTo(ids, id)
      skipped == FrontUpTo(ids, id - 1)
  IN  IF tx.m_sentQueue # <<>> /\ id > Head(tx.m_sentQueue).m_packetId
      THEN [tx |-> [tx EXCEPT !.m_sentQueue = SubSeq(@, passed + 1, Len(@))],
            out |-> [k \in 1..skipped |-> Sent(ids[k])]]
      ELSE [tx |-> tx, out |-> <<>>]

\* CheckAndMoveTimeoutPackets when the n oldest packets in m_sentQueue have
\* timed out: copies of them are sent with the resend bit, and they stay.
Expired(tx) ==
  Cardinality({k \in DOMAIN tx.m_sentQueue : tx.m_sentQueue[k].expired})

\* Mutants: the packets are moved instead of copied; the copies lack the
\* resend bit.
MoveTimeoutPackets(tx, n) ==
  [tx |-> [tx EXCEPT !.m_sentQueue = SubSeq(@, n + 1, Len(@))],
   out |-> [k \in 1..n |-> Resent(tx.m_sentQueue[k].m_packetId)]]

CheckAndCopyUnmarked(tx, n) ==
  [tx |-> tx, out |-> [k \in 1..n |-> Sent(tx.m_sentQueue[k].m_packetId)]]

CheckAndMoveTimeoutPackets(tx, n) ==
  [tx |-> [tx EXCEPT !.m_sentQueue =
             [k \in DOMAIN @ |-> [@[k] EXCEPT !.expired = (k <= n)]]],
   out |-> [k \in 1..n |-> Resent(tx.m_sentQueue[k].m_packetId)]]
=============================================================================
