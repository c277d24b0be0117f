-------------------------- MODULE ATPReceiverProofs --------------------------
(***************************************************************************)
(* Proofs about the parameter server's socket and its sink, for every set  *)
(* of jobs, trees and arriving packets and every buffer size.              *)
(*                                                                         *)
(* What makes the invariant inductive is Remembered: the receive window    *)
(* takes for duplicates exactly the sequence numbers delivered, through    *)
(* every advance of rcvNext.                                               *)
(***************************************************************************)
EXTENDS ATPReceiver, FiniteSetTheorems, WellFoundedInduction, TLAPS

Windows == [rcvNext : Nat, outOfOrderSeqs : SUBSET SeqNums]

\* What waits lies behind rcvNext, and is finite, so that the loop that moves
\* rcvNext ends.
GoodWindow(win) ==
  /\ IsFiniteSet(win.outOfOrderSeqs)
  /\ \A s \in win.outOfOrderSeqs : s > win.rcvNext

Remembers(win, s) == s < win.rcvNext \/ s \in win.outOfOrderSeqs

Remembered ==
  \A j \in Jobs :
    /\ GoodWindow(m_rcvWindows[j])
    /\ \A s \in SeqNums : Remembers(m_rcvWindows[j], s) <=> IsDelivered(<<j, s>>)

IInv ==
  /\ TypeOK
  /\ Remembered
  /\ AtMostOnce
  /\ AckImpliesDelivered
  /\ SinkCountExact

\* An aggregator, and what was delivered, holds the data of the workers in its
\* bitmap, of its own sequence number.
Truthful ==
  /\ \A k \in Key : m_aggregators[k].data = m_aggregators[k].flat \X {k[2]}
  /\ DeliveredComplete
-----------------------------------------------------------------------------
(* The receive window.                                                     *)

\* A set of natural numbers that is not empty has a least element.
LEMMA LeastNat ==
  ASSUME NEW T, T \subseteq Nat, T # {}
  PROVE  \E x \in T : \A y \in T : x <= y
<1>1. PICK x \in T : \A y \in T : ~(<<y, x>> \in OpToRel(<, Nat))
  BY NatLessThanWellFounded, WFMin
<1>2. ASSUME NEW y \in T, y < x PROVE FALSE
  <2>1. <<y, x>> \in {ss \in Nat \X Nat : ss[1] < ss[2]}
    BY <1>2
  <2>2. OpToRel(<, Nat) = {ss \in Nat \X Nat : ss[1] < ss[2]}
    BY DEF OpToRel
  <2> QED
    BY <1>1, <2>1, <2>2
<1> QED
  BY <1>2

\* The loop in UpdateRcvWindow finds the first number that has not come yet.
LEMMA FirstMissingIsFirst ==
  ASSUME NEW after \in Nat, NEW ooo, IsFiniteSet(ooo)
  PROVE  LET n == FirstMissing(after, ooo) IN
         /\ n \in Nat /\ n >= after
         /\ n \notin ooo
         /\ after..(n - 1) \subseteq ooo
<1> DEFINE c == Cardinality(ooo)
           T == {n \in after..(after + c) : n \notin ooo}
<1>0. c \in Nat
  BY FS_CardinalityType
<1> HIDE DEF c
<1>1. T # {}
  <2> SUFFICES ASSUME after..(after + c) \subseteq ooo PROVE FALSE
    OBVIOUS
  <2>1. Cardinality(after..(after + c)) <= c
    BY FS_Subset DEF c
  <2>2. Cardinality(after..(after + c)) = c + 1
    BY <1>0, FS_Interval
  <2> QED
    BY <1>0, <2>1, <2>2
<1>2. T \subseteq Nat
  BY <1>0
<1> HIDE DEF T
<1>3. PICK n \in T : \A y \in T : n <= y
  BY <1>1, <1>2, LeastNat
<1> USE DEF T
<1>4. n \in after..(after + c) /\ n \notin ooo
  OBVIOUS
<1>5. ASSUME NEW m \in after..(n - 1) PROVE m \in ooo
  BY <1>0, <1>3, <1>4
<1>6. \E m \in after..(after + Cardinality(ooo)) :
        m \notin ooo /\ after..(m - 1) \subseteq ooo
  BY <1>4, <1>5 DEF c
<1>7. LET m == FirstMissing(after, ooo) IN
      /\ m \in after..(after + Cardinality(ooo))
      /\ m \notin ooo /\ after..(m - 1) \subseteq ooo
  BY <1>6 DEF FirstMissing
<1> QED
  BY <1>0, <1>7 DEF c

\* UpdateRcvWindow adds the sequence number to what the window remembers, and
\* forgets nothing.
LEMMA UpdateRemembers ==
  ASSUME NEW win \in Windows, GoodWindow(win), NEW seq \in SeqNums,
         ~Remembers(win, seq)
  PROVE  LET v == UpdateRcvWindow(win, seq) IN
         /\ v \in Windows
         /\ GoodWindow(v)
         /\ \A s \in SeqNums : Remembers(v, s) <=> Remembers(win, s) \/ s = seq
<1> DEFINE ooo == win.outOfOrderSeqs
           next == win.rcvNext
           v == UpdateRcvWindow(win, seq)
<1>0. /\ SeqNums \subseteq Nat /\ seq \in Nat /\ next \in Nat
      /\ ooo \subseteq SeqNums /\ IsFiniteSet(ooo)
      /\ \A s \in ooo : s > next
      /\ seq >= next /\ seq \notin ooo
  BY ReceiverAssumption DEF Windows, GoodWindow, Remembers
<1>1. CASE seq = next
  <2> DEFINE after == next + 1
             gap == FirstMissing(after, ooo)
  <2>2. /\ gap \in Nat /\ gap >= after
        /\ gap \notin ooo /\ after..(gap - 1) \subseteq ooo
    BY <1>0, FirstMissingIsFirst
  <2>3. v = [rcvNext |-> gap, outOfOrderSeqs |-> ooo \ (after..(gap - 1))]
    BY <1>1 DEF UpdateRcvWindow, Advanced
  <2> HIDE DEF gap, v
  <2>4. v.rcvNext = gap /\ v.outOfOrderSeqs = ooo \ (after..(gap - 1))
    BY <2>3
  <2>5. v \in Windows
    BY <1>0, <2>2, <2>3 DEF Windows
  <2>6. IsFiniteSet(ooo \ (after..(gap - 1)))
    BY <1>0, FS_Difference
  <2>7. ASSUME NEW s \in v.outOfOrderSeqs PROVE s > gap
    <3>1. s \in Nat /\ s > next /\ s # gap /\ s \notin after..(gap - 1)
      BY <1>0, <2>2, <2>4
    <3> QED
      BY <1>0, <2>2, <3>1
  <2>8. ASSUME NEW s \in SeqNums
        PROVE  Remembers(v, s) <=> Remembers(win, s) \/ s = seq
    <3>1. s \in Nat /\ (s \in after..(gap - 1) <=> s >= next + 1 /\ s < gap)
      BY <1>0, <2>2
    <3> QED
      BY <1>0, <1>1, <2>2, <2>4, <3>1 DEF Remembers
  <2>9. GoodWindow(v)
    BY <2>4, <2>6, <2>7 DEF GoodWindow
  <2> QED
    BY <2>5, <2>8, <2>9 DEF v
<1>2. CASE seq > next
  <2>1. v = [win EXCEPT !.outOfOrderSeqs = ooo \cup {seq}]
    BY <1>0, <1>2 DEF UpdateRcvWindow
  <2>2. v.rcvNext = next /\ v.outOfOrderSeqs = ooo \cup {seq} /\ v \in Windows
    BY <1>0, <2>1 DEF Windows
  <2>3. IsFiniteSet(ooo \cup {seq})
    BY <1>0, FS_AddElement
  <2> QED
    BY <1>0, <1>2, <2>2, <2>3 DEF GoodWindow, Remembers
<1> QED
  BY <1>0, <1>1, <1>2

\* IsDuplicatePacket, which leaves out rcvNext itself, asks what the window
\* remembers.
LEMMA DuplicateIsRemembered ==
  ASSUME NEW j \in Jobs, NEW s \in SeqNums, m_rcvWindows[j] \in Windows,
         GoodWindow(m_rcvWindows[j])
  PROVE  IsDuplicatePacket(j, s) <=> Remembers(m_rcvWindows[j], s)
<1>1. s \in Nat
  BY ReceiverAssumption
<1> QED
  BY <1>1 DEF IsDuplicatePacket, Remembers, GoodWindow, Windows
-----------------------------------------------------------------------------
(* Counting.                                                               *)

\* An empty buffer holds no packet of any job.
LEMMA OfJobEmpty == \A j : OfJob(<<>>, j) = 0
<1> SUFFICES ASSUME NEW j PROVE OfJob(<<>>, j) = 0
  OBVIOUS
<1>1. {i \in DOMAIN <<>> : <<>>[i].jobId = j} = {}
  OBVIOUS
<1> QED
  BY <1>1, FS_EmptySet DEF OfJob

\* A packet put into a buffer counts once, for its own job.
LEMMA OfJobAppend ==
  ASSUME NEW q \in Seq(Packet), NEW p \in Packet, NEW j
  PROVE  /\ OfJob(q, j) \in Nat
         /\ OfJob(Append(q, p), j) = OfJob(q, j) + (IF p.jobId = j THEN 1 ELSE 0)
<1> DEFINE r == Append(q, p)
           S == {i \in DOMAIN q : q[i].jobId = j}
           T == {i \in DOMAIN r : r[i].jobId = j}
           n == Len(q) + 1
<1>1. /\ n \in Nat /\ DOMAIN q = 1..Len(q) /\ DOMAIN r = 1..n
      /\ \A i \in 1..Len(q) : r[i] = q[i]
      /\ r[n] = p /\ n \notin 1..Len(q) /\ 1..n = (1..Len(q)) \cup {n}
  OBVIOUS
<1>2. IsFiniteSet(S)
  <2>1. S \in SUBSET (1..Len(q)) /\ Len(q) \in Nat
    BY <1>1
  <2> QED
    BY <2>1, FS_Interval, FS_Subset
<1>3. Cardinality(S) \in Nat /\ n \notin S
  BY <1>1, <1>2, FS_CardinalityType
<1>a. OfJob(q, j) = Cardinality(S) /\ OfJob(r, j) = Cardinality(T)
  BY DEF OfJob
<1> SUFFICES /\ Cardinality(S) \in Nat
             /\ Cardinality(T) = Cardinality(S) + (IF p.jobId = j THEN 1 ELSE 0)
  BY <1>a
<1>4. CASE p.jobId = j
  <2>1. T = S \cup {n}
    BY <1>1, <1>4
  <2>2. Cardinality(T) = Cardinality(S) + 1
    BY <1>2, <1>3, <2>1, FS_AddElement
  <2> QED
    BY <1>3, <1>4, <2>2
<1>5. CASE p.jobId # j
  <2>1. T = S
    BY <1>1, <1>5
  <2> HIDE DEF S, T
  <2> QED
    BY <1>3, <1>5, <2>1
<1> QED
  BY <1>4, <1>5

-----------------------------------------------------------------------------
(* A completed aggregation.                                                *)

\* A delivery adds the packet's key to those delivered.
LEMMA DeliveryAdds ==
  ASSUME delivered \in Seq(Packet), NEW p \in Packet,
         delivered' = Append(delivered, p)
  PROVE  \A k : IsDelivered(k)' <=> IsDelivered(k) \/ k = KeyOf(p)
<1> DEFINE n == Len(delivered) + 1
<1>1. /\ n \in Nat /\ DOMAIN delivered = 1..Len(delivered)
      /\ DOMAIN delivered' = 1..n
      /\ \A i \in 1..Len(delivered) : delivered'[i] = delivered[i]
      /\ delivered'[n] = p
      /\ n \in 1..n /\ 1..n = (1..Len(delivered)) \cup {n}
  OBVIOUS
<1> HIDE DEF n
<1> QED
  BY <1>1 DEF IsDelivered

\* The receive callback runs or does not: every packet of the buffer is either
\* counted by the sink or still in the buffer.
LEMMA NotifyAccounts ==
  ASSUME TypeOK, NEW buffer \in Seq(Packet), NotifyDataRecv(buffer)
  PROVE  /\ m_rxBuffer' \in Seq(Packet)
         /\ m_rxAvailable' \in Nat
         /\ m_jobRx' \in [Jobs -> Nat]
         /\ \A j \in Jobs : m_jobRx'[j] + OfJob(m_rxBuffer', j)
                              = m_jobRx[j] + OfJob(buffer, j)
<1>1. \A j : OfJob(buffer, j) \in Nat
  <2> SUFFICES ASSUME NEW j PROVE OfJob(buffer, j) \in Nat
    OBVIOUS
  <2>1. DOMAIN buffer = 1..Len(buffer) /\ Len(buffer) \in Nat
    OBVIOUS
  <2> DEFINE S == {i \in DOMAIN buffer : buffer[i].jobId = j}
  <2>2. S \in SUBSET (1..Len(buffer))
    BY <2>1
  <2>3. OfJob(buffer, j) = Cardinality(S)
    BY DEF OfJob
  <2> HIDE DEF S
  <2>4. IsFiniteSet(S)
    <3>1. 1 \in Int /\ Len(buffer) \in Int
      BY <2>1
    <3>2. IsFiniteSet(1..Len(buffer))
      BY <3>1, FS_Interval
    <3> QED
      BY <2>2, <3>2, FS_Subset
  <2> QED
    BY <2>3, <2>4, FS_CardinalityType
<1>2. CASE reading
  <2>1. /\ m_jobRx' = [j \in Jobs |-> m_jobRx[j] + OfJob(buffer, j)]
        /\ m_rxBuffer' = <<>>
        /\ m_rxAvailable' = (m_rxAvailable - 1 + Len(buffer)) % RxModulus
    BY <1>2 DEF NotifyDataRecv, HandleRead
  <2>2. m_rxAvailable' \in Nat
    BY <2>1, ReceiverAssumption DEF TypeOK
  <2>3. m_jobRx' \in [Jobs -> Nat]
    BY <1>1, <2>1 DEF TypeOK
  <2>4. ASSUME NEW j \in Jobs
        PROVE m_jobRx'[j] + OfJob(m_rxBuffer', j) = m_jobRx[j] + OfJob(buffer, j)
    BY <1>1, <2>1, OfJobEmpty DEF TypeOK
  <2> QED
    BY <2>1, <2>2, <2>3, <2>4
<1>3. CASE ~reading
  <2>1. /\ m_jobRx' = m_jobRx
        /\ m_rxBuffer' = buffer
        /\ m_rxAvailable' = (m_rxAvailable + (RxModulus - 1)) % RxModulus
    BY <1>3 DEF NotifyDataRecv
  <2> QED
    BY <2>1, ReceiverAssumption DEF TypeOK
<1> QED
  BY <1>2, <1>3

\* The part of the state that Complete writes has its type.
CompleteTypes ==
  /\ m_rcvWindows \in [Jobs -> Windows]
  /\ m_rxBuffer \in Seq(Packet)
  /\ m_rxAvailable \in Nat
  /\ ackEvents \in Seq(Key)
  /\ m_jobRx \in [Jobs -> Nat]
  /\ delivered \in Seq(Packet)

EventsDelivered == \A i \in DOMAIN ackEvents : IsDelivered(ackEvents[i])

\* Completing an aggregation, a duplicate or not, keeps everything the
\* invariant says of windows, deliveries, counts and scheduled ACKs.
LEMMA CompleteKeeps ==
  ASSUME IInv, NEW p \in Packet, Complete(p)
  PROVE  /\ CompleteTypes'
         /\ Remembered'
         /\ AtMostOnce'
         /\ SinkCountExact'
         /\ EventsDelivered'
         /\ \A k : IsDelivered(k) => IsDelivered(k)'
         /\ delivered' = delivered \/ delivered' = Append(delivered, p)
<1> DEFINE j0 == p.jobId
           s0 == p.seqNum
           k0 == KeyOf(p)
           win == m_rcvWindows[j0]
<1>0. /\ CompleteTypes /\ j0 \in Jobs /\ s0 \in SeqNums
      /\ k0 = <<j0, s0>> /\ k0 \in Key
      /\ win \in Windows /\ GoodWindow(win)
  BY DEF IInv, TypeOK, CompleteTypes, Windows, Remembered, Packet, KeyOf, Key
<1>1. ackEvents' = Append(ackEvents, k0) /\ ackEvents' \in Seq(Key)
  BY <1>0 DEF Complete, CompleteTypes
<1>2. IsDuplicatePacket(j0, s0) <=> Remembers(win, s0)
  BY <1>0, DuplicateIsRemembered
<1>3. Remembers(win, s0) <=> IsDelivered(k0)
  BY <1>0 DEF IInv, Remembered
<1>4. ASSUME \A k : IsDelivered(k) => IsDelivered(k)', IsDelivered(k0)'
      PROVE  EventsDelivered'
  <2>1. \A i \in DOMAIN ackEvents : IsDelivered(ackEvents[i])
    BY DEF IInv, AckImpliesDelivered
  <2>2. ASSUME NEW i \in DOMAIN ackEvents'
        PROVE  \E m \in DOMAIN delivered' : KeyOf(delivered'[m]) = ackEvents'[i]
    <3>1. ackEvents'[i] = k0 \/ (i \in DOMAIN ackEvents /\ ackEvents'[i] = ackEvents[i])
      BY <1>0, <1>1 DEF CompleteTypes
    <3>2. PICK k : k = ackEvents'[i]
      OBVIOUS
    <3>3. IsDelivered(k)'
      BY <1>4, <2>1, <3>1, <3>2
    <3> QED
      BY <3>2, <3>3 DEF IsDelivered, KeyOf
  <2> QED
    BY <2>2 DEF EventsDelivered, IsDelivered, KeyOf
<1>5. CASE IsDuplicatePacket(j0, s0)
  <2>1. UNCHANGED <<m_rcvWindows, m_rxBuffer, m_rxAvailable, m_jobRx, delivered>>
    BY <1>5 DEF Complete
  <2>2. CompleteTypes'
    BY <1>0, <1>1, <2>1 DEF CompleteTypes
  <2>3. \A k : IsDelivered(k)' <=> IsDelivered(k)
    BY <2>1 DEF IsDelivered
  <2>4. Remembered'
    BY <2>1, <2>3 DEF IInv, Remembered
  <2>5. AtMostOnce' /\ SinkCountExact'
    BY <2>1 DEF IInv, AtMostOnce, SinkCountExact
  <2> QED
    BY <1>2, <1>3, <1>4, <1>5, <2>1, <2>2, <2>3, <2>4, <2>5
<1>6. CASE ~IsDuplicatePacket(j0, s0)
  <2> DEFINE v == UpdateRcvWindow(win, s0)
             buffer == Append(m_rxBuffer, p)
  <2>1. /\ m_rcvWindows' = [m_rcvWindows EXCEPT ![j0] = v]
        /\ delivered' = Append(delivered, p)
        /\ NotifyDataRecv(buffer)
    BY <1>6 DEF Complete
  <2>2. /\ v \in Windows
        /\ GoodWindow(v)
        /\ \A s \in SeqNums : Remembers(v, s) <=> Remembers(win, s) \/ s = s0
    BY <1>0, <1>2, <1>6, UpdateRemembers
  <2>3. buffer \in Seq(Packet) /\ delivered' \in Seq(Packet)
    BY <1>0, <2>1 DEF CompleteTypes
  <2> HIDE DEF v, buffer
  <2>4. /\ m_rxBuffer' \in Seq(Packet)
        /\ m_rxAvailable' \in Nat
        /\ m_jobRx' \in [Jobs -> Nat]
        /\ \A j \in Jobs : m_jobRx'[j] + OfJob(m_rxBuffer', j)
                             = m_jobRx[j] + OfJob(buffer, j)
    BY <2>1, <2>3, NotifyAccounts DEF IInv
  <2>5. /\ m_rcvWindows' \in [Jobs -> Windows]
        /\ \A j \in Jobs : m_rcvWindows'[j] = IF j = j0 THEN v ELSE m_rcvWindows[j]
    BY <1>0, <2>1, <2>2 DEF CompleteTypes
  <2>6. CompleteTypes'
    BY <1>1, <2>3, <2>4, <2>5 DEF CompleteTypes
  <2>7. \A k : IsDelivered(k)' <=> IsDelivered(k) \/ k = k0
    BY <1>0, <2>1, DeliveryAdds DEF CompleteTypes
  <2>8. Remembered'
    <3>1. ASSUME NEW j \in Jobs
          PROVE  /\ GoodWindow(m_rcvWindows'[j])
                 /\ \A s \in SeqNums :
                      Remembers(m_rcvWindows'[j], s) <=> IsDelivered(<<j, s>>)'
      <4>1. /\ GoodWindow(m_rcvWindows[j])
            /\ \A s \in SeqNums :
                 Remembers(m_rcvWindows[j], s) <=> IsDelivered(<<j, s>>)
        BY DEF IInv, Remembered
      <4>2. \A s : <<j, s>> = k0 <=> j = j0 /\ s = s0
        BY <1>0
      <4>3. CASE j = j0
        BY <2>2, <2>5, <2>7, <4>1, <4>2, <4>3
      <4>4. CASE j # j0
        BY <2>5, <2>7, <4>1, <4>2, <4>4
      <4> QED
        BY <4>3, <4>4
    <3> QED
      BY <3>1 DEF Remembered, GoodWindow, Remembers
  <2>9. AtMostOnce'
    <3>1. ~IsDelivered(k0)
      BY <1>2, <1>3, <1>6
    <3>2. \A i \in DOMAIN delivered' :
            \/ i \in DOMAIN delivered /\ delivered'[i] = delivered[i]
            \/ i = Len(delivered) + 1 /\ delivered'[i] = p
      BY <1>0, <2>1 DEF CompleteTypes
    <3>3. \A i \in DOMAIN delivered : KeyOf(delivered[i]) # k0
      BY <3>1 DEF IsDelivered
    <3>4. \A i, k \in DOMAIN delivered :
            KeyOf(delivered[i]) = KeyOf(delivered[k]) => i = k
      BY DEF IInv, AtMostOnce
    <3>5. ASSUME NEW i \in DOMAIN delivered', NEW k \in DOMAIN delivered',
                 KeyOf(delivered'[i]) = KeyOf(delivered'[k])
          PROVE  i = k
      BY <3>2, <3>3, <3>4, <3>5
    <3> QED
      BY <3>5 DEF AtMostOnce, KeyOf
  <2>10. SinkCountExact'
    <3>1. ASSUME NEW j \in Jobs
          PROVE  m_jobRx'[j] + OfJob(m_rxBuffer', j) = OfJob(delivered', j)
      <4> DEFINE d == IF j0 = j THEN 1 ELSE 0
      <4>1. OfJob(m_rxBuffer, j) \in Nat /\ OfJob(buffer, j) = OfJob(m_rxBuffer, j) + d
        BY <1>0, OfJobAppend DEF CompleteTypes, buffer
      <4>2. OfJob(delivered, j) \in Nat /\ OfJob(delivered', j) = OfJob(delivered, j) + d
        BY <1>0, <2>1, OfJobAppend DEF CompleteTypes
      <4>3. m_jobRx[j] + OfJob(m_rxBuffer, j) = OfJob(delivered, j)
        BY DEF IInv, SinkCountExact
      <4>4. m_jobRx[j] \in Nat /\ d \in Nat
        BY <1>0 DEF CompleteTypes
      <4> HIDE DEF d
      <4> QED
        BY <2>4, <4>1, <4>2, <4>3, <4>4
    <3> QED
      BY <3>1 DEF SinkCountExact, OfJob
  <2> QED
    BY <1>4, <2>1, <2>6, <2>7, <2>8, <2>9, <2>10
<1> QED
  BY <1>5, <1>6
-----------------------------------------------------------------------------
(* The steps.                                                              *)

\* A socket just created.
LEMMA NewSocketIInv ==
  ASSUME NewSocket, reading \in BOOLEAN
  PROVE  IInv
<1> USE DEF NewSocket
<1>1. TypeOK
  <2>1. NoAggregator \in [flat : SUBSET Uint32Bits, data : SUBSET Contribution]
    BY DEF NoAggregator
  <2>2. [rcvNext |-> 0, outOfOrderSeqs |-> {}] \in
          [rcvNext : Nat, outOfOrderSeqs : SUBSET SeqNums]
    OBVIOUS
  <2>3. m_rxBuffer \in Seq(Packet) /\ ackEvents \in Seq(Key)
        /\ delivered \in Seq(Packet) /\ m_rxAvailable \in Nat
    BY ReceiverAssumption
  <2>4. m_jobRx \in [Jobs -> Nat]
    OBVIOUS
  <2> QED
    BY <2>1, <2>2, <2>3, <2>4 DEF TypeOK
<1>2. \A k : ~IsDelivered(k)
  BY DEF IsDelivered
<1>3. Remembered
  <2> SUFFICES ASSUME NEW j \in Jobs
               PROVE  /\ GoodWindow(m_rcvWindows[j])
                      /\ \A s \in SeqNums :
                           Remembers(m_rcvWindows[j], s) <=> IsDelivered(<<j, s>>)
    BY DEF Remembered
  <2>1. m_rcvWindows[j] = [rcvNext |-> 0, outOfOrderSeqs |-> {}]
    OBVIOUS
  <2>2. GoodWindow(m_rcvWindows[j])
    BY <2>1, FS_EmptySet DEF GoodWindow
  <2>3. ASSUME NEW s \in SeqNums PROVE ~Remembers(m_rcvWindows[j], s)
    <3>1. m_rcvWindows[j].rcvNext = 0 /\ m_rcvWindows[j].outOfOrderSeqs = {}
      BY <2>1
    <3>2. s \in Nat
      BY ReceiverAssumption
    <3> QED
      BY <3>1, <3>2 DEF Remembers
  <2> QED
    BY <1>2, <2>2, <2>3
<1>4. AtMostOnce /\ AckImpliesDelivered
  BY DEF AtMostOnce, AckImpliesDelivered
<1>5. SinkCountExact
  BY OfJobEmpty DEF SinkCountExact
<1> QED
  BY <1>1, <1>3, <1>4, <1>5 DEF IInv

\* The workers that GetFlatBitmap names are bits of a 32-bit word.
LEMMA FlatType ==
  ASSUME NEW p, p.jobId \in DOMAIN JobTreeMap
  PROVE  GetFlatBitmap(p) \subseteq Uint32Bits
<1> DEFINE tree == JobTreeMap[p.jobId]
           parts == {BranchBits(tree.branches, b, p.bitmap0) :
                       b \in DOMAIN tree.branches \cap p.bitmap1}
<1>1. \A S \in parts : S \subseteq Uint32Bits
  BY DEF BranchBits
<1>2. UNION parts \subseteq Uint32Bits
  BY <1>1
<1>3. tree.expectedFlatBitmap \subseteq Uint32Bits
  BY ReceiverAssumption
<1> QED
  BY <1>2, <1>3 DEF GetFlatBitmap, ConvertToFlatBitmap

\* A data packet arrives: every part of IInv survives.
LEMMA ForwardUpIInv ==
  ASSUME IInv, NEW p \in Packet, ForwardUp(p)
  PROVE  IInv' /\ \A k : IsDelivered(k) => IsDelivered(k)'
<1>1. ASSUME NEW q \in Packet, Complete(q),
             m_aggregators' \in
               [Key -> [flat : SUBSET Uint32Bits, data : SUBSET Contribution]]
      PROVE  IInv' /\ \A k : IsDelivered(k) => IsDelivered(k)'
  <2>1. /\ CompleteTypes' /\ Remembered' /\ AtMostOnce' /\ SinkCountExact'
        /\ EventsDelivered' /\ \A k : IsDelivered(k) => IsDelivered(k)'
    BY <1>1, CompleteKeeps
  <2>2. UNCHANGED <<m_shutdownRecv, reading, acked>>
    BY DEF ForwardUp
  <2>3. TypeOK'
    BY <1>1, <2>1, <2>2 DEF IInv, TypeOK, CompleteTypes, Windows
  <2>4. AckImpliesDelivered'
    <3>1. \A k \in acked : IsDelivered(k)
      BY DEF IInv, AckImpliesDelivered
    <3>2. ASSUME NEW k \in acked' PROVE IsDelivered(k)'
      BY <2>1, <2>2, <3>1
    <3> QED
      BY <2>1, <3>2 DEF AckImpliesDelivered, EventsDelivered
  <2> QED
    BY <2>1, <2>3, <2>4 DEF IInv
<1>2. CASE Complete(p) /\ UNCHANGED m_aggregators
  BY <1>1, <1>2 DEF IInv, TypeOK
<1>3. CASE AggregatePacket(p)
  <2> DEFINE k == KeyOf(p)
             agg == ProcessPacket(m_aggregators[k], GetFlatBitmap(p), p.data)
             Agg == [flat : SUBSET Uint32Bits, data : SUBSET Contribution]
  <2>1. k \in Key /\ m_aggregators[k] \in Agg
    BY DEF IInv, TypeOK, Packet, KeyOf, Key
  <2>2. agg \in Agg
    <3>1. GetFlatBitmap(p) \subseteq Uint32Bits
      BY FlatType DEF ForwardUp
    <3> QED
      BY <2>1, <3>1 DEF ProcessPacket, Packet
  <2>3. NoAggregator \in Agg
    BY DEF NoAggregator
  <2> HIDE DEF agg, k
  <2>4. CASE /\ m_aggregators' = [m_aggregators EXCEPT ![k] = NoAggregator]
             /\ Complete([p EXCEPT !.data = agg.data])
    <3>1. [p EXCEPT !.data = agg.data] \in Packet
      BY <2>2 DEF Packet
    <3>2. m_aggregators' \in [Key -> Agg]
      BY <2>3, <2>4 DEF IInv, TypeOK
    <3> QED
      BY <1>1, <2>4, <3>1, <3>2
  <2>5. CASE /\ m_aggregators' = [m_aggregators EXCEPT ![k] = agg]
             /\ UNCHANGED <<m_rcvWindows, m_rxBuffer, m_rxAvailable, ackEvents,
                            m_jobRx, delivered>>
    <3>1. UNCHANGED <<m_rcvWindows, m_rxBuffer, m_rxAvailable, ackEvents,
                      m_jobRx, delivered, m_shutdownRecv, reading, acked>>
      BY <2>5 DEF ForwardUp
    <3>2. m_aggregators' \in [Key -> Agg]
      BY <2>2, <2>5 DEF IInv, TypeOK
    <3>3. TypeOK'
      BY <3>1, <3>2 DEF IInv, TypeOK
    <3>4. IInv'
      BY <3>1, <3>3 DEF IInv, Remembered, AtMostOnce, AckImpliesDelivered,
                        SinkCountExact, IsDelivered
    <3> QED
      BY <3>1, <3>4 DEF IsDelivered
  <2> QED
    BY <1>3, <2>4, <2>5 DEF AggregatePacket, agg, k
<1> QED
  BY <1>2, <1>3 DEF ForwardUp

\* A scheduled ACK is sent: IInv survives.
LEMMA SendMultiAckIInv ==
  ASSUME IInv, SendMultiAck
  PROVE  IInv'
<1>0. TypeOK
  BY DEF IInv
<1>1. /\ UNCHANGED <<m_aggregators, m_rcvWindows, m_rxBuffer, m_rxAvailable,
                     m_shutdownRecv, reading, m_jobRx, delivered>>
      /\ ackEvents # <<>> /\ ackEvents' = Tail(ackEvents)
  BY DEF SendMultiAck
<1>2. /\ Head(ackEvents) \in Key /\ Head(ackEvents) = ackEvents[1]
      /\ 1 \in DOMAIN ackEvents
      /\ ackEvents' \in Seq(Key)
      /\ \A i \in DOMAIN ackEvents' :
           i + 1 \in DOMAIN ackEvents /\ ackEvents'[i] = ackEvents[i + 1]
  BY <1>0, <1>1 DEF TypeOK
<1>3. acked' \subseteq acked \cup {Head(ackEvents)}
  BY DEF SendMultiAck
<1>4. TypeOK'
  BY <1>0, <1>1, <1>2, <1>3 DEF TypeOK
<1>5. AckImpliesDelivered'
  BY <1>1, <1>2, <1>3 DEF IInv, AckImpliesDelivered, IsDelivered
<1>6. Remembered' /\ AtMostOnce' /\ SinkCountExact'
  BY <1>1 DEF IInv, Remembered, AtMostOnce, SinkCountExact, IsDelivered
<1> QED
  BY <1>4, <1>5, <1>6 DEF IInv

\* IInv survives every step.
LEMMA NextIInv == IInv /\ [Next]_vars => IInv'
<1> SUFFICES ASSUME IInv, [Next]_vars PROVE IInv'
  OBVIOUS
<1> DEFINE Rest == UNCHANGED <<m_rcvWindows, m_rxBuffer, m_jobRx, delivered>>
<1>0. TypeOK
  BY DEF IInv
<1>1. ASSUME Rest PROVE Remembered' /\ AtMostOnce' /\ SinkCountExact'
  BY <1>1 DEF IInv, Remembered, AtMostOnce, SinkCountExact, IsDelivered
<1>2. ASSUME NEW p \in Arrivals, ForwardUp(p) PROVE IInv'
  <2>1. p \in Packet
    BY ReceiverAssumption
  <2> QED
    BY <1>2, <2>1, ForwardUpIInv
<1>3. CASE SendMultiAck
  BY <1>3, SendMultiAckIInv
<1>4. CASE StartApplication
  <2>1. TypeOK'
    BY <1>0, <1>4 DEF TypeOK, StartApplication
  <2>2. AckImpliesDelivered'
    BY <1>4 DEF IInv, AckImpliesDelivered, IsDelivered, StartApplication
  <2> QED
    BY <1>1, <1>4, <2>1, <2>2 DEF IInv, StartApplication
<1>5. CASE StopApplication
  <2>1. /\ UNCHANGED <<m_aggregators, m_rcvWindows, m_rxBuffer, m_rxAvailable,
                       m_jobRx, delivered, acked>>
        /\ reading' = FALSE /\ m_shutdownRecv' = TRUE
        /\ ackEvents' = SubSeq(ackEvents, 1, Len(ackEvents) - 1)
    BY <1>5 DEF StopApplication
  <2>2. /\ ackEvents' \in Seq(Key)
        /\ \A i \in DOMAIN ackEvents' :
             i \in DOMAIN ackEvents /\ ackEvents'[i] = ackEvents[i]
    BY <1>0, <2>1 DEF TypeOK
  <2>3. TypeOK'
    BY <1>0, <2>1, <2>2 DEF TypeOK
  <2>4. AckImpliesDelivered'
    BY <2>1, <2>2 DEF IInv, AckImpliesDelivered, IsDelivered
  <2> QED
    BY <1>1, <2>1, <2>3, <2>4 DEF IInv
<1>6. CASE UNCHANGED vars
  <2>1. TypeOK' /\ AckImpliesDelivered'
    BY <1>6 DEF IInv, TypeOK, AckImpliesDelivered, IsDelivered, vars
  <2> QED
    BY <1>1, <1>6, <2>1 DEF IInv, vars
<1> QED
  BY <1>2, <1>3, <1>4, <1>5, <1>6 DEF Next

\* IInv holds in every state of the socket and its sink.
LEMMA Invariance == Spec => []IInv
<1>1. Init => IInv
  BY NewSocketIInv DEF Init
<1> QED
  BY <1>1, NextIInv, PTL DEF Spec

(***************************************************************************)
(* Whatever packets arrive in whatever order, the state stays in its type: *)
(* m_rxAvailable wraps around and never leaves the unsigned integers.      *)
(***************************************************************************)
THEOREM TypeCorrect == Spec => []TypeOK
<1>1. IInv => TypeOK
  BY DEF IInv
<1> QED
  BY <1>1, Invariance, PTL

(***************************************************************************)
(* IsDuplicatePacket and UpdateRcvWindow suppress every duplicate, for     *)
(* every order of arrival and every set of sequence numbers.               *)
(***************************************************************************)
THEOREM DeliveredAtMostOnce == Spec => []AtMostOnce
<1>1. IInv => AtMostOnce
  BY DEF IInv
<1> QED
  BY <1>1, Invariance, PTL

(***************************************************************************)
(* SendMultiAck is scheduled, and fires, only for what was delivered, also *)
(* when the sink stops between the two.                                    *)
(***************************************************************************)
THEOREM AcksImplyDelivery == Spec => []AckImpliesDelivered
<1>1. IInv => AckImpliesDelivered
  BY DEF IInv
<1> QED
  BY <1>1, Invariance, PTL

(***************************************************************************)
(* ATPPacketSink counts every delivered packet exactly once for its job,   *)
(* but for those still in the receive buffer.                              *)
(***************************************************************************)
THEOREM SinkCountIsExact == Spec => []SinkCountExact
<1>1. IInv => SinkCountExact
  BY DEF IInv
<1> QED
  BY <1>1, Invariance, PTL
-----------------------------------------------------------------------------
(* What is delivered, when the network tells the truth.                    *)

\* An aggregator's data are those of the workers in its bitmap, of sequence
\* number s.
Agrees(agg, s) == agg.data = agg.flat \X {s}

\* ProcessPacket keeps it so: a packet that adds no worker is not added.
LEMMA ProcessAgrees ==
  ASSUME NEW agg, NEW flat, NEW data, NEW s,
         Agrees(agg, s), data = flat \X {s}
  PROVE  Agrees(ProcessPacket(agg, flat, data), s)
<1>1. CASE flat \subseteq agg.flat
  BY <1>1 DEF ProcessPacket
<1>2. CASE ~(flat \subseteq agg.flat)
  <2> DEFINE a == ProcessPacket(agg, flat, data)
  <2>1. a = [flat |-> agg.flat \cup flat, data |-> agg.data \cup data]
    BY <1>2 DEF ProcessPacket
  <2>2. a.flat = agg.flat \cup flat /\ a.data = agg.data \cup data
    BY <2>1
  <2>3. (agg.flat \X {s}) \cup (flat \X {s}) = (agg.flat \cup flat) \X {s}
    OBVIOUS
  <2> QED
    BY <2>2, <2>3 DEF Agrees
<1> QED
  BY <1>1, <1>2

\* The data of packet p are all of its job.
IsWhole(p) == p.data = JobTreeMap[p.jobId].expectedFlatBitmap \X {p.seqNum}

\* Complete delivers a packet or drops a duplicate.
LEMMA CompleteIsTruthful ==
  ASSUME IInv, DeliveredComplete, NEW p \in Packet, Complete(p), IsWhole(p)
  PROVE  DeliveredComplete'
<1>1. delivered' = delivered \/ delivered' = Append(delivered, p)
  BY CompleteKeeps
<1>2. delivered \in Seq(Packet)
  BY DEF IInv, TypeOK
<1>3. \A i \in DOMAIN delivered : IsWhole(delivered[i])
  BY DEF DeliveredComplete, IsWhole
<1>4. \A i \in DOMAIN delivered' :
        \/ i \in DOMAIN delivered /\ delivered'[i] = delivered[i]
        \/ delivered'[i] = p
  BY <1>1, <1>2
<1>5. \A i \in DOMAIN delivered' : IsWhole(delivered'[i])
  BY <1>3, <1>4
<1> QED
  BY <1>5 DEF DeliveredComplete, IsWhole

\* A socket just created has aggregated and delivered nothing.
LEMMA NewSocketTruthful == NewSocket => Truthful
  BY DEF NewSocket, NoAggregator, Truthful, DeliveredComplete

\* Truthful survives the arrival of a packet that tells the truth.
LEMMA ForwardUpTruthful ==
  ASSUME IInv, Truthful, NEW p \in Packet, ForwardUp(p),
         p.data = GetFlatBitmap(p) \X {p.seqNum}
  PROVE  Truthful'
<1>z. /\ DeliveredComplete
      /\ \A k \in Key : m_aggregators[k].data = m_aggregators[k].flat \X {k[2]}
      /\ m_aggregators \in
           [Key -> [flat : SUBSET Uint32Bits, data : SUBSET Contribution]]
  BY DEF Truthful, IInv, TypeOK
<1>0. /\ p \in Packet
      /\ p.data = GetFlatBitmap(p) \X {p.seqNum}
  BY ReceiverAssumption DEF TruthfulArrivals, ForwardUp
<1>1. CASE /\ GetFlatBitmap(p) = JobTreeMap[p.jobId].expectedFlatBitmap
           /\ Complete(p)
           /\ UNCHANGED m_aggregators
  <2>1. IsWhole(p)
    BY <1>0, <1>1 DEF IsWhole
  <2>2. DeliveredComplete'
    BY <1>z, <1>0, <1>1, <2>1, CompleteIsTruthful
  <2> QED
    BY <1>z, <1>1, <2>2 DEF Truthful
<1>2. CASE AggregatePacket(p)
  <2> DEFINE k == KeyOf(p)
             agg == ProcessPacket(m_aggregators[k], GetFlatBitmap(p), p.data)
             q == [p EXCEPT !.data = agg.data]
  <2>1. k \in Key /\ k[2] = p.seqNum
    BY <1>0 DEF Packet, KeyOf, Key
  <2>2. agg.data = agg.flat \X {p.seqNum}
    <3>1. Agrees(m_aggregators[k], p.seqNum)
      BY <1>z, <2>1 DEF Agrees
    <3>2. Agrees(agg, p.seqNum)
      BY <1>0, <3>1, ProcessAgrees
    <3> QED
      BY <3>2 DEF Agrees
  <2>3. NoAggregator.data = NoAggregator.flat \X {p.seqNum}
    BY DEF NoAggregator
  <2>4. agg.data \subseteq Contribution
    <3>1. GetFlatBitmap(p) \subseteq Uint32Bits
      BY FlatType DEF ForwardUp
    <3> QED
      BY <1>z, <1>0, <2>1, <3>1 DEF ProcessPacket, Packet
  <2> HIDE DEF agg, k
  <2>5. /\ q \in Packet /\ q.data = agg.data
        /\ q.jobId = p.jobId /\ q.seqNum = p.seqNum
    BY <1>0, <2>4 DEF Packet
  <2> HIDE DEF q
  <2>6. CASE /\ agg.flat = JobTreeMap[p.jobId].expectedFlatBitmap
             /\ m_aggregators' = [m_aggregators EXCEPT ![k] = NoAggregator]
             /\ Complete(q)
    <3>1. IsWhole(q)
      BY <2>2, <2>5, <2>6 DEF IsWhole
    <3>2. DeliveredComplete'
      BY <1>z, <2>5, <2>6, <3>1, CompleteIsTruthful
    <3> QED
      BY <1>z, <2>1, <2>3, <2>6, <3>2 DEF Truthful
  <2>7. CASE /\ m_aggregators' = [m_aggregators EXCEPT ![k] = agg]
             /\ UNCHANGED delivered
    <3>1. ASSUME NEW key \in Key
          PROVE  m_aggregators'[key].data = m_aggregators'[key].flat \X {key[2]}
      <4>1. m_aggregators'[key] = IF key = k THEN agg ELSE m_aggregators[key]
        BY <1>z, <2>7
      <4> QED
        BY <1>z, <2>1, <2>2, <4>1
    <3>2. DeliveredComplete'
      BY <1>z, <2>7 DEF DeliveredComplete
    <3> QED
      BY <3>1, <3>2 DEF Truthful
  <2> QED
    BY <1>2, <2>6, <2>7 DEF AggregatePacket, agg, k, q
<1> QED
  BY <1>1, <1>2 DEF ForwardUp

\* Truthful survives every step when every arriving packet tells the truth.
LEMMA NextTruthful ==
  ASSUME TruthfulArrivals, IInv, Truthful, [Next]_vars
  PROVE  Truthful'
<1>1. ASSUME UNCHANGED <<m_aggregators, delivered>> PROVE Truthful'
  BY <1>1 DEF Truthful, DeliveredComplete
<1>2. ASSUME NEW p \in Arrivals, ForwardUp(p) PROVE Truthful'
  <2>1. /\ p \in Packet
        /\ p.data = GetFlatBitmap(p) \X {p.seqNum}
    BY <1>2, ReceiverAssumption DEF TruthfulArrivals, ForwardUp
  <2> QED
    BY <1>2, <2>1, ForwardUpTruthful
<1> QED
  BY <1>1, <1>2 DEF Next, SendMultiAck, StartApplication, StopApplication, vars

(***************************************************************************)
(* If every packet carries the data of exactly the workers its bitmaps     *)
(* name, what is delivered sums up every worker of the job once: a         *)
(* JobAggregator never mixes sequence numbers, counts a worker twice or    *)
(* reports a sum before it is complete.                                    *)
(***************************************************************************)
THEOREM DeliveriesAreComplete ==
  ASSUME TruthfulArrivals
  PROVE  Spec => []DeliveredComplete
<1>1. Init => Truthful
  BY NewSocketTruthful DEF Init
<1>2. IInv /\ Truthful /\ [Next]_vars => Truthful'
  BY NextTruthful
<1>3. Truthful => DeliveredComplete
  BY DEF Truthful
<1> QED
  BY <1>1, <1>2, <1>3, Invariance, PTL DEF Spec
-----------------------------------------------------------------------------
(* What the application sees of one packet while it reads.                 *)

\* A completed aggregation is handed on and read, unless it was before.
LEMMA CompleteDelivers ==
  ASSUME IInv, NEW p \in Packet, Complete(p), reading, m_rxBuffer = <<>>
  PROVE  /\ m_rxBuffer' = <<>>
         /\ \/ delivered' = delivered
            \/ delivered' = Append(delivered, p) /\ ~IsDelivered(KeyOf(p))
<1>1. /\ p.jobId \in Jobs /\ p.seqNum \in SeqNums
      /\ KeyOf(p) = <<p.jobId, p.seqNum>>
      /\ m_rcvWindows[p.jobId] \in Windows /\ GoodWindow(m_rcvWindows[p.jobId])
  BY DEF IInv, TypeOK, Windows, Remembered, Packet, KeyOf
<1>2. IsDuplicatePacket(p.jobId, p.seqNum) <=> IsDelivered(KeyOf(p))
  BY <1>1, DuplicateIsRemembered DEF IInv, Remembered
<1>3. CASE IsDuplicatePacket(p.jobId, p.seqNum)
  BY <1>3 DEF Complete
<1>4. CASE ~IsDuplicatePacket(p.jobId, p.seqNum)
  BY <1>2, <1>4 DEF Complete, NotifyDataRecv, HandleRead
<1> QED
  BY <1>3, <1>4

\* A packet that arrives leaves the application where it was, or hands it one
\* packet of its own number, new, made of its data and of what its aggregator
\* held.
LEMMA ForwardUpDelivers ==
  ASSUME IInv, NEW p \in Packet, ForwardUp(p), reading, m_rxBuffer = <<>>
  PROVE  /\ reading' /\ m_rxBuffer' = <<>>
         /\ \A k \in Key :
              m_aggregators'[k].data \subseteq m_aggregators[k].data \cup p.data
         /\ \/ delivered' = delivered
            \/ \E q \in Packet :
                 /\ KeyOf(q) = KeyOf(p) /\ ~IsDelivered(KeyOf(q))
                 /\ q.data \subseteq m_aggregators[KeyOf(p)].data \cup p.data
                 /\ delivered' = Append(delivered, q)
<1>1. reading'
  BY DEF ForwardUp
<1>2. CASE Complete(p) /\ UNCHANGED m_aggregators
  BY <1>1, <1>2, CompleteDelivers
<1>3. CASE AggregatePacket(p)
  <2> DEFINE k == KeyOf(p)
             Agg == [flat : SUBSET Uint32Bits, data : SUBSET Contribution]
             agg == ProcessPacket(m_aggregators[k], GetFlatBitmap(p), p.data)
             q == [p EXCEPT !.data = agg.data]
  <2>1. k \in Key /\ m_aggregators \in [Key -> Agg] /\ m_aggregators[k] \in Agg
    BY DEF IInv, TypeOK, Packet, KeyOf, Key
  <2>2. /\ agg.data \subseteq m_aggregators[k].data \cup p.data
        /\ agg.data \subseteq Contribution
    <3>1. p.data \subseteq Contribution
      BY DEF Packet
    <3>2. m_aggregators[k].data \subseteq Contribution
      BY <2>1
    <3> QED
      BY <3>1, <3>2 DEF ProcessPacket
  <2>3. NoAggregator.data = {}
    BY DEF NoAggregator
  <2> HIDE DEF agg
  <2>4. q \in Packet /\ KeyOf(q) = k /\ q.data = agg.data
    BY <2>2 DEF Packet, KeyOf
  <2>5. CASE /\ m_aggregators' = [m_aggregators EXCEPT ![k] = NoAggregator]
             /\ Complete(q)
    <3> HIDE DEF q, k
    <3>1. /\ m_rxBuffer' = <<>>
          /\ \/ delivered' = delivered
             \/ delivered' = Append(delivered, q) /\ ~IsDelivered(KeyOf(q))
      BY <2>4, <2>5, CompleteDelivers
    <3>2. \A c \in Key :
            m_aggregators'[c].data \subseteq m_aggregators[c].data \cup p.data
      BY <2>1, <2>3, <2>5
    <3> QED
      BY <1>1, <2>2, <2>4, <3>1, <3>2 DEF k
  <2>6. CASE /\ m_aggregators' = [m_aggregators EXCEPT ![k] = agg]
             /\ UNCHANGED <<m_rxBuffer, delivered>>
    <3> HIDE DEF k
    <3>1. \A c \in Key :
            m_aggregators'[c].data \subseteq m_aggregators[c].data \cup p.data
      BY <2>1, <2>2, <2>6
    <3> QED
      BY <1>1, <2>6, <3>1
  <2> QED
    BY <1>3, <2>5, <2>6 DEF AggregatePacket, agg
<1> QED
  BY <1>2, <1>3 DEF ForwardUp

\* The sink's count is the number of deliveries as long as it reads.
LEMMA CountIsDeliveries ==
  ASSUME IInv, m_rxBuffer = <<>>, NEW j \in Jobs
  PROVE  m_jobRx[j] = OfJob(delivered, j)
<1>1. m_jobRx[j] \in Nat /\ OfJob(m_rxBuffer, j) = 0
  BY OfJobEmpty DEF IInv, TypeOK
<1> QED
  BY <1>1 DEF IInv, SinkCountExact
=============================================================================
