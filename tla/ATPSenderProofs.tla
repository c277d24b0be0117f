--------------------------- MODULE ATPSenderProofs ---------------------------
(***************************************************************************)
(* Proofs about a worker, for every buffer size, window and limit.         *)
(*                                                                         *)
(* The invariant is a statement about the send buffer alone (Good), kept   *)
(* by each operator of ATPTxBuffer whatever the socket does around it, and *)
(* three statements that tie the buffer to the application's counters, to  *)
(* the pending event and to the ACKs received.                             *)
(***************************************************************************)
EXTENDS ATPSender, ATPTxBufferProofs, SequenceTheorems, TLAPS

\* What is true of the buffer by itself.
Good(t) ==
  /\ t \in Buffers
  /\ InOrder(t)
  /\ Len(t.m_pendingQueue) <= BufferSize
  /\ t.m_highestSentPacketId <= t.m_leftBound + MaxCwnd

\* A pending packet lies in the window.
Open(t) ==
  /\ Len(t.m_pendingQueue) > 0
  /\ t.m_highestSentPacketId + 1 <= t.m_leftBound + t.m_lcw

\* Packet id is in m_sentQueue.
Has(t, id) ==
  \E k \in 1..Len(t.m_sentQueue) : t.m_sentQueue[k].m_packetId = id

\* A step from t to u takes out of m_sentQueue nothing above bound.
Keeps(t, u, bound) ==
  \A id \in Nat : id > bound /\ Has(t, id) => Has(u, id)

\* Every packet sent above all ACKs received is still there.
Held(t, A) ==
  \A id \in 1..t.m_highestSentPacketId :
    (\A a \in A : a < id) => Has(t, id)

\* The application's counters agree with a buffer, and the tags with its ids.
\* That the refused packet carries the number after the last one taken is what
\* makes the numbering inductive.
Counted(t) ==
  /\ t.m_packetNum = m_totBytes
  /\ Len(seqNums) = m_totBytes
  /\ \A id \in DOMAIN seqNums : seqNums[id] = id
  /\ m_seqNum = m_totBytes + (IF m_unsentPacket = 0 THEN 0 ELSE 1)
  /\ m_unsentPacket \in {0, m_totBytes + 1}

\* The event is pending whenever the window is open, but for a worker that was
\* stopped.  The case of one that is not started is what StartApplication needs.
Awake == (m_connected \/ ~started) /\ Open(tx) => m_sendWindowDataEvent

IInv ==
  /\ TypeOK
  /\ Good(tx)
  /\ Counted(tx)
  /\ Awake
  /\ Held(tx, acks)

\* Two buffers that differ at most in m_sentQueue.
SameWindow(t, u) ==
  /\ u.m_pendingQueue = t.m_pendingQueue
  /\ u.m_packetNum = t.m_packetNum
  /\ u.m_leftBound = t.m_leftBound
  /\ u.m_lcw = t.m_lcw
  /\ u.m_highestSentPacketId = t.m_highestSentPacketId
-----------------------------------------------------------------------------
\* Adding the same number to both sides of an inequality, as one fact.
LEMMA Shift ==
  ASSUME NEW h \in Int, NEW x \in Int, NEW y \in Int, x < y
  PROVE  h + x < h + y
  OBVIOUS

\* A number up to h is below h plus a positive one.
LEMMA ShiftAbove ==
  ASSUME NEW h \in Int, NEW x \in Int, x <= h, NEW y \in Int, 0 < y
  PROVE  x < h + y
  OBVIOUS

\* Arithmetic: the ids of n packets numbered on from h lie above the left
\* bound l and up to h + n.
LEMMA ShiftInto ==
  ASSUME NEW l \in Nat, NEW h \in Nat, NEW n \in Nat, NEW d \in 1..n, l <= h
  PROVE  h + d \in (l + 1)..(h + n)
  OBVIOUS

\* A new buffer is good, and nothing is pending in it.
LEMMA NewBufferGood ==
  ASSUME NEW w \in InitCwnds
  PROVE  /\ Good(NewBuffer(w))
         /\ ~Open(NewBuffer(w))
         /\ NewBuffer(w).m_packetNum = 0
<1>1. w \in 1..MaxCwnd /\ MaxCwnd \in Nat \ {0} /\ BufferSize \in Nat
  BY SenderAssumption
<1>2. <<>> \in Seq(Nat) /\ <<>> \in Seq(SentItems) /\ Len(<<>>) = 0
  OBVIOUS
<1>3. NewBuffer(w) \in Buffers
  BY <1>1, <1>2 DEF NewBuffer, Buffers
<1>4. InOrder(NewBuffer(w))
  BY <1>1, <1>2 DEF NewBuffer, InOrder
<1> QED
  BY <1>1, <1>2, <1>3, <1>4 DEF NewBuffer, Good, Open

\* What Good(t) says, in the form the provers use it.
LEMMA GoodFacts ==
  ASSUME NEW t, Good(t)
  PROVE  /\ t \in Buffers
         /\ t.m_pendingQueue \in Seq(Nat)
         /\ Len(t.m_pendingQueue) \in Nat
         /\ DOMAIN t.m_pendingQueue = 1..Len(t.m_pendingQueue)
         /\ t.m_sentQueue \in Seq(SentItems)
         /\ Len(t.m_sentQueue) \in Nat
         /\ DOMAIN t.m_sentQueue = 1..Len(t.m_sentQueue)
         /\ t.m_packetNum \in Nat
         /\ t.m_leftBound \in Nat
         /\ t.m_lcw \in 1..MaxCwnd
         /\ t.m_highestSentPacketId \in Nat
         /\ t.m_roundEndPacketId \in Nat
<1>1. t \in Buffers
  BY DEF Good
<1>2. t.m_pendingQueue \in Seq(Nat) /\ t.m_sentQueue \in Seq(SentItems)
  BY <1>1 DEF Buffers
<1>3. /\ t.m_packetNum \in Nat
      /\ t.m_leftBound \in Nat
      /\ t.m_lcw \in 1..MaxCwnd
      /\ t.m_highestSentPacketId \in Nat
      /\ t.m_roundEndPacketId \in Nat
  BY <1>1 DEF Buffers
<1> QED
  BY <1>1, <1>2, <1>3

\* Filling the buffer up to its size keeps it in order, and adding nothing
\* opens no window.
LEMMA AddPacketsGood ==
  ASSUME NEW t, Good(t), NEW n \in Nat, n <= Room(t, BufferSize)
  PROVE  /\ Good(AddPackets(t, n))
         /\ AddPackets(t, n).m_packetNum = t.m_packetNum + n
         /\ AddPackets(t, n).m_leftBound = t.m_leftBound
         /\ AddPackets(t, n).m_sentQueue = t.m_sentQueue
         /\ AddPackets(t, n).m_highestSentPacketId = t.m_highestSentPacketId
         /\ n = 0 /\ Open(AddPackets(t, n)) => Open(t)
<1> DEFINE new == [k \in 1..n |-> t.m_packetNum + k]
           pq == t.m_pendingQueue \o new
           u == AddPackets(t, n)
<1>0. BufferSize \in Nat /\ MaxCwnd \in Nat
  BY SenderAssumption
<1>t. /\ t.m_pendingQueue \in Seq(Nat)
      /\ Len(t.m_pendingQueue) \in Nat
      /\ t.m_packetNum \in Nat
      /\ t.m_highestSentPacketId \in Nat
  BY GoodFacts
<1>1. new \in Seq(Nat) /\ Len(new) = n /\ \A k \in 1..n : new[k] = t.m_packetNum + k
  BY <1>t
<1> HIDE DEF new
<1>2. /\ pq \in Seq(Nat)
      /\ Len(pq) = Len(t.m_pendingQueue) + n
      /\ DOMAIN pq = 1..(Len(t.m_pendingQueue) + n)
      /\ \A k \in 1..Len(t.m_pendingQueue) : pq[k] = t.m_pendingQueue[k]
      /\ \A k \in 1..n : pq[Len(t.m_pendingQueue) + k] = new[k]
  <2> DEFINE old == t.m_pendingQueue
  <2> HIDE DEF old
  <2>1. old \in Seq(Nat) /\ new \in Seq(Nat)
    BY <1>1, <1>t DEF old
  <2>2. /\ old \o new \in Seq(Nat)
        /\ Len(old \o new) = Len(old) + Len(new)
        /\ DOMAIN (old \o new) = 1..(Len(old) + Len(new))
        /\ \A k \in 1..Len(old) : (old \o new)[k] = old[k]
        /\ \A k \in 1..Len(new) : (old \o new)[Len(old) + k] = new[k]
    BY <2>1, ConcatFacts
  <2> QED
    BY <1>1, <2>2 DEF old
<1>3. u = [t EXCEPT !.m_pendingQueue = pq, !.m_packetNum = t.m_packetNum + n]
  BY DEF AddPackets, new
<1>a. t.m_packetNum + n \in Nat
  BY GoodFacts
<1> HIDE DEF u, pq
<1>4. /\ u.m_pendingQueue = pq
      /\ u.m_packetNum = t.m_packetNum + n
      /\ u.m_sentQueue = t.m_sentQueue
      /\ u.m_leftBound = t.m_leftBound
      /\ u.m_lcw = t.m_lcw
      /\ u.m_highestSentPacketId = t.m_highestSentPacketId
  BY <1>3, GoodFacts DEF Buffers
<1>5. u \in Buffers
  <2>1. t \in Buffers /\ pq \in Seq(Nat) /\ t.m_packetNum + n \in Nat
    BY <1>2, <1>a, GoodFacts
  <2> QED
    BY <2>1, <1>3 DEF Buffers
<1>b. /\ \A k \in 1..Len(t.m_pendingQueue) :
           t.m_pendingQueue[k] = t.m_highestSentPacketId + k
      /\ t.m_packetNum = t.m_highestSentPacketId + Len(t.m_pendingQueue)
  BY GoodFacts DEF Good, InOrder
<1>6. \A k \in 1..Len(pq) : pq[k] = t.m_highestSentPacketId + k
  <2>1. ASSUME NEW k \in 1..Len(pq) PROVE pq[k] = t.m_highestSentPacketId + k
    <3>0. k \in 1..(Len(t.m_pendingQueue) + n)
      BY <1>2
    <3>1. CASE k <= Len(t.m_pendingQueue)
      <4>1. k \in 1..Len(t.m_pendingQueue)
        BY <1>t, <3>0, <3>1
      <4> QED
        BY <1>2, <1>b, <4>1
    <3>2. CASE k > Len(t.m_pendingQueue)
      <4>1. k - Len(t.m_pendingQueue) \in 1..n
        BY <1>t, <3>0, <3>2
      <4>2. k = Len(t.m_pendingQueue) + (k - Len(t.m_pendingQueue))
        BY <1>t, <3>0
      <4>3. pq[k] = t.m_packetNum + (k - Len(t.m_pendingQueue))
        BY <1>1, <1>2, <4>1, <4>2
      <4> QED
        BY <1>t, <1>b, <3>0, <4>3
    <3> QED
      BY <1>t, <3>0, <3>1, <3>2
  <2> QED
    BY <2>1
<1>7. InOrder(u)
  <2>1. u.m_packetNum = u.m_highestSentPacketId + Len(u.m_pendingQueue)
    <3>1. Len(pq) = Len(t.m_pendingQueue) + n
      BY <1>2
    <3>2. t.m_packetNum = t.m_highestSentPacketId + Len(t.m_pendingQueue)
      BY <1>b
    <3>3. t.m_packetNum + n = t.m_highestSentPacketId + Len(pq)
      BY <3>1, <3>2, <1>t
    <3> QED
      BY <3>3, <1>4
  <2>2. \A k \in DOMAIN u.m_pendingQueue :
          u.m_pendingQueue[k] = u.m_highestSentPacketId + k
    BY <1>2, <1>4, <1>6
  <2> QED
    BY <1>4, <2>1, <2>2 DEF Good, InOrder
<1>8. Good(u)
  <2> HIDE DEF u, pq
  <2> QED
    BY <1>0, <1>2, <1>4, <1>5, <1>7, GoodFacts DEF Good, Room
<1>9. n = 0 /\ Open(u) => Open(t)
  <2> HIDE DEF u, pq
  <2> QED
    BY <1>2, <1>4, GoodFacts DEF Open
<1> QED
  BY <1>4, <1>8, <1>9 DEF u

\* SendWindowData sends the pending packets up to the window's right bound;
\* when the window is one packet, that is never more than one.
LEMMA InWindowFacts ==
  ASSUME NEW t, Good(t)
  PROVE  /\ InWindow(t) \in 0..Len(t.m_pendingQueue)
         /\ \A k \in 1..Len(t.m_pendingQueue) :
              t.m_highestSentPacketId + k <= t.m_leftBound + t.m_lcw
                <=> k <= InWindow(t)
<1> DEFINE ids == t.m_pendingQueue
           len == Len(t.m_pendingQueue)
           bound == t.m_leftBound + t.m_lcw
           n == FrontUpTo(ids, bound)
<1>1. MaxCwnd \in Nat \ {0}
  BY SenderAssumption
<1>2. /\ len \in Nat /\ DOMAIN ids = 1..len /\ Len(ids) = len
      /\ t.m_leftBound \in Nat /\ t.m_lcw \in 1..MaxCwnd
      /\ t.m_highestSentPacketId \in Nat
  BY GoodFacts
<1>3. bound \in Int
  BY <1>1, <1>2
<1>4. /\ \A k \in 1..len : ids[k] = t.m_highestSentPacketId + k
      /\ t.m_leftBound <= t.m_highestSentPacketId
  BY <1>2 DEF Good, InOrder
<1>5. InWindow(t) = IF t.m_lcw = 1 /\ n > 1 THEN 1 ELSE n
  BY DEF InWindow
<1> HIDE DEF ids, len, bound
<1>6. /\ \A k \in 1..len : ids[k] \in Int
      /\ \A j, k \in 1..len : j < k => ids[j] < ids[k]
  BY <1>2, <1>4
<1>7. n \in 0..len /\ \A k \in 1..len : ids[k] <= bound <=> k <= n
  BY <1>2, <1>3, <1>6, FrontUpToSplits
<1> HIDE DEF n
<1>8. ~(t.m_lcw = 1 /\ n > 1)
  <2> SUFFICES ASSUME t.m_lcw = 1, n > 1 PROVE FALSE
    OBVIOUS
  <2>1. 2 \in 1..len /\ 2 <= n
    BY <1>2, <1>7
  <2>2. ids[2] <= bound /\ ids[2] = t.m_highestSentPacketId + 2
    BY <1>4, <1>7, <2>1
  <2> QED
    BY <1>2, <1>4, <2>2 DEF bound
<1>9. InWindow(t) = n
  BY <1>5, <1>8
<1>10. \A k \in 1..len : t.m_highestSentPacketId + k <= bound <=> k <= n
  BY <1>4, <1>7
<1> QED
  BY <1>7, <1>9, <1>10 DEF len, bound

\* SendWindowData would send something exactly when the window is open.
LEMMA InWindowIffOpen ==
  ASSUME NEW t, Good(t)
  PROVE  InWindow(t) > 0 <=> Open(t)
<1>1. /\ Len(t.m_pendingQueue) \in Nat
      /\ InWindow(t) \in 0..Len(t.m_pendingQueue)
  BY GoodFacts, InWindowFacts
<1>2. CASE Len(t.m_pendingQueue) > 0
  <2>1. 1 \in 1..Len(t.m_pendingQueue)
    BY <1>1, <1>2
  <2>2. t.m_highestSentPacketId + 1 <= t.m_leftBound + t.m_lcw
          <=> 1 <= InWindow(t)
    BY <2>1, InWindowFacts
  <2> QED
    BY <1>1, <1>2, <2>2 DEF Open
<1>3. CASE Len(t.m_pendingQueue) = 0
  BY <1>1, <1>3 DEF Open
<1> QED
  BY <1>1, <1>2, <1>3

\* SendWindowData keeps the buffer good, closes the window, and every packet
\* it sends goes to the end of m_sentQueue.
LEMMA SendWindowGood ==
  ASSUME NEW t, Good(t)
  PROVE  /\ Good(SendWindowData(t).tx)
         /\ ~Open(SendWindowData(t).tx)
         /\ SendWindowData(t).tx.m_packetNum = t.m_packetNum
         /\ SendWindowData(t).tx.m_leftBound = t.m_leftBound
         /\ \A id \in Nat :
              \/ Has(t, id)
              \/ /\ t.m_highestSentPacketId < id
                 /\ id <= SendWindowData(t).tx.m_highestSentPacketId
              => Has(SendWindowData(t).tx, id)
<1> DEFINE n == InWindow(t)
           len == Len(t.m_pendingQueue)
           h == t.m_highestSentPacketId
           pq == SubSeq(t.m_pendingQueue, n + 1, len)
           new == [k \in 1..n |-> SentItem(t.m_pendingQueue[k])]
           sq == t.m_sentQueue \o new
           u == SendPackets(t, n)
<1>0. /\ BufferSize \in Nat /\ MaxCwnd \in Nat \ {0}
      /\ t \in Buffers
      /\ t.m_pendingQueue \in Seq(Nat) /\ len \in Nat
      /\ DOMAIN t.m_pendingQueue = 1..len
      /\ t.m_sentQueue \in Seq(SentItems) /\ Len(t.m_sentQueue) \in Nat
      /\ DOMAIN t.m_sentQueue = 1..Len(t.m_sentQueue)
      /\ t.m_packetNum \in Nat /\ t.m_leftBound \in Nat
      /\ t.m_lcw \in 1..MaxCwnd /\ h \in Nat
  BY SenderAssumption, GoodFacts
<1>1. /\ \A k \in 1..len : t.m_pendingQueue[k] = h + k
      /\ t.m_packetNum = h + len
      /\ t.m_leftBound <= h
      /\ len <= BufferSize
      /\ h <= t.m_leftBound + MaxCwnd
  BY <1>0 DEF Good, InOrder
<1>2. /\ n \in 0..len
      /\ \A k \in 1..len : h + k <= t.m_leftBound + t.m_lcw <=> k <= n
  BY InWindowFacts
<1>3. SendWindowData(t).tx = u
  BY DEF SendWindowData
<1> HIDE DEF n, len, h
<1>4. /\ pq \in Seq(Nat) /\ Len(pq) = len - n /\ DOMAIN pq = 1..(len - n)
      /\ \A k \in 1..(len - n) : pq[k] = t.m_pendingQueue[n + k]
  <2>1. t.m_pendingQueue \in Seq(Nat) /\ n \in 0..Len(t.m_pendingQueue)
    BY <1>0, <1>2 DEF len
  <2> HIDE DEF pq
  <2>2. pq = SubSeq(t.m_pendingQueue, n + 1, Len(t.m_pendingQueue))
    BY DEF pq, len
  <2>3. LET a == t.m_pendingQueue IN
        /\ SubSeq(a, n + 1, Len(a)) \in Seq(Nat)
        /\ Len(SubSeq(a, n + 1, Len(a))) = Len(a) - n
        /\ DOMAIN SubSeq(a, n + 1, Len(a)) = 1..(Len(a) - n)
        /\ \A k \in 1..(Len(a) - n) : SubSeq(a, n + 1, Len(a))[k] = a[n + k]
    BY <2>1, SuffixFacts, Zenon
  <2> QED
    BY <2>2, <2>3, Zenon DEF len
<1>5. /\ new \in Seq(SentItems) /\ Len(new) = n
      /\ \A k \in 1..n : new[k].m_packetId = h + k
  <2>1. ASSUME NEW k \in 1..n
        PROVE  /\ SentItem(t.m_pendingQueue[k]) \in SentItems
               /\ SentItem(t.m_pendingQueue[k]).m_packetId = h + k
    <3>1. k \in 1..len
      BY <1>0, <1>2
    <3>2. t.m_pendingQueue[k] = h + k
      BY <1>1, <3>1
    <3>3. h + k \in Nat
      BY <1>0, <3>1
    <3> QED
      BY <3>2, <3>3 DEF SentItem, SentItems
  <2> QED
    BY <1>0, <1>2, <2>1
<1>6. u = [t EXCEPT !.m_pendingQueue = pq, !.m_sentQueue = sq,
                    !.m_highestSentPacketId = h + n]
  <2>1. (IF n > 0 /\ t.m_pendingQueue[n] > h THEN t.m_pendingQueue[n] ELSE h)
          = h + n
    BY <1>0, <1>1, <1>2
  <2> QED
    BY <2>1 DEF SendPackets, len, h
<1> HIDE DEF new, pq
<1>7. /\ sq \in Seq(SentItems)
      /\ Len(sq) = Len(t.m_sentQueue) + n
      /\ DOMAIN sq = 1..(Len(t.m_sentQueue) + n)
      /\ \A k \in 1..Len(t.m_sentQueue) : sq[k] = t.m_sentQueue[k]
      /\ \A k \in 1..n : sq[Len(t.m_sentQueue) + k] = new[k]
  <2> DEFINE old == t.m_sentQueue
  <2> HIDE DEF old
  <2>1. old \in Seq(SentItems) /\ new \in Seq(SentItems)
    BY <1>0, <1>5 DEF old
  <2>2. /\ old \o new \in Seq(SentItems)
        /\ Len(old \o new) = Len(old) + Len(new)
        /\ DOMAIN (old \o new) = 1..(Len(old) + Len(new))
        /\ \A k \in 1..Len(old) : (old \o new)[k] = old[k]
        /\ \A k \in 1..Len(new) : (old \o new)[Len(old) + k] = new[k]
    BY <2>1, ConcatFacts
  <2> QED
    BY <1>5, <2>2 DEF old
<1> HIDE DEF sq, u
<1>p. /\ n \in Nat /\ n <= len /\ h \in Nat /\ t.m_leftBound \in Nat
      /\ t.m_leftBound <= h /\ Len(t.m_sentQueue) \in Nat
  BY <1>0, <1>1, <1>2
<1>8. h + n \in Nat
  BY <1>0, <1>2
<1>9. /\ u.m_pendingQueue = pq
      /\ u.m_sentQueue = sq
      /\ u.m_highestSentPacketId = h + n
      /\ u.m_packetNum = t.m_packetNum
      /\ u.m_leftBound = t.m_leftBound
      /\ u.m_lcw = t.m_lcw
  BY <1>0, <1>6 DEF Buffers
<1>10. u \in Buffers
  <2>1. t \in Buffers /\ pq \in Seq(Nat) /\ sq \in Seq(SentItems)
    BY <1>0, <1>4, <1>7
  <2> QED
    BY <2>1, <1>6, <1>8 DEF Buffers
<1>11. \A k \in 1..Len(sq) :
         /\ k <= Len(t.m_sentQueue) =>
              k \in 1..Len(t.m_sentQueue) /\ sq[k] = t.m_sentQueue[k]
         /\ k > Len(t.m_sentQueue) =>
              sq[k].m_packetId = h + (k - Len(t.m_sentQueue))
  <2> SUFFICES ASSUME NEW k \in 1..Len(sq)
               PROVE  /\ k <= Len(t.m_sentQueue) =>
                           /\ k \in 1..Len(t.m_sentQueue)
                           /\ sq[k] = t.m_sentQueue[k]
                      /\ k > Len(t.m_sentQueue) =>
                           sq[k].m_packetId = h + (k - Len(t.m_sentQueue))
    OBVIOUS
  <2>0. k \in 1..(Len(t.m_sentQueue) + n)
    BY <1>7
  <2>1. CASE k <= Len(t.m_sentQueue)
    <3>1. k \in 1..Len(t.m_sentQueue)
      BY <1>0, <2>0, <2>1
    <3> QED
      BY <1>0, <1>7, <2>0, <2>1, <3>1
  <2>2. CASE k > Len(t.m_sentQueue)
    <3>1. k - Len(t.m_sentQueue) \in 1..n
      BY <1>0, <1>2, <2>0, <2>2
    <3>2. k = Len(t.m_sentQueue) + (k - Len(t.m_sentQueue))
      BY <1>0, <2>0
    <3>3. sq[k].m_packetId = h + (k - Len(t.m_sentQueue))
      BY <1>5, <1>7, <3>1, <3>2
    <3> QED
      BY <1>0, <2>0, <2>2, <3>3
  <2> QED
    BY <1>0, <2>0, <2>1, <2>2
<1>12. /\ \A k \in 1..Len(t.m_sentQueue) :
            t.m_sentQueue[k].m_packetId \in (t.m_leftBound + 1)..h
       /\ \A j, k \in 1..Len(t.m_sentQueue) :
            j < k => t.m_sentQueue[j].m_packetId < t.m_sentQueue[k].m_packetId
  BY <1>0 DEF Good, InOrder, h
<1>13. \A k \in 1..Len(sq) :
         sq[k].m_packetId \in (t.m_leftBound + 1)..(h + n)
  <2> SUFFICES ASSUME NEW k \in 1..Len(sq)
               PROVE  sq[k].m_packetId \in (t.m_leftBound + 1)..(h + n)
    OBVIOUS
  <2>0. k \in 1..(Len(t.m_sentQueue) + n)
    BY <1>7
  <2>1. CASE k <= Len(t.m_sentQueue)
    <3>1. /\ k \in 1..Len(t.m_sentQueue)
          /\ sq[k].m_packetId = t.m_sentQueue[k].m_packetId
      BY <1>11, <2>1
    <3>2. sq[k].m_packetId \in (t.m_leftBound + 1)..h
      BY <1>12, <3>1
    <3> QED
      BY <1>0, <1>2, <3>2
  <2>2. CASE k > Len(t.m_sentQueue)
    <3>1. sq[k].m_packetId = h + (k - Len(t.m_sentQueue))
      BY <1>11, <2>2
    <3> QED
      <4>1. k - Len(t.m_sentQueue) \in 1..n
        BY <1>p, <2>0, <2>2
      <4>2. h + (k - Len(t.m_sentQueue)) \in (t.m_leftBound + 1)..(h + n)
        BY <1>p, <4>1, ShiftInto
      <4> QED
        BY <3>1, <4>2
  <2> QED
    BY <1>0, <2>0, <2>1, <2>2
<1>14. \A j, k \in 1..Len(sq) : j < k => sq[j].m_packetId < sq[k].m_packetId
  <2> SUFFICES ASSUME NEW j \in 1..Len(sq), NEW k \in 1..Len(sq), j < k
               PROVE  sq[j].m_packetId < sq[k].m_packetId
    OBVIOUS
  <2>0. j \in 1..(Len(t.m_sentQueue) + n) /\ k \in 1..(Len(t.m_sentQueue) + n)
    BY <1>7
  <2>1. CASE k <= Len(t.m_sentQueue)
    <3>1. j <= Len(t.m_sentQueue)
      BY <1>0, <1>2, <2>0, <2>1
    <3>2. /\ j \in 1..Len(t.m_sentQueue) /\ k \in 1..Len(t.m_sentQueue)
          /\ sq[j] = t.m_sentQueue[j] /\ sq[k] = t.m_sentQueue[k]
      BY <1>11, <2>1, <3>1
    <3> QED
      BY <1>12, <3>2
  <2>2. CASE j <= Len(t.m_sentQueue) /\ k > Len(t.m_sentQueue)
    <3>1. /\ j \in 1..Len(t.m_sentQueue)
          /\ sq[j] = t.m_sentQueue[j]
          /\ sq[k].m_packetId = h + (k - Len(t.m_sentQueue))
      BY <1>11, <2>2
    <3>2. sq[j].m_packetId \in (t.m_leftBound + 1)..h
      BY <1>12, <3>1
    <3> QED
      <4>1. k - Len(t.m_sentQueue) \in 1..n
        BY <1>p, <2>0, <2>2
      <4>2. sq[j].m_packetId \in Int /\ sq[j].m_packetId <= h
        BY <1>p, <3>2
      <4>3. k - Len(t.m_sentQueue) \in Int /\ 0 < k - Len(t.m_sentQueue) /\ h \in Int
        BY <1>p, <2>0, <2>2
      <4>4. sq[j].m_packetId < h + (k - Len(t.m_sentQueue))
        BY <4>2, <4>3, ShiftAbove
      <4> QED
        BY <3>1, <4>4
  <2>3. CASE j > Len(t.m_sentQueue)
    <3>0. k > Len(t.m_sentQueue)
      BY <1>0, <1>2, <2>0, <2>3
    <3>1. /\ sq[j].m_packetId = h + (j - Len(t.m_sentQueue))
          /\ sq[k].m_packetId = h + (k - Len(t.m_sentQueue))
      BY <1>11, <2>3, <3>0
    <3>2. /\ j - Len(t.m_sentQueue) \in Int /\ k - Len(t.m_sentQueue) \in Int
          /\ h \in Int
      BY <1>p, <2>0
    <3>3. j - Len(t.m_sentQueue) < k - Len(t.m_sentQueue)
      BY <1>p, <2>0
    <3>4. h + (j - Len(t.m_sentQueue)) < h + (k - Len(t.m_sentQueue))
      BY <3>2, <3>3, Shift
    <3> QED
      BY <3>1, <3>4
  <2> QED
    BY <1>0, <1>2, <2>0, <2>1, <2>2, <2>3
<1>15. \A k \in 1..(len - n) : pq[k] = (h + n) + k
  <2> SUFFICES ASSUME NEW k \in 1..(len - n) PROVE pq[k] = (h + n) + k
    OBVIOUS
  <2>1. n + k \in 1..len
    BY <1>0, <1>2
  <2>2. pq[k] = h + (n + k)
    BY <1>1, <1>4, <2>1
  <2> QED
    BY <1>0, <1>2, <2>2
<1>16. t.m_packetNum = (h + n) + Len(pq)
  <2>1. Len(pq) = len - n
    BY <1>4
  <2> QED
    BY <1>0, <1>1, <1>2, <2>1
<1>17. t.m_leftBound <= h + n
  BY <1>0, <1>1, <1>2
<1>18. InOrder(u)
  BY <1>4, <1>7, <1>9, <1>13, <1>14, <1>15, <1>16, <1>17 DEF InOrder
<1>19. h + n <= t.m_leftBound + MaxCwnd
  <2>1. CASE n = 0
    BY <1>0, <1>1, <2>1
  <2>2. CASE n > 0
    <3>1. n \in 1..len
      BY <1>0, <1>2, <2>2
    <3>2. h + n <= t.m_leftBound + t.m_lcw
      <4>1. n <= n
        BY <1>p
      <4> QED
        BY <1>2, <3>1, <4>1
    <3> QED
      BY <1>0, <1>2, <3>2
  <2> QED
    BY <1>2, <2>1, <2>2
<1>20. Len(pq) <= BufferSize
  BY <1>0, <1>1, <1>2, <1>4
<1>21. Good(u)
  BY <1>9, <1>10, <1>18, <1>19, <1>20 DEF Good
<1>22. ~Open(u)
  <2> SUFFICES ASSUME len - n > 0, (h + n) + 1 <= t.m_leftBound + t.m_lcw
               PROVE  FALSE
    BY <1>4, <1>9 DEF Open
  <2>1. n + 1 \in 1..len /\ ~(n + 1 <= n)
    BY <1>0, <1>2
  <2>2. ~(h + (n + 1) <= t.m_leftBound + t.m_lcw)
    BY <1>2, <2>1
  <2> QED
    BY <1>0, <1>2, <2>2
<1>23. ASSUME NEW id \in Nat, Has(t, id) PROVE Has(u, id)
  <2>1. PICK k \in 1..Len(t.m_sentQueue) : t.m_sentQueue[k].m_packetId = id
    BY <1>23 DEF Has
  <2>2. k \in 1..Len(sq) /\ sq[k] = t.m_sentQueue[k]
    BY <1>7, <1>p, <2>1
  <2> QED
    BY <1>9, <2>1, <2>2 DEF Has
<1>24. ASSUME NEW id \in Nat, h < id, id <= h + n PROVE Has(u, id)
  <2>1. id - h \in 1..n
    BY <1>p, <1>24
  <2>2. Len(t.m_sentQueue) + (id - h) \in 1..Len(sq)
    BY <1>7, <1>p, <2>1
  <2>3. sq[Len(t.m_sentQueue) + (id - h)].m_packetId = h + (id - h)
    BY <1>5, <1>7, <2>1
  <2>4. h + (id - h) = id
    BY <1>p
  <2> QED
    BY <1>9, <2>2, <2>3, <2>4 DEF Has
<1> QED
  BY <1>3, <1>9, <1>21, <1>22, <1>23, <1>24 DEF h

\* An ACK for the oldest packet moves the left bound forward to it.
LEMMA OrderedAckGood ==
  ASSUME NEW t, Good(t), NEW id, IsOrderedAck(t, id)
  PROVE  /\ Good(ProcessOrderedAck(t, id))
         /\ ProcessOrderedAck(t, id).m_packetNum = t.m_packetNum
         /\ t.m_leftBound <= ProcessOrderedAck(t, id).m_leftBound
         /\ Keeps(t, ProcessOrderedAck(t, id), id)
         /\ ProcessOrderedAck(t, id).m_highestSentPacketId
              = t.m_highestSentPacketId
<1> DEFINE old == t.m_sentQueue
           sq == Tail(old)
           u == ProcessOrderedAck(t, id)
           L == Len(old)
           h == t.m_highestSentPacketId
<1>0. /\ MaxCwnd \in Nat \ {0}
      /\ t \in Buffers
      /\ old \in Seq(SentItems) /\ L \in Nat /\ DOMAIN old = 1..L
      /\ t.m_leftBound \in Nat /\ h \in Nat
  BY SenderAssumption, GoodFacts
<1>1. /\ \A k \in 1..L : old[k].m_packetId \in (t.m_leftBound + 1)..h
      /\ \A j, k \in 1..L : j < k => old[j].m_packetId < old[k].m_packetId
      /\ h <= t.m_leftBound + MaxCwnd
  BY <1>0 DEF Good, InOrder
<1>2. old # <<>> /\ Head(old).m_packetId = id
  BY DEF IsOrderedAck
<1>3. u = [t EXCEPT !.m_sentQueue = sq, !.m_leftBound = id]
  BY DEF ProcessOrderedAck
<1> HIDE DEF old
<1>4. L > 0 /\ 1 \in 1..L /\ id = old[1].m_packetId
  BY <1>0, <1>2
<1>5. /\ sq \in Seq(SentItems) /\ Len(sq) = L - 1 /\ DOMAIN sq = 1..(L - 1)
      /\ \A k \in 1..(L - 1) : sq[k] = old[k + 1]
  BY <1>0, <1>2
<1> HIDE DEF sq, u, L, h
<1>6. id \in (t.m_leftBound + 1)..h
  BY <1>1, <1>4
<1>7. id \in Nat /\ t.m_leftBound <= id /\ id <= h /\ h <= id + MaxCwnd
  BY <1>0, <1>1, <1>6
<1>8. /\ u.m_sentQueue = sq
      /\ u.m_leftBound = id
      /\ u.m_pendingQueue = t.m_pendingQueue
      /\ u.m_packetNum = t.m_packetNum
      /\ u.m_lcw = t.m_lcw
      /\ u.m_highestSentPacketId = h
  BY <1>0, <1>3 DEF Buffers, h
<1>9. u \in Buffers
  <2>1. t \in Buffers /\ sq \in Seq(SentItems) /\ id \in Nat
    BY <1>0, <1>5, <1>7
  <2> QED
    BY <2>1, <1>3 DEF Buffers
<1>10. \A k \in 1..(L - 1) : sq[k].m_packetId \in (id + 1)..h
  <2> SUFFICES ASSUME NEW k \in 1..(L - 1)
               PROVE  sq[k].m_packetId \in (id + 1)..h
    OBVIOUS
  <2>1. k + 1 \in 1..L /\ 1 < k + 1
    BY <1>0
  <2>2. /\ old[k + 1].m_packetId \in (t.m_leftBound + 1)..h
        /\ old[1].m_packetId < old[k + 1].m_packetId
    BY <1>1, <1>4, <2>1
  <2>3. sq[k].m_packetId = old[k + 1].m_packetId
    BY <1>5
  <2> QED
    BY <1>0, <1>4, <1>7, <2>2, <2>3
<1>11. \A j, k \in 1..(L - 1) : j < k => sq[j].m_packetId < sq[k].m_packetId
  <2> SUFFICES ASSUME NEW j \in 1..(L - 1), NEW k \in 1..(L - 1), j < k
               PROVE  sq[j].m_packetId < sq[k].m_packetId
    OBVIOUS
  <2>1. j + 1 \in 1..L /\ k + 1 \in 1..L /\ j + 1 < k + 1
    BY <1>0
  <2> QED
    BY <1>1, <1>5, <2>1
<1>12. InOrder(u)
  BY <1>5, <1>7, <1>8, <1>10, <1>11 DEF Good, InOrder, h
<1>13. Good(u)
  BY <1>7, <1>8, <1>9, <1>12 DEF Good
<1>14. ASSUME NEW i \in Nat, i > id, Has(t, i) PROVE Has(u, i)
  <2>1. PICK k \in 1..L : old[k].m_packetId = i
    BY <1>14 DEF Has, L, old
  <2>2. k # 1
    BY <1>4, <1>7, <1>14, <2>1
  <2>3. k - 1 \in 1..(L - 1) /\ (k - 1) + 1 = k
    BY <1>0, <2>1, <2>2
  <2>4. sq[k - 1].m_packetId = i
    BY <1>5, <2>1, <2>3
  <2> QED
    BY <1>5, <1>8, <2>3, <2>4 DEF Has
<1> QED
  BY <1>7, <1>8, <1>13, <1>14 DEF u, h, Keeps

\* Whatever window a round ends with is one the buffer may have.
LEMMA CongestionGood ==
  ASSUME NEW t, Good(t), NEW id, NEW cwnd \in 1..MaxCwnd
  PROVE  /\ Good(ProcessCongestion(t, id, cwnd))
         /\ ProcessCongestion(t, id, cwnd).m_packetNum = t.m_packetNum
         /\ ProcessCongestion(t, id, cwnd).m_leftBound = t.m_leftBound
         /\ ProcessCongestion(t, id, cwnd).m_sentQueue = t.m_sentQueue
         /\ ProcessCongestion(t, id, cwnd).m_highestSentPacketId
              = t.m_highestSentPacketId
<1> DEFINE u == ProcessCongestion(t, id, cwnd)
<1>1. /\ t \in Buffers
      /\ t.m_highestSentPacketId \in Nat /\ t.m_roundEndPacketId \in Nat
  BY GoodFacts
<1>2. /\ u \in Buffers
      /\ u.m_pendingQueue = t.m_pendingQueue
      /\ u.m_sentQueue = t.m_sentQueue
      /\ u.m_packetNum = t.m_packetNum
      /\ u.m_leftBound = t.m_leftBound
      /\ u.m_highestSentPacketId = t.m_highestSentPacketId
  <2>1. CASE EndsRound(t, id)
    <3>1. u = [t EXCEPT !.m_roundEndPacketId = t.m_highestSentPacketId,
                        !.m_lcw = cwnd]
      BY <2>1 DEF ProcessCongestion
    <3> QED
      BY <1>1, <3>1 DEF Buffers
  <2>2. CASE ~EndsRound(t, id)
    <3> DEFINE r == IF t.m_roundEndPacketId = 0 THEN t.m_highestSentPacketId
                    ELSE t.m_roundEndPacketId
    <3>1. u = [t EXCEPT !.m_roundEndPacketId = r]
      BY <2>2 DEF ProcessCongestion
    <3>2. r \in Nat
      BY <1>1
    <3> HIDE DEF r
    <3> QED
      BY <1>1, <3>1, <3>2 DEF Buffers
  <2> QED
    BY <2>1, <2>2
<1> HIDE DEF u
<1>3. Good(u)
  BY <1>2 DEF Good, InOrder
<1> QED
  BY <1>2, <1>3 DEF u

\* A change of m_sentQueue alone keeps the buffer good when the queue stays an
\* increasing sequence of ids in the same range.
LEMMA SentQueueGood ==
  ASSUME NEW t, Good(t), NEW sq \in Seq(SentItems),
         \A k \in 1..Len(sq) : sq[k].m_packetId \in
           (t.m_leftBound + 1)..t.m_highestSentPacketId,
         \A j, k \in 1..Len(sq) : j < k => sq[j].m_packetId < sq[k].m_packetId
  PROVE  /\ Good([t EXCEPT !.m_sentQueue = sq])
         /\ SameWindow(t, [t EXCEPT !.m_sentQueue = sq])
         /\ [t EXCEPT !.m_sentQueue = sq].m_sentQueue = sq
<1> DEFINE u == [t EXCEPT !.m_sentQueue = sq]
<1>1. t \in Buffers
  BY GoodFacts
<1>2. u \in Buffers /\ u.m_sentQueue = sq /\ SameWindow(t, u)
  BY <1>1 DEF Buffers, SameWindow
<1>3. DOMAIN sq = 1..Len(sq)
  OBVIOUS
<1> HIDE DEF u
<1>4. InOrder(u)
  BY <1>2, <1>3 DEF Good, InOrder, SameWindow
<1>5. Good(u)
  BY <1>2, <1>4 DEF Good, SameWindow
<1> QED
  BY <1>2, <1>5 DEF u

\* Any other ACK only shortens m_sentQueue.
LEMMA UnorderedAckGood ==
  ASSUME NEW t, Good(t), NEW id \in Nat
  PROVE  /\ Good(ProcessUnorderedAck(t, id).tx)
         /\ SameWindow(t, ProcessUnorderedAck(t, id).tx)
         /\ Keeps(t, ProcessUnorderedAck(t, id).tx, id)
<1> DEFINE old == t.m_sentQueue
           L == Len(old)
           ids == [k \in DOMAIN old |-> old[k].m_packetId]
           passed == FrontUpTo(ids, id)
           sq == SubSeq(old, passed + 1, L)
<1>0. /\ old \in Seq(SentItems) /\ L \in Nat /\ DOMAIN old = 1..L
      /\ t.m_leftBound \in Nat /\ t.m_highestSentPacketId \in Nat
  BY GoodFacts
<1>1. /\ \A k \in 1..L : old[k].m_packetId \in
           (t.m_leftBound + 1)..t.m_highestSentPacketId
      /\ \A j, k \in 1..L : j < k => old[j].m_packetId < old[k].m_packetId
  BY <1>0 DEF Good, InOrder
<1>2. CASE t.m_sentQueue # <<>> /\ id > Head(t.m_sentQueue).m_packetId
  <2>1. ProcessUnorderedAck(t, id).tx = [t EXCEPT !.m_sentQueue = sq]
    BY <1>2 DEF ProcessUnorderedAck
  <2> HIDE DEF old, L
  <2>2. /\ DOMAIN ids = 1..L /\ Len(ids) = L
        /\ \A k \in 1..L : ids[k] = old[k].m_packetId
    BY <1>0
  <2> HIDE DEF ids
  <2>3. /\ \A k \in 1..L : ids[k] \in Int
        /\ \A j, k \in 1..L : j < k => ids[j] < ids[k]
    BY <1>0, <1>1, <2>2
  <2>4. passed \in 0..L /\ \A k \in 1..L : ids[k] <= id <=> k <= passed
    <3>1. id \in Int /\ L \in Nat
      BY <1>0
    <3> QED
      BY <2>2, <2>3, <3>1, FrontUpToSplits
  <2> HIDE DEF passed
  <2>5. /\ sq \in Seq(SentItems) /\ Len(sq) = L - passed
        /\ \A k \in 1..(L - passed) : sq[k] = old[passed + k]
    BY <1>0, <2>4, SuffixFacts DEF L
  <2> HIDE DEF sq
  <2>6. \A k \in 1..Len(sq) : passed + k \in 1..L /\ sq[k] = old[passed + k]
    BY <1>0, <2>4, <2>5
  <2>7. \A k \in 1..Len(sq) : sq[k].m_packetId \in
           (t.m_leftBound + 1)..t.m_highestSentPacketId
    BY <1>1, <2>6
  <2>8. ASSUME NEW j \in 1..Len(sq), NEW k \in 1..Len(sq), j < k
        PROVE  sq[j].m_packetId < sq[k].m_packetId
    <3>1. passed + j < passed + k
      BY <2>4, <2>8
    <3> QED
      BY <1>1, <2>6, <3>1
  <2>9. /\ Good(ProcessUnorderedAck(t, id).tx)
        /\ SameWindow(t, ProcessUnorderedAck(t, id).tx)
        /\ ProcessUnorderedAck(t, id).tx.m_sentQueue = sq
    BY <2>1, <2>5, <2>7, <2>8, SentQueueGood
  <2>10. ASSUME NEW i \in Nat, i > id, Has(t, i)
         PROVE  Has(ProcessUnorderedAck(t, id).tx, i)
    <3>1. PICK k \in 1..L : old[k].m_packetId = i
      BY <2>10 DEF Has, L, old
    <3>2. ids[k] = i /\ ~(i <= id)
      BY <2>2, <2>10, <3>1
    <3>3. ~(k <= passed)
      BY <2>4, <3>2
    <3>4. k - passed \in 1..Len(sq) /\ passed + (k - passed) = k
      BY <1>0, <2>4, <2>5, <3>3
    <3>5. sq[k - passed].m_packetId = i
      BY <2>6, <3>1, <3>4
    <3> QED
      BY <2>9, <3>4, <3>5 DEF Has
  <2> QED
    BY <2>9, <2>10 DEF Keeps
<1>3. CASE ~(t.m_sentQueue # <<>> /\ id > Head(t.m_sentQueue).m_packetId)
  <2>1. ProcessUnorderedAck(t, id).tx = t
    BY <1>3 DEF ProcessUnorderedAck
  <2> QED
    BY <2>1 DEF SameWindow, Keeps
<1> QED
  BY <1>2, <1>3

\* A timeout only marks packets as expired.
LEMMA TimeoutGood ==
  ASSUME NEW t, Good(t), NEW n \in Nat
  PROVE  /\ Good(CheckAndMoveTimeoutPackets(t, n).tx)
         /\ SameWindow(t, CheckAndMoveTimeoutPackets(t, n).tx)
         /\ Keeps(t, CheckAndMoveTimeoutPackets(t, n).tx, 0)
<1> DEFINE old == t.m_sentQueue
           L == Len(old)
           item(k) == [old[k] EXCEPT !.expired = (k <= n)]
           sq == [k \in DOMAIN old |-> item(k)]
<1>0. /\ old \in Seq(SentItems) /\ L \in Nat /\ DOMAIN old = 1..L
  BY GoodFacts
<1>1. /\ \A k \in 1..L : old[k].m_packetId \in
           (t.m_leftBound + 1)..t.m_highestSentPacketId
      /\ \A j, k \in 1..L : j < k => old[j].m_packetId < old[k].m_packetId
  BY <1>0 DEF Good, InOrder
<1>2. CheckAndMoveTimeoutPackets(t, n).tx = [t EXCEPT !.m_sentQueue = sq]
  BY DEF CheckAndMoveTimeoutPackets
<1> HIDE DEF old
<1>3. ASSUME NEW k \in 1..L
      PROVE  item(k) \in SentItems /\ item(k).m_packetId = old[k].m_packetId
  <2>1. old[k] \in SentItems
    BY <1>0
  <2>2. (k <= n) \in BOOLEAN
    OBVIOUS
  <2> QED
    BY <2>1, <2>2 DEF SentItems
<1> HIDE DEF item
<1>4. /\ sq \in Seq(SentItems) /\ Len(sq) = L
      /\ \A k \in 1..L : sq[k].m_packetId = old[k].m_packetId
  BY <1>0, <1>3
<1> HIDE DEF sq, L
<1>5. /\ Good(CheckAndMoveTimeoutPackets(t, n).tx)
      /\ SameWindow(t, CheckAndMoveTimeoutPackets(t, n).tx)
      /\ CheckAndMoveTimeoutPackets(t, n).tx.m_sentQueue = sq
  <2>1. /\ \A k \in 1..Len(sq) : sq[k].m_packetId \in
             (t.m_leftBound + 1)..t.m_highestSentPacketId
        /\ \A j, k \in 1..Len(sq) : j < k => sq[j].m_packetId < sq[k].m_packetId
    BY <1>1, <1>4
  <2>2. /\ Good([t EXCEPT !.m_sentQueue = sq])
        /\ SameWindow(t, [t EXCEPT !.m_sentQueue = sq])
        /\ [t EXCEPT !.m_sentQueue = sq].m_sentQueue = sq
    BY <1>4, <2>1, SentQueueGood, Zenon
  <2> QED
    BY <1>2, <2>2, Zenon
<1>6. Keeps(t, CheckAndMoveTimeoutPackets(t, n).tx, 0)
  BY <1>4, <1>5 DEF Keeps, Has, L, old
<1> QED
  BY <1>5, <1>6
-----------------------------------------------------------------------------
\* What SendData does, on whichever buffer its caller has made of tx.
SendDataKept(t) ==
  /\ Good(tx')
  /\ tx'.m_packetNum = m_totBytes'
  /\ m_totBytes' \in Nat
  /\ m_seqNum' \in Nat
  /\ m_unsentPacket' \in Nat
  /\ seqNums' \in Seq(Nat)
  /\ Len(seqNums') = m_totBytes'
  /\ \A id \in DOMAIN seqNums' : seqNums'[id] = id
  /\ m_seqNum' = m_totBytes' + (IF m_unsentPacket' = 0 THEN 0 ELSE 1)
  /\ m_unsentPacket' \in {0, m_totBytes' + 1}
  /\ m_sendWindowDataEvent' \in BOOLEAN
  /\ Open(tx') => m_sendWindowDataEvent'
  /\ tx'.m_leftBound = t.m_leftBound
  /\ tx'.m_sentQueue = t.m_sentQueue
  /\ tx'.m_highestSentPacketId = t.m_highestSentPacketId

\* SendData keeps the numbering, and schedules the event if it opens the
\* window.
LEMMA SendDataKeeps ==
  ASSUME TypeOK, NEW t, Good(t), Counted(t), NEW limit \in Limits,
         NEW event \in BOOLEAN, Open(t) => event,
         SendData(t, limit, event)
  PROVE  SendDataKept(t)
<1> DEFINE room == Room(t, BufferSize)
           wanted == Wanted(limit)
           n == IF room < wanted THEN room ELSE wanted
<1>0. /\ m_totBytes \in Nat /\ m_seqNum \in Nat /\ m_unsentPacket \in Nat
      /\ BufferSize \in Nat /\ MaxPackets \in Nat /\ limit \in Nat
  BY SenderAssumption DEF TypeOK
<1>1. wanted \in Nat
  <2>1. (IF limit = 0 THEN MaxPackets ELSE limit) \in Nat
    BY <1>0
  <2> QED
    BY <1>0, <2>1 DEF Wanted
<1>2. room \in Nat
  BY <1>0, GoodFacts DEF Good, Room
<1> DEFINE tries == IF n < wanted THEN n + 1 ELSE n
           reused == IF m_unsentPacket # 0 /\ tries > 0 THEN 1 ELSE 0
           taken == [k \in 1..n |-> Offered(k)]
<1>3. /\ tx' = AddPackets(t, n)
      /\ seqNums' = seqNums \o taken
      /\ m_totBytes' = m_totBytes + n
      /\ m_sendWindowDataEvent' = (event \/ n > 0)
      /\ m_seqNum' = m_seqNum + tries - reused
      /\ m_unsentPacket' = IF n < wanted THEN Offered(n + 1)
                           ELSE IF n > 0 THEN 0 ELSE m_unsentPacket
  BY DEF SendData
<1> HIDE DEF wanted, room
<1>4. n \in Nat /\ n <= room
  BY <1>1, <1>2
<1> HIDE DEF n
<1>5. /\ Good(tx')
      /\ tx'.m_packetNum = t.m_packetNum + n
      /\ tx'.m_leftBound = t.m_leftBound
      /\ tx'.m_sentQueue = t.m_sentQueue
      /\ tx'.m_highestSentPacketId = t.m_highestSentPacketId
      /\ n = 0 /\ Open(tx') => Open(t)
  BY <1>3, <1>4, AddPacketsGood DEF room
<1>6. /\ t.m_packetNum = m_totBytes
      /\ m_seqNum = m_totBytes + (IF m_unsentPacket = 0 THEN 0 ELSE 1)
      /\ m_unsentPacket \in {0, m_totBytes + 1}
      /\ seqNums \in Seq(Nat) /\ Len(seqNums) = m_totBytes
      /\ \A id \in DOMAIN seqNums : seqNums[id] = id
  BY DEF Counted, TypeOK
<1>a. \A k \in Nat \ {0} : Offered(k) = m_totBytes + k
  BY <1>0, <1>6 DEF Offered
<1>7. /\ m_totBytes' \in Nat
      /\ m_seqNum' \in Nat
      /\ m_unsentPacket' \in Nat
      /\ m_seqNum' = m_totBytes' + (IF m_unsentPacket' = 0 THEN 0 ELSE 1)
      /\ m_unsentPacket' \in {0, m_totBytes' + 1}
  <2>1. n <= wanted
    BY <1>1, <1>2 DEF n
  <2>2. CASE n < wanted
    <3>1. tries = n + 1 /\ Offered(n + 1) = m_totBytes + (n + 1)
      BY <1>4, <1>a, <2>2
    <3>2. reused = IF m_unsentPacket = 0 THEN 0 ELSE 1
      BY <1>4, <3>1
    <3> HIDE DEF tries, reused
    <3> QED
      BY <1>0, <1>3, <1>4, <1>6, <2>2, <3>1, <3>2
  <2>3. CASE n = wanted /\ n > 0
    <3>1. tries = n
      BY <1>4, <2>3
    <3>2. reused = IF m_unsentPacket = 0 THEN 0 ELSE 1
      BY <1>4, <2>3, <3>1
    <3> HIDE DEF tries, reused
    <3> QED
      BY <1>0, <1>3, <1>4, <1>6, <2>3, <3>1, <3>2
  <2>4. CASE n = wanted /\ n = 0
    <3>1. tries = 0 /\ reused = 0
      BY <2>4
    <3> HIDE DEF tries, reused
    <3> QED
      BY <1>0, <1>3, <1>4, <1>6, <2>4, <3>1
  <2> QED
    BY <1>1, <1>4, <2>1, <2>2, <2>3, <2>4
<1>b. /\ seqNums' \in Seq(Nat)
      /\ Len(seqNums') = m_totBytes'
      /\ \A id \in DOMAIN seqNums' : seqNums'[id] = id
  <2>1. \A k \in 1..n : taken[k] = m_totBytes + k
    BY <1>4, <1>a
  <2>2. taken \in Seq(Nat) /\ Len(taken) = n
    BY <1>0, <1>4, <1>a
  <2> HIDE DEF taken
  <2>a. /\ seqNums \o taken \in Seq(Nat)
        /\ Len(seqNums \o taken) = Len(seqNums) + Len(taken)
        /\ \A id \in 1..(Len(seqNums) + Len(taken)) :
             (seqNums \o taken)[id] = IF id <= Len(seqNums) THEN seqNums[id]
                                     ELSE taken[id - Len(seqNums)]
    BY <1>6, <2>2, ConcatProperties
  <2>3. /\ seqNums' \in Seq(Nat)
        /\ Len(seqNums') = m_totBytes + n
        /\ \A id \in 1..(m_totBytes + n) :
             seqNums'[id] = IF id <= m_totBytes THEN seqNums[id]
                            ELSE taken[id - m_totBytes]
    BY <1>3, <1>6, <2>2, <2>a
  <2>4. DOMAIN seqNums = 1..m_totBytes /\ DOMAIN seqNums' = 1..(m_totBytes + n)
    BY <1>6, <2>3
  <2> QED
    BY <1>0, <1>3, <1>4, <1>6, <2>1, <2>3, <2>4
<1>8. tx'.m_packetNum = m_totBytes'
  BY <1>3, <1>5, <1>6
<1>9. m_sendWindowDataEvent' \in BOOLEAN
  BY <1>3
<1>10. Open(tx') => m_sendWindowDataEvent'
  <2>1. CASE n = 0
    BY <1>3, <1>5, <2>1
  <2>2. CASE n > 0
    BY <1>3, <2>2
  <2> QED
    BY <1>4, <2>1, <2>2
<1> QED
  BY <1>5, <1>7, <1>b, <1>8, <1>9, <1>10 DEF SendDataKept

\* The invariant holds initially.
LEMMA InitIInv == Init => IInv
<1> SUFFICES ASSUME Init PROVE IInv
  OBVIOUS
<1>1. PICK w \in InitCwnds : tx = NewBuffer(w)
  BY DEF Init
<1>2. Good(tx) /\ ~Open(tx) /\ tx.m_packetNum = 0
  BY <1>1, NewBufferGood
<1>3. tx \in Buffers
  BY <1>2 DEF Good
<1>4. TypeOK
  <2>1. seqNums \in Seq(Nat) /\ acks \subseteq Nat
    BY DEF Init
  <2> QED
    BY <1>3, <2>1 DEF Init, TypeOK
<1>5. Counted(tx)
  <2>1. seqNums = <<>> /\ Len(seqNums) = 0 /\ DOMAIN seqNums = {}
    BY DEF Init
  <2> QED
    BY <1>2, <2>1 DEF Init, Counted
<1>6. Held(tx, acks)
  BY <1>1 DEF NewBuffer, Held
<1> QED
  BY <1>2, <1>4, <1>5, <1>6 DEF IInv, Awake

\* The part of the invariant that SendData's caller is left with.
LEMMA AfterSendData ==
  ASSUME NEW t, SendDataKept(t),
         started' \in BOOLEAN, m_connected' \in BOOLEAN, m_maxBytes' \in Limits,
         m_shutdownSend' \in BOOLEAN, m_retxTimeoutCheckEvent' \in BOOLEAN,
         acks' \subseteq Nat, Held(t, acks')
  PROVE  IInv'
<1>1. Good(tx')
  BY DEF SendDataKept
<1>2. tx' \in Buffers
  BY <1>1 DEF Good
<1>3. TypeOK'
  BY <1>2 DEF SendDataKept, TypeOK
<1>4. Counted(tx)'
  BY DEF SendDataKept, Counted
<1>5. Awake'
  BY DEF SendDataKept, Awake
<1>6. Held(tx', acks')
  BY DEF SendDataKept, Held, Has
<1> QED
  BY <1>1, <1>3, <1>4, <1>5, <1>6 DEF IInv

\* A step that leaves the application alone, and whose buffer's window is what
\* it was or is closed, keeps the invariant.
LEMMA AfterBufferStep ==
  ASSUME IInv, UNCHANGED <<app, m_shutdownSend, m_retxTimeoutCheckEvent, acks>>,
         Good(tx'), tx'.m_packetNum = tx.m_packetNum,
         m_sendWindowDataEvent' \in BOOLEAN,
         Open(tx') => Open(tx) /\ UNCHANGED m_sendWindowDataEvent,
         Held(tx', acks)
  PROVE  IInv'
<1>1. tx' \in Buffers
  BY DEF Good
<1>2. TypeOK'
  BY <1>1 DEF IInv, TypeOK, app
<1>3. Counted(tx)'
  BY DEF IInv, Counted, app
<1>4. Awake'
  BY DEF IInv, Awake, app
<1>5. Held(tx', acks')
  OBVIOUS
<1> QED
  BY <1>2, <1>3, <1>4, <1>5 DEF IInv

\* Every step keeps the invariant.
LEMMA NextIInv == IInv /\ [Next]_vars => IInv'
<1> SUFFICES ASSUME IInv, [Next]_vars PROVE IInv'
  OBVIOUS
<1>0. TypeOK /\ Good(tx) /\ Counted(tx) /\ Awake /\ Held(tx, acks)
  BY DEF IInv
<1>a. /\ started \in BOOLEAN /\ m_connected \in BOOLEAN
      /\ m_maxBytes \in Limits /\ m_shutdownSend \in BOOLEAN
      /\ m_sendWindowDataEvent \in BOOLEAN
      /\ m_retxTimeoutCheckEvent \in BOOLEAN /\ acks \subseteq Nat
  BY <1>0 DEF TypeOK
<1>1. CASE Connect
  BY <1>0, <1>1 DEF Connect, IInv, TypeOK, Counted, Awake
<1>2. CASE StartApplication
  <2>1. Open(tx) => m_sendWindowDataEvent
    BY <1>0, <1>2 DEF StartApplication, Awake
  <2>2. SendData(tx, m_maxBytes, m_sendWindowDataEvent)
    BY <1>2 DEF StartApplication
  <2>3. SendDataKept(tx)
    BY <1>0, <1>a, <2>1, <2>2, SendDataKeeps
  <2>4. /\ started' \in BOOLEAN /\ m_connected' \in BOOLEAN
        /\ m_maxBytes' \in Limits /\ m_shutdownSend' \in BOOLEAN
        /\ m_retxTimeoutCheckEvent' \in BOOLEAN /\ acks' \subseteq Nat
        /\ Held(tx, acks')
    BY <1>0, <1>a, <1>2 DEF StartApplication
  <2> QED
    BY <2>3, <2>4, AfterSendData
<1>3. CASE StopApplication
  BY <1>0, <1>3 DEF StopApplication, IInv, TypeOK, Counted, Awake
<1>4. ASSUME NEW limit \in Limits, SetMaxBytes(limit) PROVE IInv'
  <2>1. CASE m_connected
    <3>1. Open(tx) => m_sendWindowDataEvent
      BY <1>0, <2>1 DEF Awake
    <3>2. SendData(tx, limit, m_sendWindowDataEvent)
      BY <1>4, <2>1 DEF SetMaxBytes
    <3>3. SendDataKept(tx)
      BY <1>0, <1>a, <3>1, <3>2, SendDataKeeps
    <3>4. /\ started' \in BOOLEAN /\ m_connected' \in BOOLEAN
          /\ m_maxBytes' \in Limits /\ m_shutdownSend' \in BOOLEAN
          /\ m_retxTimeoutCheckEvent' \in BOOLEAN /\ acks' \subseteq Nat
          /\ Held(tx, acks')
      BY <1>0, <1>a, <1>4 DEF SetMaxBytes
    <3> QED
      BY <3>3, <3>4, AfterSendData
  <2>2. CASE ~m_connected
    BY <1>0, <1>4, <2>2 DEF SetMaxBytes, IInv, TypeOK, Counted, Awake
  <2> QED
    BY <2>1, <2>2
<1>5. CASE SendWindow
  <2>1. /\ Good(tx') /\ ~Open(tx') /\ tx'.m_packetNum = tx.m_packetNum
    BY <1>0, <1>5, SendWindowGood DEF SendWindow
  <2>2. \A id \in Nat :
          \/ Has(tx, id)
          \/ tx.m_highestSentPacketId < id /\ id <= tx'.m_highestSentPacketId
          => Has(tx', id)
    BY <1>0, <1>5, SendWindowGood DEF SendWindow
  <2>3. /\ tx.m_highestSentPacketId \in Nat
        /\ tx'.m_highestSentPacketId \in Nat
    BY <1>0, <2>1, GoodFacts
  <2>4. Held(tx', acks)
    BY <1>0, <2>2, <2>3 DEF Held
  <2> QED
    BY <1>5, <2>1, <2>4, AfterBufferStep DEF SendWindow
<1>6. ASSUME NEW n \in 1..Len(tx.m_sentQueue), CheckRetransmitTimeout(n)
      PROVE  IInv'
  <2>1. n \in Nat
    BY <1>0, GoodFacts
  <2>2. Good(tx') /\ SameWindow(tx, tx')
    BY <1>0, <1>6, <2>1, TimeoutGood DEF CheckRetransmitTimeout
  <2>3. tx'.m_packetNum = tx.m_packetNum /\ (Open(tx') => Open(tx))
    BY <2>2 DEF SameWindow, Open
  <2>4. Keeps(tx, tx', 0)
    BY <1>0, <1>6, <2>1, TimeoutGood DEF CheckRetransmitTimeout
  <2>5. Held(tx', acks)
    BY <1>0, <2>2, <2>4, GoodFacts DEF Held, Keeps, SameWindow
  <2> QED
    BY <1>a, <1>6, <2>2, <2>3, <2>5, AfterBufferStep
    DEF CheckRetransmitTimeout, timers
<1>7. ASSUME NEW id \in 1..tx.m_highestSentPacketId, NEW cwnd \in 1..MaxCwnd,
             ReceiveAck(id, cwnd)
      PROVE  IInv'
  <2>0. id \in Nat
    BY <1>0, GoodFacts
  <2>a. tx.m_highestSentPacketId \in Nat /\ acks' = acks \cup {id}
    BY <1>0, <1>7, GoodFacts DEF ReceiveAck
  <2>b. ASSUME NEW t, Keeps(tx, t, id),
               t.m_highestSentPacketId = tx.m_highestSentPacketId
        PROVE  Held(t, acks')
    BY <1>0, <2>0, <2>a, <2>b DEF Held, Keeps
  <2>1. /\ started' \in BOOLEAN /\ m_connected' \in BOOLEAN
        /\ m_maxBytes' \in Limits /\ m_shutdownSend' \in BOOLEAN
        /\ m_retxTimeoutCheckEvent' \in BOOLEAN /\ acks' \subseteq Nat
    BY <1>a, <1>7, <2>0 DEF ReceiveAck
  <2>2. CASE IsOrderedAck(tx, id)
    <3> DEFINE u == ProcessOrderedAck(tx, id)
               t == ProcessCongestion(u, id, cwnd)
    <3>1. /\ Good(u) /\ u.m_packetNum = tx.m_packetNum
          /\ Keeps(tx, u, id)
          /\ u.m_highestSentPacketId = tx.m_highestSentPacketId
      BY <1>0, <2>2, OrderedAckGood
    <3> HIDE DEF u
    <3>2. /\ Good(t) /\ t.m_packetNum = u.m_packetNum
          /\ t.m_sentQueue = u.m_sentQueue
          /\ t.m_highestSentPacketId = u.m_highestSentPacketId
      BY <3>1, CongestionGood
    <3>3. SendData(t, m_maxBytes, TRUE)
      BY <1>7, <2>2 DEF ReceiveAck, u
    <3> HIDE DEF t
    <3>4. Counted(t)
      BY <1>0, <3>1, <3>2 DEF Counted
    <3>5. SendDataKept(t)
      BY <1>0, <1>a, <3>2, <3>3, <3>4, SendDataKeeps
    <3>6. Keeps(tx, t, id)
      BY <3>1, <3>2 DEF Keeps, Has
    <3>7. Held(t, acks')
      BY <2>b, <3>1, <3>2, <3>6
    <3> QED
      BY <2>1, <3>5, <3>7, AfterSendData
  <2>3. CASE ~IsOrderedAck(tx, id)
    <3> DEFINE t == ProcessUnorderedAck(tx, id).tx
    <3>1. Good(t) /\ SameWindow(tx, t) /\ Keeps(tx, t, id)
      BY <1>0, <2>0, UnorderedAckGood
    <3>2. /\ m_connected
          /\ SendData(t, m_maxBytes, m_sendWindowDataEvent)
      BY <1>7, <2>3 DEF ReceiveAck
    <3> HIDE DEF t
    <3>3. Counted(t) /\ (Open(t) => m_sendWindowDataEvent)
      BY <1>0, <3>1, <3>2 DEF Counted, SameWindow, Open, Awake
    <3>4. SendDataKept(t)
      BY <1>0, <1>a, <3>1, <3>2, <3>3, SendDataKeeps
    <3>5. Held(t, acks')
      BY <2>b, <3>1 DEF SameWindow
    <3> QED
      BY <2>1, <3>4, <3>5, AfterSendData
  <2> QED
    BY <2>2, <2>3
<1>8. CASE UNCHANGED vars
  BY <1>0, <1>8 DEF vars, app, timers, IInv, TypeOK, Counted, Awake
<1> QED
  BY <1>1, <1>2, <1>3, <1>4, <1>5, <1>6, <1>7, <1>8 DEF Next
-----------------------------------------------------------------------------
\* The inductive invariant holds in every reachable state.
THEOREM Invariance == Spec => []IInv
  BY InitIInv, NextIInv, PTL DEF Spec

\* Every state of the application and of the socket's send buffer is of the
\* right type; in particular the window stays within 1..MaxCwnd.
THEOREM TypeCorrect == Spec => []TypeOK
<1>1. IInv => TypeOK
  BY DEF IInv
<1> QED
  BY <1>1, Invariance, PTL

\* Every packet the buffer ever took carries its packet id as its sequence
\* number: SendData counts the packets it creates and AddPacket those it takes,
\* and the two agree through refused packets and changed limits.
THEOREM SeqNumsAreIds == Spec => []SeqNumIsPacketId
<1>1. IInv => SeqNumIsPacketId
  BY DEF IInv, Counted, SeqNumIsPacketId
<1> QED
  BY <1>1, Invariance, PTL

\* The queues of ATPTxBuffer are consecutive stretches of the packets, which
\* IsOrderedAck and the loops that pop from the front rely on.
THEOREM QueuesStayInOrder == Spec => []QueuesInOrder
<1>1. IInv => QueuesInOrder
  BY DEF IInv, Good, QueuesInOrder
<1> QED
  BY <1>1, Invariance, PTL

\* A pending packet in the window of a connected socket always has the event
\* of SendWindowData scheduled for it.
THEOREM WakeupsAreKept == Spec => []NoLostWakeup
<1>1. IInv => NoLostWakeup
  <2> SUFFICES ASSUME IInv, m_connected, InWindow(tx) > 0
               PROVE  m_sendWindowDataEvent
    BY DEF NoLostWakeup
  <2>1. Open(tx)
    BY InWindowIffOpen DEF IInv
  <2> QED
    BY <2>1 DEF IInv, Awake
<1> QED
  BY <1>1, Invariance, PTL

\* No more than the largest window is ever outstanding, whatever ProcessCongestion
\* makes of the window while packets are in flight.
THEOREM OutstandingIsBounded == Spec => []OutstandingBounded
<1>1. IInv => OutstandingBounded
  BY DEF IInv, Good, OutstandingBounded
<1> QED
  BY <1>1, Invariance, PTL

\* A packet no ACK has reached or passed is still in m_sentQueue, where the
\* timeout check finds it.
THEOREM UnackedIsHeld == Spec => []UnackedRetransmitted
<1>1. IInv => UnackedRetransmitted
  <2> SUFFICES ASSUME IInv, NEW id \in 1..tx.m_highestSentPacketId,
                      \A a \in acks : a < id
               PROVE  id \in SentIds
    BY DEF UnackedRetransmitted
  <2>1. Has(tx, id)
    BY DEF IInv, Held
  <2>2. DOMAIN tx.m_sentQueue = 1..Len(tx.m_sentQueue)
    BY GoodFacts DEF IInv
  <2> QED
    BY <2>1, <2>2 DEF Has, SentIds
<1> QED
  BY <1>1, Invariance, PTL

\* No ACK, however late, and no timeout moves the window's left bound back.
THEOREM LeftBoundNeverMovesBack == Spec => LeftBoundMonotone
<1>1. IInv /\ [Next]_vars => [tx.m_leftBound <= tx'.m_leftBound]_vars
  <2> SUFFICES ASSUME IInv, Next PROVE tx.m_leftBound <= tx'.m_leftBound
    OBVIOUS
  <2>0. TypeOK /\ Good(tx) /\ Counted(tx) /\ Awake /\ tx.m_leftBound \in Nat
    BY GoodFacts DEF IInv
  <2>1. ASSUME UNCHANGED tx PROVE tx.m_leftBound <= tx'.m_leftBound
    BY <2>0, <2>1
  <2>2. ASSUME NEW t, t.m_leftBound \in Nat, tx.m_leftBound <= t.m_leftBound,
               NEW n, tx' = AddPackets(t, n), t \in Buffers
        PROVE  tx.m_leftBound <= tx'.m_leftBound
    BY <2>2 DEF AddPackets, Buffers
  <2>3. CASE Connect \/ StopApplication
    BY <2>1, <2>3 DEF Connect, StopApplication
  <2>4. ASSUME NEW limit, NEW event, SendData(tx, limit, event)
        PROVE  tx.m_leftBound <= tx'.m_leftBound
    BY <2>0, <2>2, <2>4 DEF SendData, Good
  <2>5. CASE StartApplication
    BY <2>4, <2>5 DEF StartApplication
  <2>6. ASSUME NEW limit \in Limits, SetMaxBytes(limit)
        PROVE  tx.m_leftBound <= tx'.m_leftBound
    BY <2>1, <2>4, <2>6 DEF SetMaxBytes
  <2>7. CASE SendWindow
    BY <2>0, <2>7, SendWindowGood DEF SendWindow
  <2>8. ASSUME NEW n \in 1..Len(tx.m_sentQueue), CheckRetransmitTimeout(n)
        PROVE  tx.m_leftBound <= tx'.m_leftBound
    <3>1. n \in Nat
      BY <2>0, GoodFacts
    <3>2. SameWindow(tx, tx')
      BY <2>0, <2>8, <3>1, TimeoutGood DEF CheckRetransmitTimeout
    <3> QED
      BY <2>0, <3>2 DEF SameWindow
  <2>9. ASSUME NEW id \in 1..tx.m_highestSentPacketId, NEW cwnd \in 1..MaxCwnd,
               ReceiveAck(id, cwnd)
        PROVE  tx.m_leftBound <= tx'.m_leftBound
    <3>1. CASE IsOrderedAck(tx, id)
      <4> DEFINE u == ProcessOrderedAck(tx, id)
                 t == ProcessCongestion(u, id, cwnd)
      <4>1. Good(u) /\ tx.m_leftBound <= u.m_leftBound
        BY <2>0, <3>1, OrderedAckGood
      <4> HIDE DEF u
      <4>2. Good(t) /\ t.m_leftBound = u.m_leftBound
        BY <4>1, CongestionGood
      <4>3. SendData(t, m_maxBytes, TRUE)
        BY <2>9, <3>1 DEF ReceiveAck, u
      <4> HIDE DEF t
      <4>4. /\ t \in Buffers /\ t.m_leftBound \in Nat
            /\ tx.m_leftBound <= t.m_leftBound
        BY <4>1, <4>2, GoodFacts
      <4> QED
        BY <2>2, <4>3, <4>4 DEF SendData
    <3>2. CASE ~IsOrderedAck(tx, id)
      <4> DEFINE t == ProcessUnorderedAck(tx, id).tx
      <4>0. id \in Nat
        BY <2>0, GoodFacts
      <4>1. Good(t) /\ SameWindow(tx, t)
        BY <2>0, <4>0, UnorderedAckGood
      <4>2. SendData(t, m_maxBytes, m_sendWindowDataEvent)
        BY <2>9, <3>2 DEF ReceiveAck
      <4> HIDE DEF t
      <4>3. /\ t \in Buffers /\ t.m_leftBound \in Nat
            /\ tx.m_leftBound <= t.m_leftBound
        BY <2>0, <4>1, GoodFacts DEF SameWindow
      <4> QED
        BY <2>2, <4>2, <4>3 DEF SendData
    <3> QED
      BY <3>1, <3>2
  <2> QED
    BY <2>3, <2>5, <2>6, <2>7, <2>8, <2>9 DEF Next
<1> QED
  BY <1>1, Invariance, PTL DEF Spec, LeftBoundMonotone
=============================================================================
