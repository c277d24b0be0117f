-------------------------- MODULE ATPTxBufferProofs --------------------------
(***************************************************************************)
(* What the operators of ATPTxBuffer do to any buffer, whoever owns it and *)
(* whatever set S its packet ids are from: the queues stay sequences of    *)
(* such ids, what is handed to DoSend carries one, and only an ordered ACK *)
(* moves the left bound.  No order of the queues is assumed here;          *)
(* ATPSenderProofs adds it.  Induction on numbers (Upwards) and sums over  *)
(* a map (Total) are here for all proofs that need them.                   *)
(***************************************************************************)
EXTENDS ATPTxBuffer, FiniteSetsExt, FiniteSetTheorems, WellFoundedInduction,
        TLAPS

SentItemsOf(S) == [m_packetId : S, expired : BOOLEAN]

BuffersOf(S) ==
  [m_pendingQueue : Seq(S), m_sentQueue : Seq(SentItemsOf(S)),
   m_packetNum : Nat, m_leftBound : Nat, m_lcw : Nat,
   m_highestSentPacketId : Nat, m_roundEndPacketId : Nat]

\* What is handed to DoSend.
OutOf(S) == [m_packetId : S, resend : BOOLEAN]
-----------------------------------------------------------------------------
\* A set of natural numbers that is not empty has a least element.
LEMMA LeastNat ==
  ASSUME NEW T, T \subseteq Nat, T # {}
  PROVE  \E x \in T : \A y \in T : x <= y
<1>1. \E x \in T : \A y \in T : ~(<<y, x>> \in OpToRel(<, Nat))
  BY NatLessThanWellFounded, WFMin
<1>2. PICK x \in T : \A y \in T : ~(<<y, x>> \in OpToRel(<, Nat))
  BY <1>1
<1>3. ASSUME NEW y \in T PROVE x <= y
  <2>1. x \in Nat /\ y \in Nat
    OBVIOUS
  <2>2. SUFFICES ASSUME y < x PROVE FALSE
    BY <2>1
  <2>3. <<y, x>> \in {ss \in Nat \X Nat : ss[1] < ss[2]}
    BY <2>1, <2>2
  <2>4. OpToRel(<, Nat) = {ss \in Nat \X Nat : ss[1] < ss[2]}
    BY DEF OpToRel
  <2> QED
    BY <1>2, <2>3, <2>4
<1> QED
  BY <1>2, <1>3

\* Induction on natural numbers, for the set of those that have a property.
LEMMA Upwards ==
  ASSUME NEW N \in SUBSET Nat, 0 \in N, \A n \in N : n + 1 \in N
  PROVE  \A n \in Nat : n \in N
  <1> DEFINE M == Nat \ N
  <1> SUFFICES ASSUME M # {} PROVE FALSE
    OBVIOUS
  <1>1. PICK n \in M : \A m \in M : n <= m
    BY LeastNat
  <1>2. n # 0 /\ n \in Nat
    OBVIOUS
  <1>3. n - 1 \in Nat /\ n - 1 \notin M
    BY <1>1, <1>2
  <1>4. (n - 1) + 1 = n
    BY <1>2
  <1> QED BY <1>3, <1>4

\* The popping loop stops within the queue, at the first id past the bound.
LEMMA FrontUpToStops ==
  ASSUME NEW ids, NEW len \in Nat, DOMAIN ids = 1..len, Len(ids) = len,
         \A k \in 1..len : ids[k] \in Int,
         NEW bound \in Int
  PROVE  /\ FrontUpTo(ids, bound) \in 0..len
         /\ \A k \in 1..FrontUpTo(ids, bound) : ids[k] <= bound
         /\ FrontUpTo(ids, bound) < len => ids[FrontUpTo(ids, bound) + 1] > bound
<1> DEFINE Splits(n) == /\ \A k \in 1..n : ids[k] <= bound
                        /\ n < len => ids[n + 1] > bound
           T == {k \in 1..len : ids[k] > bound}
<1>1. \E n \in 0..len : Splits(n)
  <2>1. CASE T = {}
    <3>1. \A k \in 1..len : ids[k] <= bound
      BY <2>1
    <3>2. Splits(len)
      BY <3>1
    <3> QED
      BY <3>2
  <2>2. CASE T # {}
    <3> HIDE DEF T
    <3>0. T \subseteq Nat
      BY DEF T
    <3>1. PICK x \in T : \A y \in T : x <= y
      BY <2>2, <3>0, LeastNat
    <3> USE DEF T
    <3>2. x - 1 \in 0..len /\ x \in 1..len /\ ids[x] > bound
      BY <3>1
    <3>3. ASSUME NEW k \in 1..(x - 1) PROVE ids[k] <= bound
      <4>1. k \in 1..len /\ k < x
        BY <3>2, <3>3
      <4>2. k \notin T
        BY <3>1, <3>2, <4>1
      <4> QED
        BY <4>1, <4>2
    <3>4. (x - 1) + 1 = x
      BY <3>2
    <3>5. Splits(x - 1)
      BY <3>2, <3>3, <3>4
    <3> QED
      BY <3>2, <3>5
  <2> QED
    BY <2>1, <2>2
<1>2. FrontUpTo(ids, bound) = CHOOSE n \in 0..len : Splits(n)
  BY DEF FrontUpTo
<1> QED
  BY <1>1, <1>2

\* In an increasing queue FrontUpTo splits the ids at the bound.
LEMMA FrontUpToSplits ==
  ASSUME NEW ids, NEW len \in Nat, DOMAIN ids = 1..len, Len(ids) = len,
         \A k \in 1..len : ids[k] \in Int,
         \A j, k \in 1..len : j < k => ids[j] < ids[k],
         NEW bound \in Int
  PROVE  /\ FrontUpTo(ids, bound) \in 0..len
         /\ \A k \in 1..len : ids[k] <= bound <=> k <= FrontUpTo(ids, bound)
<1> DEFINE n == FrontUpTo(ids, bound)
<1>1. /\ n \in 0..len
      /\ \A k \in 1..n : ids[k] <= bound
      /\ n < len => ids[n + 1] > bound
  BY FrontUpToStops
<1> HIDE DEF n
<1>2. ASSUME NEW k \in 1..len, k > n PROVE ids[k] > bound
  <2>1. n + 1 \in 1..len /\ ids[n + 1] > bound
    BY <1>1, <1>2
  <2>2. CASE k = n + 1
    BY <2>1, <2>2
  <2>3. CASE k > n + 1
    <3>1. ids[n + 1] < ids[k]
      BY <2>1, <2>3
    <3> QED
      BY <2>1, <3>1
  <2> QED
    BY <1>1, <1>2, <2>2, <2>3
<1>3. \A k \in 1..len : ids[k] <= bound <=> k <= n
  BY <1>1, <1>2
<1> QED
  BY <1>1, <1>3 DEF n

\* Length, domain and elements of a concatenation.
LEMMA ConcatFacts ==
  ASSUME NEW S, NEW a \in Seq(S), NEW b \in Seq(S)
  PROVE  /\ a \o b \in Seq(S)
         /\ Len(a \o b) = Len(a) + Len(b)
         /\ DOMAIN (a \o b) = 1..(Len(a) + Len(b))
         /\ \A k \in 1..Len(a) : (a \o b)[k] = a[k]
         /\ \A k \in 1..Len(b) : (a \o b)[Len(a) + k] = b[k]
  OBVIOUS

\* Length, domain and elements of what a queue holds after m pops.
LEMMA SuffixFacts ==
  ASSUME NEW S, NEW a \in Seq(S), NEW m \in 0..Len(a)
  PROVE  /\ SubSeq(a, m + 1, Len(a)) \in Seq(S)
         /\ Len(SubSeq(a, m + 1, Len(a))) = Len(a) - m
         /\ DOMAIN SubSeq(a, m + 1, Len(a)) = 1..(Len(a) - m)
         /\ \A k \in 1..(Len(a) - m) : SubSeq(a, m + 1, Len(a))[k] = a[m + k]
  OBVIOUS
-----------------------------------------------------------------------------
\* Length, domain and elements of a queue.
LEMMA QueueFacts ==
  ASSUME NEW S, NEW q \in Seq(S)
  PROVE  Len(q) \in Nat /\ DOMAIN q = 1..Len(q) /\ \A k \in 1..Len(q) : q[k] \in S
  OBVIOUS

\* A function with domain 1..n has length n.
LEMMA LenDomain ==
  ASSUME NEW q, NEW n \in Nat, DOMAIN q = 1..n
  PROVE  Len(q) = n
  OBVIOUS

\* A worker that has put n packets into a new buffer.
LEMMA FilledBuffer ==
  ASSUME NEW c \in Nat, NEW n \in Nat
  PROVE  /\ AddPackets(NewBuffer(c), n) \in BuffersOf(1..n)
         /\ AddPackets(NewBuffer(c), n).m_leftBound = 0
         /\ AddPackets(NewBuffer(c), n).m_lcw = c
<1> DEFINE new == [k \in 1..n |-> 0 + k]
           e == <<>>
           u == AddPackets(NewBuffer(c), n)
<1>1. new \in Seq(1..n)
  OBVIOUS
<1>2. e \o new = new
  BY <1>1
<1>3. e \in Seq(SentItemsOf(1..n))
  OBVIOUS
<1>4. 0 + n \in Nat
  OBVIOUS
<1> DEFINE b == NewBuffer(c)
           all == b.m_pendingQueue \o [k \in 1..n |-> b.m_packetNum + k]
           num == b.m_packetNum + n
<1>5. u = [b EXCEPT !.m_pendingQueue = all, !.m_packetNum = num]
  BY DEF AddPackets
<1>6. /\ b \in BuffersOf(1..n) /\ b.m_leftBound = 0 /\ b.m_lcw = c
      /\ b.m_pendingQueue = e /\ b.m_packetNum = 0
  <2>1. e \in Seq(1..n)
    OBVIOUS
  <2> QED
    BY <1>3, <2>1 DEF NewBuffer, BuffersOf
<1> HIDE DEF b
<1>7. all = new /\ num \in Nat
  BY <1>2, <1>4, <1>6
<1> HIDE DEF u, new, e, all, num
<1> QED
  BY <1>1, <1>5, <1>6, <1>7 DEF BuffersOf, u, b

\* The number of packets SendWindowData sends is one the queue has.
LEMMA InWindowWithin ==
  ASSUME NEW S, S \subseteq Nat, NEW t \in BuffersOf(S)
  PROVE  InWindow(t) \in 0..Len(t.m_pendingQueue)
<1> DEFINE q == t.m_pendingQueue
           b == t.m_leftBound + t.m_lcw
           n == FrontUpTo(q, b)
<1>1. q \in Seq(S) /\ t.m_leftBound \in Nat /\ t.m_lcw \in Nat
  BY DEF BuffersOf
<1>2. /\ Len(q) \in Nat /\ DOMAIN q = 1..Len(q) /\ b \in Int
      /\ \A k \in 1..Len(q) : q[k] \in Int
  <2>1. b \in Int
    BY <1>1
  <2> HIDE DEF q, b
  <2>2. Len(q) \in Nat /\ DOMAIN q = 1..Len(q) /\ \A k \in 1..Len(q) : q[k] \in S
    BY <1>1, QueueFacts
  <2>3. \A x \in S : x \in Int
    OBVIOUS
  <2> QED
    BY <2>1, <2>2, <2>3
<1>3. InWindow(t) = IF t.m_lcw = 1 /\ n > 1 THEN 1 ELSE n
  BY DEF InWindow
<1> HIDE DEF q, b
<1>4. n \in 0..Len(q)
  BY <1>2, FrontUpToStops
<1> HIDE DEF n
<1> QED
  BY <1>2, <1>3, <1>4 DEF q

\* SendWindowData moves packets from one queue to the other and sends them.
LEMMA SendWindowOf ==
  ASSUME NEW S, S \subseteq Nat, NEW t \in BuffersOf(S)
  PROVE  /\ SendWindowData(t).tx \in BuffersOf(S)
         /\ SendWindowData(t).tx.m_leftBound = t.m_leftBound
         /\ SendWindowData(t).out \in Seq(OutOf(S))
<1> DEFINE q == t.m_pendingQueue
           sq == t.m_sentQueue
           n == InWindow(t)
           h == IF n > 0 /\ q[n] > t.m_highestSentPacketId
                THEN q[n] ELSE t.m_highestSentPacketId
           rest == SubSeq(q, n + 1, Len(q))
           more == [k \in 1..n |-> SentItem(q[k])]
           u == SendWindowData(t).tx
<1>1. /\ q \in Seq(S) /\ sq \in Seq(SentItemsOf(S))
      /\ t.m_highestSentPacketId \in Nat
  BY DEF BuffersOf
<1>2. n \in 0..Len(q)
  BY InWindowWithin
<1>3. u = [t EXCEPT !.m_pendingQueue = rest, !.m_sentQueue = sq \o more,
                    !.m_highestSentPacketId = h]
  BY DEF SendWindowData, SendPackets
<1>4. SendWindowData(t).out = [k \in 1..n |-> Sent(q[k])]
  BY DEF SendWindowData
<1> HIDE DEF u, n, q, sq
<1>5. \A k \in 1..n : q[k] \in S
  BY <1>1, <1>2
<1>6. \A k \in 1..n : SentItem(q[k]) \in SentItemsOf(S) /\ Sent(q[k]) \in OutOf(S)
  BY <1>5 DEF SentItem, SentItemsOf, Sent, OutOf
<1>7. more \in Seq(SentItemsOf(S)) /\ [k \in 1..n |-> Sent(q[k])] \in Seq(OutOf(S))
  BY <1>2, <1>6
<1>8. rest \in Seq(S)
  BY <1>1, <1>2, SuffixFacts
<1>9. h \in Nat
  <2>1. \A x \in S : x \in Nat
    OBVIOUS
  <2>2. n > 0 => n \in 1..n
    BY <1>2
  <2>3. n > 0 => q[n] \in Nat
    BY <1>5, <2>1, <2>2
  <2> QED
    BY <1>1, <2>3
<1> HIDE DEF rest, more, h
<1>10. sq \o more \in Seq(SentItemsOf(S))
  BY <1>1, <1>7
<1>11. u \in BuffersOf(S) /\ u.m_leftBound = t.m_leftBound
  <2> DEFINE longer == sq \o more
  <2> HIDE DEF longer
  <2>1. u = [t EXCEPT !.m_pendingQueue = rest, !.m_sentQueue = longer,
                      !.m_highestSentPacketId = h]
    BY <1>3 DEF longer
  <2>2. longer \in Seq(SentItemsOf(S))
    BY <1>10 DEF longer
  <2> QED
    BY <1>8, <1>9, <2>1, <2>2 DEF BuffersOf
<1> QED
  BY <1>4, <1>7, <1>11 DEF u

\* An ordered ACK moves the left bound to itself, and the window update after
\* it leaves the bound there.
LEMMA OrderedAckOf ==
  ASSUME NEW S, NEW t \in BuffersOf(S), NEW id \in Nat, NEW cwnd \in Nat,
         IsOrderedAck(t, id)
  PROVE  LET u == ProcessCongestion(ProcessOrderedAck(t, id), id, cwnd) IN
         u \in BuffersOf(S) /\ u.m_leftBound = id
<1> DEFINE a == ProcessOrderedAck(t, id)
           u == ProcessCongestion(a, id, cwnd)
           tail == Tail(t.m_sentQueue)
<1>1. tail \in Seq(SentItemsOf(S))
  BY DEF IsOrderedAck, BuffersOf
<1>2. a = [t EXCEPT !.m_sentQueue = tail, !.m_leftBound = id]
  BY DEF ProcessOrderedAck
<1> HIDE DEF a, tail
<1>3. a \in BuffersOf(S) /\ a.m_leftBound = id
  BY <1>1, <1>2 DEF BuffersOf
<1>4. a.m_highestSentPacketId \in Nat /\ a.m_roundEndPacketId \in Nat
  BY <1>3 DEF BuffersOf
<1>5. CASE EndsRound(a, id)
  <2> DEFINE r == a.m_highestSentPacketId
  <2>1. u = [a EXCEPT !.m_roundEndPacketId = r, !.m_lcw = cwnd]
    BY <1>5 DEF ProcessCongestion
  <2>2. r \in Nat
    BY <1>4
  <2> HIDE DEF r, u
  <2>3. u \in BuffersOf(S) /\ u.m_leftBound = id
    BY <1>3, <2>1, <2>2 DEF BuffersOf
  <2> QED
    BY <2>3 DEF u, a
<1>6. CASE ~EndsRound(a, id)
  <2> DEFINE r == IF a.m_roundEndPacketId = 0 THEN a.m_highestSentPacketId
                  ELSE a.m_roundEndPacketId
  <2>1. u = [a EXCEPT !.m_roundEndPacketId = r]
    BY <1>6 DEF ProcessCongestion
  <2>2. r \in Nat
    BY <1>4
  <2> HIDE DEF r, u
  <2>3. u \in BuffersOf(S) /\ u.m_leftBound = id
    BY <1>3, <2>1, <2>2 DEF BuffersOf
  <2> QED
    BY <2>3 DEF u, a
<1> QED
  BY <1>5, <1>6

\* Any other ACK only takes packets out of m_sentQueue, and sends copies of
\* some of them.
LEMMA UnorderedAckOf ==
  ASSUME NEW S, S \subseteq Nat, NEW t \in BuffersOf(S), NEW id \in Nat
  PROVE  /\ ProcessUnorderedAck(t, id).tx \in BuffersOf(S)
         /\ ProcessUnorderedAck(t, id).tx.m_leftBound = t.m_leftBound
         /\ ProcessUnorderedAck(t, id).out \in Seq(OutOf(S))
<1> DEFINE q == t.m_sentQueue
           ids == [k \in DOMAIN q |-> q[k].m_packetId]
           passed == FrontUpTo(ids, id)
           skipped == FrontUpTo(ids, id - 1)
           rest == SubSeq(q, passed + 1, Len(q))
           copies == [k \in 1..skipped |-> Sent(ids[k])]
           u == ProcessUnorderedAck(t, id)
<1>1. q \in Seq(SentItemsOf(S))
  BY DEF BuffersOf
<1>2. CASE q # <<>> /\ id > Head(q).m_packetId
  <2>1. u.tx = [t EXCEPT !.m_sentQueue = rest] /\ u.out = copies
    BY <1>2 DEF ProcessUnorderedAck
  <2> HIDE DEF u, q
  <2>2. /\ Len(q) \in Nat /\ DOMAIN q = 1..Len(q)
        /\ \A k \in 1..Len(q) : q[k].m_packetId \in S
    <3>1. Len(q) \in Nat /\ DOMAIN q = 1..Len(q)
          /\ \A k \in 1..Len(q) : q[k] \in SentItemsOf(S)
      BY <1>1, QueueFacts
    <3> QED
      BY <3>1 DEF SentItemsOf
  <2>3. /\ Len(q) \in Nat /\ DOMAIN ids = 1..Len(q) /\ Len(ids) = Len(q)
        /\ \A k \in 1..Len(q) : ids[k] \in S /\ ids[k] \in Int
        /\ id \in Int /\ id - 1 \in Int
    <3>1. DOMAIN ids = 1..Len(q) /\ \A k \in 1..Len(q) : ids[k] \in S
      BY <2>2
    <3>2. Len(ids) = Len(q)
      BY <2>2, <3>1, LenDomain
    <3> HIDE DEF ids
    <3>3. \A x \in S : x \in Int
      OBVIOUS
    <3>4. id \in Int /\ id - 1 \in Int
      OBVIOUS
    <3> QED
      BY <2>2, <3>1, <3>2, <3>3, <3>4
  <2> HIDE DEF ids
  <2>4. passed \in 0..Len(q) /\ skipped \in 0..Len(q)
    BY <2>3, FrontUpToStops
  <2> HIDE DEF passed, skipped
  <2>5. rest \in Seq(SentItemsOf(S))
    BY <1>1, <2>4, SuffixFacts
  <2>6. \A k \in 1..skipped : Sent(ids[k]) \in OutOf(S)
    BY <2>3, <2>4 DEF Sent, OutOf
  <2>7. copies \in Seq(OutOf(S))
    BY <2>4, <2>6
  <2> HIDE DEF rest, copies
  <2> DEFINE v == u.tx
  <2>8. v = [t EXCEPT !.m_sentQueue = rest]
    BY <2>1
  <2> HIDE DEF v
  <2>9. v \in BuffersOf(S) /\ v.m_leftBound = t.m_leftBound
    BY <2>5, <2>8 DEF BuffersOf
  <2> QED
    BY <2>1, <2>7, <2>9 DEF v, u
<1>3. CASE ~(q # <<>> /\ id > Head(q).m_packetId)
  <2>1. u.tx = t /\ u.out = <<>>
    BY <1>3 DEF ProcessUnorderedAck
  <2> QED
    BY <2>1
<1> QED
  BY <1>2, <1>3

\* A timeout only marks packets, and sends copies of them.
LEMMA TimeoutOf ==
  ASSUME NEW S, NEW t \in BuffersOf(S), NEW n \in 0..Len(t.m_sentQueue)
  PROVE  /\ CheckAndMoveTimeoutPackets(t, n).tx \in BuffersOf(S)
         /\ CheckAndMoveTimeoutPackets(t, n).tx.m_leftBound = t.m_leftBound
         /\ CheckAndMoveTimeoutPackets(t, n).out \in Seq(OutOf(S))
<1> DEFINE q == t.m_sentQueue
           item(k) == [q[k] EXCEPT !.expired = (k <= n)]
           sq == [k \in DOMAIN q |-> item(k)]
           copies == [k \in 1..n |-> Resent(q[k].m_packetId)]
           v == CheckAndMoveTimeoutPackets(t, n).tx
<1>1. q \in Seq(SentItemsOf(S)) /\ n \in 0..Len(q)
  BY DEF BuffersOf
<1>2. v = [t EXCEPT !.m_sentQueue = sq]
  BY DEF CheckAndMoveTimeoutPackets
<1>3. CheckAndMoveTimeoutPackets(t, n).out = copies
  BY DEF CheckAndMoveTimeoutPackets
<1> HIDE DEF q, v
<1>4. \A k \in DOMAIN q : q[k] \in SentItemsOf(S) /\ q[k].m_packetId \in S
  <2>1. \A k \in DOMAIN q : q[k] \in SentItemsOf(S)
    BY <1>1, QueueFacts
  <2> QED
    BY <2>1 DEF SentItemsOf
<1>5. ASSUME NEW k \in DOMAIN q PROVE item(k) \in SentItemsOf(S)
  <2>1. (k <= n) \in BOOLEAN
    OBVIOUS
  <2> QED
    BY <1>4, <2>1 DEF SentItemsOf
<1>6. \A k \in 1..n : Resent(q[k].m_packetId) \in OutOf(S)
  BY <1>1, <1>4 DEF Resent, OutOf
<1>7. copies \in Seq(OutOf(S))
  BY <1>1, <1>6
<1> HIDE DEF item
<1>8. sq \in Seq(SentItemsOf(S))
  BY <1>1, <1>5
<1> HIDE DEF sq, copies
<1>9. v \in BuffersOf(S) /\ v.m_leftBound = t.m_leftBound
  BY <1>2, <1>8 DEF BuffersOf
<1> QED
  BY <1>3, <1>7, <1>9 DEF v
-----------------------------------------------------------------------------
(* Sums over the keys of a map, as the straggler counters and the offsets  *)
(* of the flat bitmap are.                                                 *)

\* The sum of the numbers that f gives to the elements of S.
Total(f, S) == MapThenSumSet(LAMBDA x : f[x], S)

\* The element that MapThenSumSet takes next.
Some(s) == CHOOSE x \in s : TRUE

\* g is what MapThenSumSet builds: a sum for each of the sets in D.
Sums(f, D, g) ==
  g = [s \in D |-> IF s = {} THEN 0 ELSE f[Some(s)] + g[s \ {Some(s)}]]

\* If there is such a g, the total is read off one.
LEMMA TotalIsSum ==
  ASSUME NEW f, NEW S, NEW g, Sums(f, SUBSET S, g)
  PROVE  \E h : Sums(f, SUBSET S, h) /\ Total(f, S) = h[S]
  <1> DEFINE h == CHOOSE h : Sums(f, SUBSET S, h)
  <1>1. Sums(f, SUBSET S, h)
    OBVIOUS
  <1>2. Total(f, S) = h[S]
    BY Zenon DEF Total, MapThenSumSet, MapThenFoldSet, Sums, Some
  <1> HIDE DEF h
  <1> QED BY <1>1, <1>2

\* What is taken was there.
LEMMA SomeOf ==
  ASSUME NEW s, s # {}
  PROVE  Some(s) \in s
  BY DEF Some

\* There is one for all sets of elements of a finite set, one element after
\* another.
LEMMA SumsExist ==
  ASSUME NEW f, NEW S, IsFiniteSet(S)
  PROVE  \E g : Sums(f, SUBSET S, g)
  <1> DEFINE D(n) == {s \in SUBSET S : Cardinality(s) <= n}
             N    == {n \in Nat : \E g : Sums(f, D(n), g)}
  <1>1. \A s \in SUBSET S : IsFiniteSet(s) /\ Cardinality(s) \in Nat
    BY FS_Subset, FS_CardinalityType
  <1>2. \A s \in SUBSET S : s # {} => Cardinality(s \ {Some(s)}) = Cardinality(s) - 1
    BY <1>1, SomeOf, FS_RemoveElement
  <1>3. 0 \in N
    <2> DEFINE g == [s \in D(0) |-> 0]
    <2>1. \A s \in D(0) : s = {}
      BY <1>1, FS_EmptySet
    <2>2. Sums(f, D(0), g)
      BY <2>1 DEF Sums
    <2> QED BY <2>2
  <1>4. ASSUME NEW n \in N
        PROVE  n + 1 \in N
    <2>1. PICK g : Sums(f, D(n), g)
      OBVIOUS
    <2> DEFINE h == [s \in D(n + 1) |-> IF s = {} THEN 0
                                        ELSE f[Some(s)] + g[s \ {Some(s)}]]
    <2>2. \A s \in D(n + 1) : s # {} => s \ {Some(s)} \in D(n)
      BY <1>1, <1>2
    <2>3. \A s \in D(n) : s \in D(n + 1) /\ h[s] = g[s]
      <3> SUFFICES ASSUME NEW s \in D(n) PROVE s \in D(n + 1) /\ h[s] = g[s]
        OBVIOUS
      <3>1. s \in D(n + 1)
        BY <1>1
      <3>2. g[s] = IF s = {} THEN 0 ELSE f[Some(s)] + g[s \ {Some(s)}]
        BY <2>1, Zenon DEF Sums
      <3> QED BY <3>1, <3>2
    <2>4. \A s \in D(n + 1) : s # {} => h[s \ {Some(s)}] = g[s \ {Some(s)}]
      BY <2>2, <2>3
    <2>5. Sums(f, D(n + 1), h)
      <3>1. \A s \in D(n + 1) : (IF s = {} THEN 0 ELSE f[Some(s)] + g[s \ {Some(s)}])
                              = (IF s = {} THEN 0 ELSE f[Some(s)] + h[s \ {Some(s)}])
        BY <2>4
      <3> QED BY <3>1, Zenon DEF Sums
    <2> HIDE DEF h, D
    <2> QED BY <2>5
  <1> HIDE DEF N
  <1>5. N \in SUBSET Nat
    BY DEF N
  <1>6. Cardinality(S) \in N
    BY <1>1, <1>3, <1>4, <1>5, Upwards
  <1>7. D(Cardinality(S)) = SUBSET S
    <2>1. \A s \in SUBSET S : Cardinality(s) <= Cardinality(S)
      BY FS_Subset
    <2> QED BY <2>1
  <1> QED BY <1>6, <1>7 DEF N

\* g[s] is a sum over s from which any element may be split off.
SumSplits(f, g, s) == g[s] \in Nat /\ \A x \in s : g[s] = f[x] + g[s \ {x}]

\* The sum may be taken in any order.
LEMMA SumsSplit ==
  ASSUME NEW S, IsFiniteSet(S), NEW f \in [S -> Nat],
         NEW g, Sums(f, SUBSET S, g)
  PROVE  g[{}] = 0 /\ \A s \in SUBSET S : SumSplits(f, g, s)
  <1> DEFINE N == {n \in Nat : \A s \in SUBSET S : Cardinality(s) <= n => SumSplits(f, g, s)}
  <1>1. \A s \in SUBSET S : IsFiniteSet(s) /\ Cardinality(s) \in Nat
    BY FS_Subset, FS_CardinalityType
  <1>2. \A s \in SUBSET S : \A x \in s : Cardinality(s \ {x}) = Cardinality(s) - 1
    BY <1>1, FS_RemoveElement
  <1>3. g[{}] = 0
    BY DEF Sums
  <1>4. \A s \in SUBSET S : s # {} => g[s] = f[Some(s)] + g[s \ {Some(s)}]
    BY Zenon DEF Sums
  <1>5. SumSplits(f, g, {})
    BY <1>3 DEF SumSplits
  <1>6. 0 \in N
    <2>1. \A s \in SUBSET S : Cardinality(s) <= 0 => s = {}
      BY <1>1, FS_EmptySet
    <2> QED BY <1>5, <2>1
  <1>7. ASSUME NEW n \in N
        PROVE  n + 1 \in N
    <2>1. n \in Nat /\ \A s \in SUBSET S : Cardinality(s) <= n => SumSplits(f, g, s)
      OBVIOUS
    <2>2. ASSUME NEW s \in SUBSET S, Cardinality(s) <= n + 1, s # {}
          PROVE  SumSplits(f, g, s)
      <3> DEFINE y == Some(s)
      <3>1. y \in s /\ g[s] = f[y] + g[s \ {y}]
        BY <1>4, <2>2, SomeOf
      <3> HIDE DEF y
      <3>2. ASSUME NEW x \in s
            PROVE  /\ s \ {x} \in SUBSET S
                   /\ Cardinality(s \ {x}) <= n
                   /\ SumSplits(f, g, s \ {x})
        BY <1>1, <1>2, <2>1, <2>2
      <3>3. f[y] \in Nat /\ g[s \ {y}] \in Nat
        BY <3>1, <3>2 DEF SumSplits
      <3>4. ASSUME NEW x \in s, x # y
            PROVE  g[s] = f[x] + g[s \ {x}]
        <4> DEFINE t == (s \ {y}) \ {x}
        <4>1. g[s \ {y}] = f[x] + g[t]
          BY <3>1, <3>2, <3>4 DEF SumSplits
        <4>2. t = (s \ {x}) \ {y}
          OBVIOUS
        <4>3. g[s \ {x}] = f[y] + g[t]
          BY <3>1, <3>2, <3>4, <4>2 DEF SumSplits
        <4>4. t \in SUBSET S /\ Cardinality(t) <= n
          <5>1. s \ {y} \in SUBSET S /\ x \in s \ {y} /\ Cardinality(s \ {y}) <= n
            BY <3>1, <3>2, <3>4
          <5>2. Cardinality(t) = Cardinality(s \ {y}) - 1
            BY <1>2, <5>1
          <5> QED BY <1>1, <2>1, <5>1, <5>2
        <4>5. g[t] \in Nat /\ f[x] \in Nat
          BY <2>1, <4>4 DEF SumSplits
        <4> HIDE DEF t
        <4> QED BY <3>1, <3>3, <4>1, <4>3, <4>5
      <3>5. \A x \in s : g[s] = f[x] + g[s \ {x}]
        BY <3>1, <3>4
      <3>6. g[s] \in Nat
        BY <3>1, <3>3
      <3> QED BY <3>5, <3>6 DEF SumSplits
    <2>3. \A s \in SUBSET S : Cardinality(s) <= n + 1 => SumSplits(f, g, s)
      BY <1>5, <2>2
    <2> QED BY <2>1, <2>3
  <1> HIDE DEF N
  <1>8. N \in SUBSET Nat
    BY DEF N
  <1>9. \A n \in Nat : n \in N
    BY <1>6, <1>7, <1>8, Upwards
  <1>10. ASSUME NEW s \in SUBSET S PROVE SumSplits(f, g, s)
    <2>1. Cardinality(s) \in N
      BY <1>1, <1>9
    <2> QED BY <1>1, <2>1 DEF N
  <1> QED BY <1>3, <1>10


\* Sums are equal where what is summed is.
LEMMA SumsAgree ==
  ASSUME NEW S, NEW T, IsFiniteSet(S), NEW f, NEW e, NEW g, NEW h,
         Sums(f, SUBSET S, g), Sums(e, SUBSET T, h)
  PROVE  \A u \in SUBSET (S \cap T) : (\A x \in u : f[x] = e[x]) => g[u] = h[u]
  <1> SUFFICES ASSUME NEW u \in SUBSET (S \cap T), \A x \in u : f[x] = e[x]
               PROVE  g[u] = h[u]
    OBVIOUS
  <1> DEFINE N == {n \in Nat : \A s \in SUBSET u : Cardinality(s) <= n => g[s] = h[s]}
  <1>1. \A s \in SUBSET u : IsFiniteSet(s) /\ Cardinality(s) \in Nat
    BY FS_Subset, FS_CardinalityType
  <1>2. \A s \in SUBSET u : \A x \in s : Cardinality(s \ {x}) = Cardinality(s) - 1
    BY <1>1, FS_RemoveElement
  <1>3. g[{}] = 0 /\ h[{}] = 0
    BY DEF Sums
  <1>4. \A s \in SUBSET u : s # {} => g[s] = f[Some(s)] + g[s \ {Some(s)}]
    <2>1. \A s \in SUBSET S : s # {} => g[s] = f[Some(s)] + g[s \ {Some(s)}]
      BY Zenon DEF Sums
    <2> QED BY <2>1
  <1>5. \A s \in SUBSET u : s # {} => h[s] = e[Some(s)] + h[s \ {Some(s)}]
    <2>1. \A s \in SUBSET T : s # {} => h[s] = e[Some(s)] + h[s \ {Some(s)}]
      BY Zenon DEF Sums
    <2> QED BY <2>1
  <1>6. 0 \in N
    <2>1. \A s \in SUBSET u : Cardinality(s) <= 0 => s = {}
      BY <1>1, FS_EmptySet
    <2> QED BY <1>3, <2>1
  <1>7. ASSUME NEW n \in N
        PROVE  n + 1 \in N
    <2>1. n \in Nat /\ \A s \in SUBSET u : Cardinality(s) <= n => g[s] = h[s]
      OBVIOUS
    <2>2. ASSUME NEW s \in SUBSET u, Cardinality(s) <= n + 1, s # {}
          PROVE  g[s] = h[s]
      <3>1. Some(s) \in s
        BY <2>2, SomeOf
      <3>2. s \ {Some(s)} \in SUBSET u /\ Cardinality(s \ {Some(s)}) <= n
        BY <1>1, <1>2, <2>1, <2>2, <3>1
      <3> QED BY <1>4, <1>5, <2>1, <2>2, <3>1, <3>2
    <2>3. \A s \in SUBSET u : Cardinality(s) <= n + 1 => g[s] = h[s]
      BY <1>3, <2>2
    <2> QED BY <2>1, <2>3
  <1> HIDE DEF N
  <1>8. N \in SUBSET Nat
    BY DEF N
  <1>9. Cardinality(u) \in N
    BY <1>1, <1>6, <1>7, <1>8, Upwards
  <1> QED BY <1>1, <1>9 DEF N

\* Nothing sums to zero.
LEMMA TotalEmpty ==
  ASSUME NEW f
  PROVE  Total(f, {}) = 0
  <1>1. PICK g : Sums(f, SUBSET {}, g)
    BY SumsExist, FS_EmptySet
  <1>2. PICK h : Sums(f, SUBSET {}, h) /\ Total(f, {}) = h[{}]
    BY <1>1, TotalIsSum
  <1> QED BY <1>2 DEF Sums

\* std::map's operator[]: when one element's number changes, or comes in, the
\* total changes by as much.
LEMMA TotalChanges ==
  ASSUME NEW S, IsFiniteSet(S), NEW f \in [S -> Nat], NEW x,
         NEW e \in [S \cup {x} -> Nat], \A y \in S \ {x} : e[y] = f[y]
  PROVE  Total(e, S \cup {x}) = IF x \in S THEN Total(f, S) - f[x] + e[x]
                                ELSE Total(f, S) + e[x]
  <1> DEFINE T == S \cup {x}
  <1>1. IsFiniteSet(T)
    BY FS_AddElement
  <1> HIDE DEF T
  <1>2. T = S \cup {x} /\ e \in [T -> Nat]
    BY DEF T
  <1>3. \E g : Sums(f, SUBSET S, g)
    BY SumsExist
  <1>4. \E g : Sums(e, SUBSET T, g)
    BY <1>1, SumsExist
  <1>5. PICK g : Sums(f, SUBSET S, g) /\ Total(f, S) = g[S]
    BY <1>3, TotalIsSum
  <1>6. PICK h : Sums(e, SUBSET T, h) /\ Total(e, T) = h[T]
    BY <1>4, TotalIsSum
  <1>7. \A s \in SUBSET S : SumSplits(f, g, s)
    BY <1>5, SumsSplit
  <1>8. \A s \in SUBSET T : SumSplits(e, h, s)
    BY <1>1, <1>2, <1>6, SumsSplit
  <1>9. h[T] = e[x] + h[T \ {x}]
    BY <1>2, <1>8 DEF SumSplits
  <1>10. T \ {x} = S \ {x}
    BY <1>2
  <1>11. g[S \ {x}] = h[S \ {x}]
    <2> DEFINE u == S \ {x}
    <2>1. u \in SUBSET (S \cap T) /\ \A y \in u : f[y] = e[y]
      BY <1>2
    <2> HIDE DEF u
    <2>2. \A v \in SUBSET (S \cap T) : (\A y \in v : f[y] = e[y]) => g[v] = h[v]
      <3>1. IsFiniteSet(S) /\ Sums(f, SUBSET S, g) /\ Sums(e, SUBSET T, h)
        BY <1>5, <1>6
      <3> QED BY ONLY <3>1, SumsAgree
    <2>3. g[u] = h[u]
      BY <2>1, <2>2, Zenon
    <2> QED BY <2>3 DEF u
  <1>12. g[S \ {x}] \in Nat
    BY <1>7 DEF SumSplits
  <1>13. Total(e, S \cup {x}) = e[x] + g[S \ {x}]
    BY <1>2, <1>6, <1>9, <1>10, <1>11, Zenon
  <1>14. e[x] \in Nat
    OBVIOUS
  <1>15. CASE x \in S
    <2>1. g[S] = f[x] + g[S \ {x}] /\ f[x] \in Nat
      BY <1>7, <1>15 DEF SumSplits
    <2>2. e[x] + g[S \ {x}] = g[S] - f[x] + e[x]
      BY <1>12, <1>14, <2>1
    <2> QED BY <1>5, <1>13, <1>15, <2>2
  <1>16. CASE x \notin S
    <2>1. S \ {x} = S
      BY <1>16
    <2>2. e[x] + g[S] = g[S] + e[x]
      BY <1>12, <1>14, <2>1
    <2> QED BY <1>5, <1>13, <1>16, <2>1, <2>2
  <1> QED BY <1>15, <1>16
=============================================================================
