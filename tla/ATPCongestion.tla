---------------------------- MODULE ATPCongestion ----------------------------
(***************************************************************************)
(* The loop that sets a worker's window: devices mark packets whose queue  *)
(* is long, a leaf switch and the parameter server merge the marks, time   *)
(* stamps and waiting times of the packets they aggregate, the multicast   *)
(* ACK carries the outcome back, and ATPTxBuffer turns it into a window.   *)
(*                                                                         *)
(* It follows one worker, the observer, of a job with two workers under    *)
(* leaf 0 and possibly one under leaf 1.  The way of its first packet is   *)
(* modelled hop by hop, and "now" counts from its first transmission.      *)
(* Sequence numbers share nothing on the way, so that later packets fare   *)
(* no differently: of their ACKs only what WaitWithinRtt shows of the      *)
(* first one is assumed.                                                   *)
(*                                                                         *)
(* Packets are those of ATPAggregator, with the tag fields ecn, timestamp, *)
(* waiting and last (lastbitmap0 and lastbitmap1).  m_virtualAcw is a      *)
(* multiple of 1/Scale; where the code multiplies it by a factor that      *)
(* averages over the past, it may become anything the range of the factor  *)
(* allows.                                                                 *)
(***************************************************************************)
EXTENDS ATPJobTree, Integers, FiniteSets

CONSTANTS
  FanIns,            \* the jobs: the numbers of workers under their leaves
  MaxTime,           \* bound on the time until a packet is acknowledged
  MaxUp,             \* bound on the packets between leaves and server
  MaxCwnd,           \* m_maxCwnd, in packets
  InitCwnds,         \* the windows SetInitCwnd is called with
  Scale,             \* of m_virtualAcw
  WaitingThreshold,  \* m_stragglerWaitingThresholdUs
  SampleThreshold,   \* m_stragglerSampleThreshold
  Positions          \* the last bitmaps that ACKs after the first one name

ASSUME CongestionAssumption ==
  /\ FanIns \subseteq Seq(Nat \ {0})
  /\ MaxTime \in Nat
  /\ MaxCwnd \in Nat \ {0}
  /\ InitCwnds \subseteq 1..MaxCwnd
  /\ \A n \in 1..MaxCwnd : Scale % n = 0
  /\ Scale \in Nat \ {0} /\ Scale % 2 = 0
  /\ WaitingThreshold \in Nat
  /\ SampleThreshold \in Nat \ {0}

A == INSTANCE ATPAggregator

VARIABLES
  tree,        \* of the job
  now,
  slot,        \* leaf -> its slot, [agg, m_firstArrivalTime, timestamp]
  up,          \* packets from the leaves to the parameter server
  aggregator,  \* JobAggregator of the packet
  ack,         \* the ACK that is under way, or NoAck
  first,       \* is the first packet not acknowledged yet?
  win,         \* m_txBuffer: the window and what it is computed from
  highest,     \* m_highestSentPacketId - m_leftBound
  roundEnd,    \* m_roundEndPacketId - m_leftBound, or Unset
  marked,      \* history: has a mark reached the server's aggregation?
  roundMarked  \* history: has an ACK with a mark come since the round began?

path == <<now, slot, up, aggregator, ack, first, marked>>
vars == <<tree, path, win, highest, roundEnd, roundMarked>>

Leaves == DOMAIN tree.branches
LeafOf(w) == CHOOSE b \in w[2] : TRUE
Workers == UNION {{<<{k}, {b}>> : k \in tree.branches[b].fullBitmap0} :
                    b \in Leaves}
Observer == <<{0}, {0}>>
NoBitmaps == <<{}, {}>>

Unset == -1

NoAck == [ecn |-> FALSE, timestamp |-> Unset]
EmptySlot == [agg |-> A!Reset, m_firstArrivalTime |-> 0, timestamp |-> 0]
NoAggregator == [flat |-> {}, ecn |-> FALSE,
                 m_firstArrivalTime |-> 0, timestamp |-> 0]

\* What the packet's tag is after DoSend at time ts.
Packet(w, ts, resend) ==
  [jobId |-> 1, seqNum |-> 1, bitmap0 |-> w[1], bitmap1 |-> w[2],
   fanin0 |-> tree.branches[LeafOf(w)].fanInDegree0,
   fanin1 |-> Cardinality(tree.fullBitmap1), edge |-> 0, resend |-> resend,
   collision |-> FALSE, isAck |-> FALSE, data |-> {}, ecn |-> FALSE,
   timestamp |-> ts, waiting |-> 0, last |-> NoBitmaps]

\* PointToPointNetDevice::Send, its queue being long or not.
Send(p, long) == [p EXCEPT !.ecn = @ \/ long]

\* ATPTxBuffer with SetLCW and SetACW called.  m_lcw is m_acw throughout.
NewWindow(cwnd) ==
  [m_acw |-> cwnd, m_virtualAcw |-> cwnd * Scale, gamma |-> 0,
   m_ecnCount |-> 0, m_ackCount |-> 0,
   m_stragglers |-> <<>>, m_stragglerCount |-> 0,
   m_stragglerCountMax |-> 0, m_stragglerBitmap |-> NoBitmaps]

Init ==
  /\ tree \in {InstallJobTree(f) : f \in FanIns}
  /\ now = 0
  /\ slot = [b \in Leaves |-> EmptySlot]
  /\ up = {}
  /\ aggregator = NoAggregator
  /\ ack = NoAck
  /\ first = TRUE
  /\ \E cwnd \in InitCwnds : win = NewWindow(cwnd)
  /\ highest = 0
  /\ roundEnd = Unset
  /\ marked = FALSE
  /\ roundMarked = FALSE
-----------------------------------------------------------------------------
\* What a leaf switch sends on: a completed slot gives its result the time
\* stamp of the first packet, the wait for the last one, and the last one's
\* bits; all else goes on with its own tag.
Completed(o, p) == ~p.resend /\ o.out # <<>> /\ ~Head(o.out).collision

\* Mutant: the result has the time stamp of the last packet.
ResultOwnTimestamp(t, o, p) ==
  IF Completed(o, p)
  THEN [Head(o.out) EXCEPT !.waiting = now - t.m_firstArrivalTime,
                           !.last = <<p.bitmap0, @[2]>>]
  ELSE Head(o.out)

Result(t, o, p) ==
  IF Completed(o, p)
  THEN [Head(o.out) EXCEPT !.timestamp = t.timestamp,
                           !.waiting = now - t.m_firstArrivalTime,
                           !.last = <<p.bitmap0, @[2]>>]
  ELSE Head(o.out)

\* A packet of worker w, sent at ts, comes to its leaf switch.
LeafReceive(w, ts, resend, queueLong) ==
  LET p == Packet(w, ts, resend)
      b == LeafOf(w)
      o == A!FilterPacket(slot[b].agg, p, FALSE)
      t == CASE o.event = "acquire" -> [agg |-> o.slot, timestamp |-> ts,
                                        m_firstArrivalTime |-> now]
             [] o.event = "release" -> EmptySlot
             [] OTHER               -> [slot[b] EXCEPT !.agg = o.slot]
  IN  /\ first /\ ack = NoAck
      /\ w = Observer => highest > 0
      /\ slot' = [slot EXCEPT ![b] = t]
      /\ \/ o.out = <<>> /\ ~queueLong /\ UNCHANGED up
         \/ /\ o.out # <<>>
            /\ Cardinality(up) < MaxUp
            /\ up' = up \cup {Send(Result(t, o, p), queueLong)}
      /\ UNCHANGED <<tree, now, aggregator, ack, first, win, highest, roundEnd,
                     marked, roundMarked>>

\* Mutant: the marks of the last packet only.
ProcessPacketLastMark(agg, p, flat) ==
  IF flat \subseteq agg.flat THEN agg
  ELSE [flat |-> agg.flat \cup flat, ecn |-> p.ecn,
        m_firstArrivalTime |-> IF agg.flat = {} THEN now ELSE agg.m_firstArrivalTime,
        timestamp |-> IF agg.flat = {} THEN p.timestamp ELSE agg.timestamp]

\* JobAggregator::ProcessPacket.
ProcessPacket(agg, p, flat) ==
  IF flat \subseteq agg.flat THEN agg
  ELSE [flat |-> agg.flat \cup flat, ecn |-> agg.ecn \/ p.ecn,
        m_firstArrivalTime |-> IF agg.flat = {} THEN now ELSE agg.m_firstArrivalTime,
        timestamp |-> IF agg.flat = {} THEN p.timestamp ELSE agg.timestamp]

\* SendMultiAck: the ACK takes the feedback over from the tag, some device on
\* its way may mark it too, and the leaves give their slots back.  What comes
\* later of the packet has no effect on the window.
SendMultiAck(p, queueLong) ==
  /\ ack' = Send([ecn |-> p.ecn, last |-> p.last, timestamp |-> p.timestamp,
                  waiting |-> p.waiting], queueLong)
  /\ slot' = [b \in Leaves |-> EmptySlot]
  /\ up' = {}
  /\ aggregator' = NoAggregator

\* ForwardUp and AggregatePacket of the server's socket, up to the ACK, which
\* some device on its way may mark too.
ServerReceive(p, queueLong) ==
  LET flat == ConvertToFlatBitmap(tree, p.bitmap0, p.bitmap1)
      agg  == ProcessPacket(aggregator, p, flat)
      done == [p EXCEPT !.timestamp = agg.timestamp, !.ecn = agg.ecn,
                        !.waiting = now - agg.m_firstArrivalTime,
                        !.last = IF @ = NoBitmaps THEN <<p.bitmap0, p.bitmap1>>
                                 ELSE @]
  IN  /\ p \in up
      /\ ack = NoAck
      /\ \/ /\ IsAggregationComplete(tree, flat)
            /\ SendMultiAck(p, queueLong)
            /\ marked' = p.ecn
         \/ /\ ~IsAggregationComplete(tree, flat)
            /\ marked' = (marked \/ (p.ecn /\ ~(flat \subseteq aggregator.flat)))
            /\ \/ /\ IsAggregationComplete(tree, agg.flat)
                  /\ SendMultiAck(done, queueLong)
               \/ /\ ~IsAggregationComplete(tree, agg.flat)
                  /\ ~queueLong
                  /\ up' = up \ {p}
                  /\ aggregator' = agg
                  /\ UNCHANGED <<slot, ack>>
      /\ UNCHANGED <<tree, now, first, win, highest, roundEnd, roundMarked>>
-----------------------------------------------------------------------------
\* ATPTxBuffer.
CountCongestion(w, a) ==
  [w EXCEPT !.m_ackCount = @ + 1,
            !.m_ecnCount = @ + (IF a.ecn THEN 1 ELSE 0)]

\* gamma is the largest sample so far, in halves and rounded up: m_gamma is an
\* average of samples, and no larger.
UpdateStraggler(w, a, rtt) ==
  LET sample  == (2 * a.waiting + rtt - 1) \div rtt
      sampled == [w EXCEPT !.gamma = Max({@, sample})]
      n       == IF a.last \in DOMAIN w.m_stragglers
                 THEN w.m_stragglers[a.last] + 1 ELSE 1
      map     == [pos \in DOMAIN w.m_stragglers \cup {a.last} |->
                    IF pos = a.last THEN n ELSE w.m_stragglers[pos]]
  IN  IF a.waiting <= WaitingThreshold
      THEN sampled
      ELSE [sampled EXCEPT
              !.m_stragglers = map,
              !.m_stragglerCount = @ + 1,
              !.m_stragglerCountMax = Max({@, n}),
              !.m_stragglerBitmap = IF n > w.m_stragglerCountMax THEN a.last ELSE @]

\* What m_virtualAcw may be after the marks of a round: the factor for a
\* marked round lies between a half and one.
AfterMarks(w) ==
  IF w.m_ecnCount > 0
  THEN {Max({Scale, v}) : v \in (w.m_virtualAcw \div 2)..w.m_virtualAcw}
  ELSE {w.m_virtualAcw + (w.m_ackCount * Scale) \div w.m_acw}

Sampled(w) == w.m_stragglerCount >= SampleThreshold

\* Nine of ten long waits were for the same worker, and it is another one.
BlamesOther(w) ==
  /\ Sampled(w)
  /\ 10 * w.m_stragglerCountMax > 9 * w.m_stragglerCount
  /\ w.m_stragglerBitmap # Observer

\* Mutant: the window is cut by gamma, not half of it.
AfterStragglersFull(w, v) ==
  IF BlamesOther(w) THEN ((v * (2 - w.gamma)) \div 2)..v ELSE {v}

AfterStragglers(w, v) ==
  IF BlamesOther(w) THEN ((v * (4 - w.gamma)) \div 4)..v ELSE {v}

\* Mutants: the maximum survives the samples; the marks survive the round.
ClearMapOnly(w) ==
  IF Sampled(w)
  THEN [w EXCEPT !.m_stragglers = <<>>,
                 !.m_stragglerCount = 0]
  ELSE w

ClearStragglers(w) ==
  IF Sampled(w)
  THEN [w EXCEPT !.m_stragglers = <<>>,
                 !.m_stragglerCount = 0, !.m_stragglerCountMax = 0,
                 !.m_stragglerBitmap = NoBitmaps]
  ELSE w

ResetButMarks(w) == [w EXCEPT !.m_ackCount = 0]

ResetPeriod(w) ==
  [w EXCEPT !.m_ecnCount = 0, !.m_ackCount = 0]

SetWindow(w, v) ==
  LET acw == Max({1, v \div Scale}) IN
  IF acw > MaxCwnd
  THEN [w EXCEPT !.m_acw = MaxCwnd, !.m_virtualAcw = MaxCwnd * Scale]
  ELSE [w EXCEPT !.m_acw = acw, !.m_virtualAcw = v]

\* The counters after the ACK.
Counted == UpdateStraggler(CountCongestion(win, ack), ack, now - ack.timestamp)

\* ReceiveAck up to and with ProcessCongestion.  An ACK for the oldest packet
\* sent is counted, and the window changes when that packet is the last one of
\* the round; one that comes before the packet was sent has no effect.
ReceiveAck ==
  LET end == IF roundEnd = Unset THEN highest ELSE roundEnd IN
  /\ ack # NoAck
  /\ ack' = NoAck
  /\ now' = 0
  /\ marked' = FALSE
  /\ \/ /\ highest > 0
        /\ first' = FALSE
        /\ highest' = highest - 1
        /\ \/ /\ end > 1
              /\ win' = Counted
              /\ roundEnd' = end - 1
              /\ roundMarked' = (roundMarked \/ ack.ecn)
           \/ /\ end <= 1
              /\ \E v \in AfterMarks(Counted) : \E u \in AfterStragglers(Counted, v) :
                   win' = ResetPeriod(SetWindow(ClearStragglers(Counted), u))
              /\ roundEnd' = highest - 1
              /\ roundMarked' = FALSE
     \/ /\ highest = 0
        /\ UNCHANGED <<first, win, highest, roundEnd, roundMarked>>
  /\ UNCHANGED <<tree, slot, up, aggregator>>

\* The ACK of a later packet of the observer is about to arrive.
LaterAck(ecn, last, rtt, waiting) ==
  /\ ~first
  /\ ack = NoAck
  /\ highest > 0
  /\ now' = rtt
  /\ ack' = [ecn |-> ecn, last |-> last, timestamp |-> 0, waiting |-> waiting]
  /\ UNCHANGED <<tree, slot, up, aggregator, first, win, highest, roundEnd,
                 marked, roundMarked>>

\* SendWindowData: the application always has packets.
SendWindowData ==
  /\ highest < win.m_acw
  /\ highest' = win.m_acw
  /\ UNCHANGED <<tree, path, win, roundEnd, roundMarked>>

\* Time passes.
Tick ==
  /\ first
  /\ now < MaxTime
  /\ now' = now + 1
  /\ UNCHANGED <<tree, slot, up, aggregator, ack, first, win, highest, roundEnd,
                 marked, roundMarked>>

Next ==
  \/ \E w \in Workers, ts \in 0..(now - 1), resend, queueLong \in BOOLEAN :
       LeafReceive(w, ts, resend, queueLong)
  \/ \E p \in up, queueLong \in BOOLEAN : ServerReceive(p, queueLong)
  \/ \E rtt \in 1..MaxTime : \E waiting \in 0..rtt, ecn \in BOOLEAN, last \in Positions :
       LaterAck(ecn, last, rtt, waiting)
  \/ ReceiveAck
  \/ SendWindowData
  \/ Tick

Spec == Init /\ [][Next]_vars
-----------------------------------------------------------------------------
\* The wait an ACK reports lies within the round trip it is set against,
\* although the time stamp and the wait come from different packets, passed
\* on by two aggregators: gamma is never more than one.
WaitWithinRtt ==
  /\ ack # NoAck => ack.waiting <= now - ack.timestamp
  /\ win.gamma <= 2

\* Whatever cuts a round brings, m_virtualAcw stays at half a packet or more,
\* so that the window recovers within one round, and the window is what it
\* stands for, between one packet and m_maxCwnd.
VirtualWindowSound ==
  /\ 2 * win.m_virtualAcw >= Scale
  /\ win.m_acw = Max({1, win.m_virtualAcw \div Scale})
  /\ win.m_acw <= MaxCwnd

\* The counter, its maximum and the position blamed agree with the map of
\* stragglers over all rounds, clearings and ties.
StragglersConsistent ==
  LET map == win.m_stragglers IN
  /\ win.m_stragglerCount = MapThenSumSet(LAMBDA pos : map[pos], DOMAIN map)
  /\ \A pos \in DOMAIN map : map[pos] <= win.m_stragglerCountMax
  /\ IF map = <<>> THEN win.m_stragglerCountMax = 0
     ELSE map[win.m_stragglerBitmap] = win.m_stragglerCountMax

\* A mark on a packet the server aggregated is on the ACK, whichever packet
\* came first or last.
MarksEchoed == ack # NoAck /\ marked => ack.ecn

\* The window shrinks only when an ACK of the round was marked, or when the
\* long waits are another worker's fault.
ShrinksForAReason ==
  [][win'.m_acw < win.m_acw =>
       roundMarked \/ ack.ecn \/ BlamesOther(Counted)]_vars
=============================================================================
