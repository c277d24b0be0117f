------------------------- MODULE ATPCongestionProofs -------------------------
(***************************************************************************)
(* Proofs about ATPCongestion for every job tree, every bound on time, on  *)
(* packets under way and on the window, every initial window, scale and    *)
(* threshold, and whatever positions ACKs name as the last ones.           *)
(*                                                                         *)
(* The window is shown to be sound whatever the stragglers are: of them    *)
(* only that they may be blamed or not is used.  What they are comes last, *)
(* with the sums of ATPTxBufferProofs.                                     *)
(***************************************************************************)
EXTENDS ATPCongestion, FiniteSetTheorems, TLAPS

B == INSTANCE ATPTxBufferProofs

-----------------------------------------------------------------------------
(* Arithmetic of the window, which is kept in multiples of 1/Scale.        *)

\* std::max of two numbers, as UpdateStraggler, ProcessCongestion and SetACW
\* use it.
LEMMA MaxOfTwo ==
  ASSUME NEW x \in Int, NEW y \in Int
  PROVE  Max({x, y}) = IF x >= y THEN x ELSE y
  <1>1. CASE x >= y
    <2>1. \A z \in {x, y} : x >= z
      BY <1>1
    <2>2. \A m \in {x, y} : (\A z \in {x, y} : m >= z) => m = x
      BY <1>1
    <2> QED BY <1>1, <2>1, <2>2 DEF Max
  <1>2. CASE ~(x >= y)
    <2>1. \A z \in {x, y} : y >= z
      BY <1>2
    <2>2. \A m \in {x, y} : (\A z \in {x, y} : m >= z) => m = y
      BY <1>2
    <2> QED BY <1>2, <2>1, <2>2 DEF Max
  <1> QED BY <1>1, <1>2

\* A product lies between its factor's products with the ends of a range.
LEMMA ProductGrows ==
  ASSUME NEW a \in Nat, NEW b \in Nat, NEW s \in Nat, a <= b
  PROVE  a * s <= b * s /\ a * s \in Nat
  OBVIOUS

\* Truncation of a window to packets, the conversion of m_virtualAcw to an
\* integer.
LEMMA Truncation ==
  ASSUME NEW x \in Nat, NEW s \in Nat \ {0}
  PROVE  /\ x \div s \in Nat
         /\ (x \div s) * s <= x
         /\ x < (x \div s) * s + s
  OBVIOUS

\* A larger m_virtualAcw stands for no smaller window.
LEMMA TruncationMonotonic ==
  ASSUME NEW x \in Nat, NEW y \in Nat, NEW s \in Nat \ {0}, x <= y
  PROVE  x \div s <= y \div s
  <1> DEFINE p == x \div s
             q == y \div s
  <1>1. p \in Nat /\ q \in Nat /\ p * s <= x /\ y < q * s + s
    BY Truncation
  <1> HIDE DEF p, q
  <1>2. SUFFICES ASSUME q + 1 <= p PROVE FALSE
    BY <1>1 DEF p, q
  <1>3. (q + 1) * s <= p * s
    BY <1>1, <1>2, ProductGrows
  <1>4. (q + 1) * s = q * s + s
    BY <1>1
  <1>5. q * s \in Nat /\ p * s \in Nat
    BY <1>1
  <1> QED BY <1>1, <1>3, <1>4, <1>5

\* A window of whole packets is the one its m_virtualAcw stands for.
LEMMA TruncationExact ==
  ASSUME NEW n \in Nat, NEW s \in Nat \ {0}
  PROVE  (n * s) \div s = n
  <1> DEFINE x == n * s
             q == x \div s
  <1>1. x \in Nat
    OBVIOUS
  <1> HIDE DEF x
  <1>2. q \in Nat /\ q * s <= x /\ x < q * s + s
    BY <1>1, Truncation
  <1> HIDE DEF q
  <1>3. q * s \in Nat /\ (q + 1) * s = q * s + s /\ (n + 1) * s = n * s + s
    BY <1>2
  <1>4. ~(q + 1 <= n)
    <2> SUFFICES ASSUME q + 1 <= n PROVE FALSE
      OBVIOUS
    <2>1. (q + 1) * s <= n * s
      BY <1>2, ProductGrows
    <2> QED BY <2>1, <1>2, <1>3, <1>1 DEF x
  <1>5. ~(n + 1 <= q)
    <2> SUFFICES ASSUME n + 1 <= q PROVE FALSE
      OBVIOUS
    <2>1. (n + 1) * s <= q * s
      BY <1>2, ProductGrows
    <2> QED BY <2>1, <1>2, <1>3, <1>1 DEF x
  <1> QED BY <1>2, <1>4, <1>5 DEF q, x

\* A wait within its round trip is a sample of at most one, two halves.
LEMMA SampleAtMostOne ==
  ASSUME NEW waiting \in Nat, NEW rtt \in Nat \ {0}, waiting <= rtt
  PROVE  (2 * waiting + rtt - 1) \div rtt \in 0..2
  <1> DEFINE x == 2 * waiting + rtt - 1
             q == x \div rtt
  <1>1. x \in Nat /\ x < 3 * rtt
    OBVIOUS
  <1> HIDE DEF x
  <1>2. q \in Nat /\ q * rtt <= x
    BY <1>1, Truncation
  <1> HIDE DEF q
  <1>3. SUFFICES ASSUME 3 <= q PROVE FALSE
    BY <1>2 DEF q, x
  <1>4. 3 * rtt <= q * rtt
    BY <1>2, <1>3, ProductGrows
  <1>5. q * rtt \in Nat
    BY <1>2
  <1> QED BY <1>1, <1>2, <1>4, <1>5

-----------------------------------------------------------------------------
(* What an ACK makes of the window.                                        *)

\* The fields of ATPTxBuffer that the window is computed from.
Window(w) ==
  /\ w = [m_acw |-> w.m_acw, m_virtualAcw |-> w.m_virtualAcw,
          gamma |-> w.gamma, m_ecnCount |-> w.m_ecnCount,
          m_ackCount |-> w.m_ackCount, m_stragglers |-> w.m_stragglers,
          m_stragglerCount |-> w.m_stragglerCount,
          m_stragglerCountMax |-> w.m_stragglerCountMax,
          m_stragglerBitmap |-> w.m_stragglerBitmap]
  /\ w.m_acw \in Nat /\ w.m_virtualAcw \in Nat
  /\ w.gamma \in 0..2
  /\ w.m_ecnCount \in Nat /\ w.m_ackCount \in Nat

\* VirtualWindowSound, for a given buffer.
Sound(w) ==
  /\ 2 * w.m_virtualAcw >= Scale
  /\ w.m_acw = Max({1, w.m_virtualAcw \div Scale})
  /\ w.m_acw <= MaxCwnd

\* CountCongestion and UpdateStraggler leave the window alone: they count the
\* ACK, its mark and its wait.
LEMMA CountedWindow ==
  ASSUME NEW w, NEW a, NEW rtt \in Nat \ {0},
         Window(w), a.ecn \in BOOLEAN, a.waiting \in Nat, a.waiting <= rtt
  PROVE  LET c == UpdateStraggler(CountCongestion(w, a), a, rtt) IN
         /\ Window(c)
         /\ c.m_acw = w.m_acw /\ c.m_virtualAcw = w.m_virtualAcw
         /\ c.m_ackCount = w.m_ackCount + 1
         /\ c.m_ecnCount = IF a.ecn THEN w.m_ecnCount + 1 ELSE w.m_ecnCount
  <1> DEFINE d == CountCongestion(w, a)
             c == UpdateStraggler(d, a, rtt)
  <1>1. /\ Window(d)
        /\ d.m_acw = w.m_acw /\ d.m_virtualAcw = w.m_virtualAcw
        /\ d.m_ackCount = w.m_ackCount + 1
        /\ d.m_ecnCount = IF a.ecn THEN w.m_ecnCount + 1 ELSE w.m_ecnCount
    <2> DEFINE acks == w.m_ackCount + 1
               ecns == w.m_ecnCount + (IF a.ecn THEN 1 ELSE 0)
    <2>1. acks \in Nat /\ ecns \in Nat
      BY DEF Window
    <2>2. ecns = IF a.ecn THEN w.m_ecnCount + 1 ELSE w.m_ecnCount
      BY DEF Window
    <2>3. d = [w EXCEPT !.m_ackCount = acks, !.m_ecnCount = ecns]
      BY DEF CountCongestion
    <2> HIDE DEF acks, ecns, d
    <2>4. d.m_ackCount = acks /\ d.m_ecnCount = ecns
      BY <2>3 DEF Window
    <2>5. d.m_acw = w.m_acw /\ d.m_virtualAcw = w.m_virtualAcw
      BY <2>3 DEF Window
    <2>6. Window(d)
      BY <2>1, <2>3 DEF Window
    <2> QED BY <2>2, <2>4, <2>5, <2>6 DEF acks
  <1> DEFINE sample == (2 * a.waiting + rtt - 1) \div rtt
             g      == Max({d.gamma, sample})
             n      == IF a.last \in DOMAIN d.m_stragglers
                       THEN d.m_stragglers[a.last] + 1 ELSE 1
             map    == [p \in DOMAIN d.m_stragglers \cup {a.last} |->
                          IF p = a.last THEN n ELSE d.m_stragglers[p]]
             most   == Max({d.m_stragglerCountMax, n})
             pos    == IF n > d.m_stragglerCountMax THEN a.last
                       ELSE d.m_stragglerBitmap
             count  == d.m_stragglerCount + 1
             sampled == [d EXCEPT !.gamma = g]
             full   == [sampled EXCEPT !.m_stragglers = map,
                                       !.m_stragglerCount = count,
                                       !.m_stragglerCountMax = most,
                                       !.m_stragglerBitmap = pos]
  <1>2. g \in 0..2
    <2>1. sample \in 0..2
      BY SampleAtMostOne
    <2>2. d.gamma \in 0..2
      BY <1>1 DEF Window
    <2> HIDE DEF sample, d
    <2> QED BY <2>1, <2>2, MaxOfTwo
  <1>3. c = sampled \/ c = full
    <2> HIDE DEF d
    <2>1. CASE a.waiting <= WaitingThreshold
      BY <2>1 DEF UpdateStraggler
    <2>2. CASE ~(a.waiting <= WaitingThreshold)
      <3>1. d = [d EXCEPT !.gamma = d.gamma]
        BY <1>1 DEF Window
      <3>2. /\ sampled.m_stragglers = d.m_stragglers
            /\ sampled.m_stragglerCount = d.m_stragglerCount
            /\ sampled.m_stragglerCountMax = d.m_stragglerCountMax
            /\ sampled.m_stragglerBitmap = d.m_stragglerBitmap
        <4> HIDE DEF g
        <4> QED BY <1>1 DEF Window
      <3> QED BY <2>2, <3>2 DEF UpdateStraggler
    <2> QED BY <2>1, <2>2
  <1> HIDE DEF c, d, g, n, map, most, pos, count, sample
  <1>4. /\ Window(sampled)
        /\ sampled.m_acw = d.m_acw /\ sampled.m_virtualAcw = d.m_virtualAcw
        /\ sampled.m_ackCount = d.m_ackCount /\ sampled.m_ecnCount = d.m_ecnCount
    BY <1>1, <1>2 DEF Window
  <1>5. /\ Window(full)
        /\ full.m_acw = d.m_acw /\ full.m_virtualAcw = d.m_virtualAcw
        /\ full.m_ackCount = d.m_ackCount /\ full.m_ecnCount = d.m_ecnCount
    <2>1. Window(sampled)
      BY <1>4
    <2> HIDE DEF sampled
    <2>2. full = [sampled EXCEPT !.m_stragglers = map, !.m_stragglerCount = count,
                                 !.m_stragglerCountMax = most,
                                 !.m_stragglerBitmap = pos]
      OBVIOUS
    <2> HIDE DEF full
    <2>3. /\ Window(full)
          /\ full.m_acw = sampled.m_acw
          /\ full.m_virtualAcw = sampled.m_virtualAcw
          /\ full.m_ackCount = sampled.m_ackCount
          /\ full.m_ecnCount = sampled.m_ecnCount
      BY <2>1, <2>2 DEF Window
    <2> QED BY <1>4, <2>3
  <1> HIDE DEF sampled, full
  <1>6. /\ Window(c)
        /\ c.m_acw = w.m_acw /\ c.m_virtualAcw = w.m_virtualAcw
        /\ c.m_ackCount = w.m_ackCount + 1
        /\ c.m_ecnCount = IF a.ecn THEN w.m_ecnCount + 1 ELSE w.m_ecnCount
    BY <1>1, <1>3, <1>4, <1>5
  <1> QED BY <1>6 DEF c, d

\* After the marks of a round m_virtualAcw is a packet or more, although it
\* may have been less before, and without a mark it is no smaller.
LEMMA AfterMarksBound ==
  ASSUME NEW w, Window(w), Sound(w), w.m_ackCount >= 1, NEW v \in AfterMarks(w)
  PROVE  /\ v \in Nat /\ v >= Scale
         /\ w.m_ecnCount = 0 => v >= w.m_virtualAcw
  <1> DEFINE virtual == w.m_virtualAcw
             acw == w.m_acw
  <1>1. /\ Scale \in Nat \ {0} /\ virtual \in Nat /\ acw \in Nat
        /\ w.m_ecnCount \in Nat /\ w.m_ackCount \in Nat
    BY CongestionAssumption DEF Window
  <1>2. CASE w.m_ecnCount > 0
    <2>1. virtual \div 2 \in Nat
      BY <1>1, Truncation
    <2>2. PICK x \in (virtual \div 2)..virtual : v = Max({Scale, x})
      BY <1>2 DEF AfterMarks
    <2>3. x \in Int
      BY <2>1
    <2> QED BY <1>1, <1>2, <2>2, <2>3, MaxOfTwo
  <1>3. CASE ~(w.m_ecnCount > 0)
    <2> DEFINE grown == w.m_ackCount * Scale
               step  == grown \div acw
    <2>1. v = virtual + step
      BY <1>3 DEF AfterMarks
    <2>2. virtual \div Scale \in Nat
      BY <1>1, Truncation
    <2>3. acw = IF 1 >= virtual \div Scale THEN 1 ELSE virtual \div Scale
      BY <2>2, MaxOfTwo DEF Sound
    <2>4. acw \in Nat \ {0}
      BY <2>2, <2>3
    <2>5. 1 * Scale <= w.m_ackCount * Scale
      BY <1>1, ProductGrows
    <2>6. grown \in Nat /\ grown >= Scale
      BY <1>1, <2>5
    <2> HIDE DEF grown
    <2>7. step \in Nat
      BY <2>4, <2>6, Truncation
    <2>8. CASE virtual >= Scale
      BY <1>1, <2>1, <2>7, <2>8
    <2>9. CASE virtual < Scale
      <3>1. virtual \div Scale = 0
        BY <1>1, <2>9
      <3>2. acw = 1
        BY <2>3, <3>1
      <3>3. step = grown
        BY <2>6, <3>2
      <3> QED BY <1>1, <2>1, <2>6, <3>3
    <2> QED BY <1>1, <2>8, <2>9
  <1> QED BY <1>2, <1>3

\* gamma being one at most, a worker that waits for another one gives up half
\* of its window at most.
LEMMA AfterStragglersBound ==
  ASSUME NEW w, Window(w), NEW v \in Nat, v >= Scale, NEW u \in AfterStragglers(w, v)
  PROVE  /\ u \in Nat /\ 2 * u >= Scale
         /\ ~BlamesOther(w) => u = v
  <1>1. Scale \in Nat /\ Scale % 2 = 0
    BY CongestionAssumption
  <1>2. CASE ~BlamesOther(w)
    BY <1>1, <1>2 DEF AfterStragglers
  <1>3. CASE BlamesOther(w)
    <2> DEFINE low == (v * (4 - w.gamma)) \div 4
    <2>1. u \in low..v
      BY <1>3 DEF AfterStragglers
    <2>2. w.gamma \in {0, 1, 2}
      BY DEF Window
    <2>3. low \in Nat /\ 4 * low + 3 >= 2 * v
      <3>1. CASE w.gamma = 0
        BY <3>1
      <3>2. CASE w.gamma = 1
        BY <3>2
      <3>3. CASE w.gamma = 2
        BY <3>3
      <3> QED BY <2>2, <3>1, <3>2, <3>3
    <2> HIDE DEF low
    <2> QED BY <1>1, <1>3, <2>1, <2>3
  <1> QED BY <1>2, <1>3

\* SetACW makes a sound window of any m_virtualAcw of half a packet or more,
\* one that is no smaller than before when m_virtualAcw is not.
LEMMA SetWindowSound ==
  ASSUME NEW w, Window(w), NEW u \in Nat, 2 * u >= Scale
  PROVE  /\ Window(SetWindow(w, u))
         /\ Sound(SetWindow(w, u))
         /\ \A old : /\ Window(old) /\ Sound(old)
                     /\ old.m_virtualAcw <= u
                     => SetWindow(w, u).m_acw >= old.m_acw
  <1> DEFINE acw == Max({1, u \div Scale})
             r == SetWindow(w, u)
             max == MaxCwnd * Scale
  <1>1. Scale \in Nat \ {0} /\ MaxCwnd \in Nat \ {0}
    BY CongestionAssumption
  <1>2. /\ u \div Scale \in Nat
        /\ acw = IF 1 >= u \div Scale THEN 1 ELSE u \div Scale
    BY <1>1, Truncation, MaxOfTwo
  <1>3. acw \in Nat
    BY <1>2
  <1>4. /\ max \in Nat /\ max >= Scale
        /\ MaxCwnd = Max({1, max \div Scale})
    <2>1. 1 * Scale <= MaxCwnd * Scale
      BY <1>1, ProductGrows
    <2>2. max \div Scale = MaxCwnd
      BY <1>1, TruncationExact
    <2>3. MaxCwnd = Max({1, MaxCwnd})
      BY <1>1, MaxOfTwo
    <2>4. max \in Nat /\ max >= Scale
      BY <1>1, <2>1
    <2> HIDE DEF max
    <2> QED BY <2>2, <2>3, <2>4
  <1>5. \A old : Window(old) /\ Sound(old) /\ old.m_virtualAcw <= u
                 => old.m_acw <= acw /\ old.m_acw <= MaxCwnd
    <2> SUFFICES ASSUME NEW old, Window(old), Sound(old), old.m_virtualAcw <= u
                 PROVE  old.m_acw <= acw /\ old.m_acw <= MaxCwnd
      OBVIOUS
    <2> DEFINE x == old.m_virtualAcw
    <2>1. x \in Nat /\ old.m_acw = Max({1, x \div Scale}) /\ old.m_acw <= MaxCwnd
      BY DEF Window, Sound
    <2>2. x \div Scale \in Nat /\ x \div Scale <= u \div Scale
      BY <1>1, <2>1, Truncation, TruncationMonotonic
    <2>3. old.m_acw = IF 1 >= x \div Scale THEN 1 ELSE x \div Scale
      BY <2>1, <2>2, MaxOfTwo
    <2> QED BY <1>2, <2>1, <2>2, <2>3
  <1> HIDE DEF max
  <1>6. CASE acw > MaxCwnd
    <2>1. r = [w EXCEPT !.m_acw = MaxCwnd, !.m_virtualAcw = max]
      BY <1>6 DEF SetWindow, max
    <2>2. Window(r) /\ r.m_acw = MaxCwnd /\ r.m_virtualAcw = max
      <3> HIDE DEF r
      <3> QED BY <1>1, <1>4, <2>1 DEF Window
    <2> HIDE DEF r, acw
    <2>3. Sound(r)
      BY <1>1, <1>4, <2>2 DEF Sound
    <2> QED BY <1>1, <1>5, <2>2, <2>3 DEF r, Window
  <1>7. CASE ~(acw > MaxCwnd)
    <2>1. r = [w EXCEPT !.m_acw = acw, !.m_virtualAcw = u]
      BY <1>7 DEF SetWindow
    <2>2. Window(r) /\ r.m_acw = acw /\ r.m_virtualAcw = u
      <3> HIDE DEF r, acw
      <3> QED BY <1>3, <2>1 DEF Window
    <2> HIDE DEF r
    <2>3. Sound(r)
      BY <1>1, <1>3, <1>7, <2>2 DEF Sound
    <2> HIDE DEF acw
    <2> QED BY <1>3, <1>5, <2>2, <2>3 DEF r, Window
  <1> QED BY <1>6, <1>7

\* The whole of ProcessCongestion at the end of a round.
LEMMA RoundEnds ==
  ASSUME NEW w, Window(w), Sound(w), w.m_ackCount >= 1,
         NEW v \in AfterMarks(w), NEW u \in AfterStragglers(w, v)
  PROVE  LET r == ResetPeriod(SetWindow(ClearStragglers(w), u)) IN
         /\ Window(r) /\ Sound(r) /\ r.m_ecnCount = 0
         /\ w.m_ecnCount = 0 /\ ~BlamesOther(w) => r.m_acw >= w.m_acw
  <1> DEFINE c == ClearStragglers(w)
             s == SetWindow(c, u)
             r == ResetPeriod(s)
  <1>1. v \in Nat /\ v >= Scale /\ (w.m_ecnCount = 0 => v >= w.m_virtualAcw)
    BY AfterMarksBound
  <1>2. u \in Nat /\ 2 * u >= Scale /\ (~BlamesOther(w) => u = v)
    BY <1>1, AfterStragglersBound
  <1>3. Window(c)
    BY DEF Window, ClearStragglers
  <1> HIDE DEF c
  <1>4. /\ Window(s) /\ Sound(s)
        /\ w.m_virtualAcw <= u => s.m_acw >= w.m_acw
    BY <1>2, <1>3, SetWindowSound
  <1> HIDE DEF s
  <1>5. /\ Window(r) /\ r.m_ecnCount = 0
        /\ r.m_acw = s.m_acw /\ r.m_virtualAcw = s.m_virtualAcw
    <2> DEFINE none == 0
    <2>1. r = [s EXCEPT !.m_ecnCount = none, !.m_ackCount = none] /\ none \in Nat
      BY DEF ResetPeriod
    <2>2. none = 0
      OBVIOUS
    <2> HIDE DEF none, r
    <2>3. Window(r)
      BY <1>4, <2>1 DEF Window
    <2>4. r.m_ecnCount = none /\ r.m_acw = s.m_acw
      BY <1>4, <2>1 DEF Window
    <2>5. r.m_virtualAcw = s.m_virtualAcw
      BY <1>4, <2>1 DEF Window
    <2> QED BY <2>2, <2>3, <2>4, <2>5
  <1> HIDE DEF r
  <1>6. Sound(r)
    BY <1>4, <1>5 DEF Sound
  <1>7. w.m_ecnCount = 0 /\ ~BlamesOther(w) => r.m_acw >= w.m_acw
    BY <1>1, <1>2, <1>4, <1>5 DEF Window
  <1> QED BY <1>5, <1>6, <1>7 DEF r, s, c

-----------------------------------------------------------------------------
(* What the tags of packets say on their way to the server and back.       *)

Tags == {"ecn", "timestamp", "waiting", "last"}

\* A packet or an ACK, at time n: it was sent before, and the wait it reports
\* began no earlier.
Tagged(p, n) ==
  /\ Tags \subseteq DOMAIN p
  /\ p.ecn \in BOOLEAN /\ p.timestamp \in Nat /\ p.waiting \in Nat
  /\ p.timestamp < n
  /\ p.waiting <= n - p.timestamp

\* What an aggregation keeps, at time n: its first packet arrived no earlier
\* than the packet whose time stamp it took over was sent.
Times(r, n) ==
  /\ r.timestamp \in Nat /\ r.m_firstArrivalTime \in Nat
  /\ r.timestamp <= r.m_firstArrivalTime
  /\ r.m_firstArrivalTime <= n
  /\ r.timestamp < n \/ r.timestamp = 0

IsSlot(s) == s = [agg |-> s.agg, m_firstArrivalTime |-> s.m_firstArrivalTime,
                  timestamp |-> s.timestamp]

\* A packet that left its worker at ts and met no aggregation.
Fresh(p, ts) ==
  /\ Tags \subseteq DOMAIN p
  /\ p.ecn = FALSE
  /\ p.timestamp = ts
  /\ p.waiting = 0

\* Whatever FilterPacket of a leaf does with a packet of a worker, it sends
\* on the packet itself, if anything, with the tag fields above untouched.
LEMMA LeafOutput ==
  ASSUME NEW w, NEW ts, NEW resend \in BOOLEAN, NEW s
  PROVE  LET o == A!FilterPacket(s, Packet(w, ts, resend), FALSE) IN
         o.out = <<>> \/ \E q : o.out = <<q>> /\ Fresh(q, ts)
  <1> DEFINE p == Packet(w, ts, resend)
             o == A!FilterPacket(s, p, FALSE)
             Goal == o.out = <<>> \/ \E q : o.out = <<q>> /\ Fresh(q, ts)
  <1> SUFFICES Goal
    OBVIOUS
  <1>1. /\ p.isAck = FALSE /\ p.collision = FALSE /\ p.edge = 0
        /\ p.resend = resend
    BY DEF Packet
  <1>2. Fresh(p, ts)
    BY DEF Packet, Fresh, Tags
  <1>3. o = A!AggregatePacket(s, p)
    <2>1. ~p.isAck /\ ~p.collision /\ p.edge # 1
      BY <1>1
    <2> HIDE DEF p
    <2> QED BY <2>1, Zenon DEF A!FilterPacket
  <1> HIDE DEF p, o
  <1>4. ASSUME NEW t, NEW q, NEW event, o = A!Outcome(t, <<q>>, event), Fresh(q, ts)
        PROVE  Goal
    BY <1>4 DEF A!Outcome
  <1>5. ASSUME NEW t, NEW event, o = A!Outcome(t, <<>>, event)
        PROVE  Goal
    BY <1>5 DEF A!Outcome
  <1> HIDE DEF Goal
  <1>6. CASE resend /\ A!Matches(s, p)
    <2>1. o = A!ResendPacket(s, p)
      BY <1>1, <1>3, <1>6, Zenon DEF A!AggregatePacket
    <2>2. PICK q : /\ Fresh(q, ts)
                   /\ o = A!Outcome(A!Reset, <<q>>, "release")
      <3> DEFINE bits == s.m_bitmap \cup p.bitmap0
                 data == s.data \cup p.data
                 one == 1
                 q == [p EXCEPT !.edge = one, !.bitmap0 = bits, !.data = data]
      <3>1. o = A!Outcome(A!Reset, <<q>>, "release")
            \/ o = A!Outcome(A!Reset, <<p>>, "release")
        BY <2>1 DEF A!ResendPacket
      <3>2. Fresh(q, ts)
        <4> HIDE DEF bits, data, one
        <4> QED BY <1>2 DEF Fresh, Tags
      <3> HIDE DEF q
      <3> QED BY <1>2, <3>1, <3>2
    <2> QED BY <1>4, <2>2
  <1>7. CASE resend /\ ~A!Matches(s, p)
    <2>1. o = A!Outcome(s, <<p>>, "none")
      BY <1>1, <1>3, <1>7, Zenon DEF A!AggregatePacket
    <2> QED BY <1>2, <1>4, <2>1
  <1>8. ASSUME NEW t, NEW event, o = A!ProcessPacket(t, p, event)
        PROVE  Goal
    <2> DEFINE bits  == A!LevelBitmap(p)
               added == [t EXCEPT !.m_bitmap = @ \cup bits, !.m_count = @ + 1,
                                  !.data = @ \cup p.data]
               full  == added.m_bitmap
               data  == added.data
               one == 1
               q == [p EXCEPT !.bitmap0 = full, !.edge = one, !.data = data]
    <2>1. A!GetResultPacket(added, p) = q
      <3> HIDE DEF added
      <3> QED BY <1>1 DEF A!GetResultPacket
    <2>2. \/ o = A!Outcome(t, <<>>, event)
          \/ o = A!Outcome(added, <<>>, event)
          \/ o = A!Outcome(added, <<q>>, event)
      <3> HIDE DEF q
      <3> QED BY <1>8, <2>1 DEF A!ProcessPacket
    <2>3. Fresh(q, ts)
      <3> HIDE DEF full, data, one
      <3> QED BY <1>2 DEF Fresh, Tags
    <2> HIDE DEF q, added
    <2> QED BY <1>4, <1>5, <2>2, <2>3
  <1>9. CASE ~resend /\ A!IsEmpty(s)
    <2>1. o = A!ProcessPacket(A!Claim(s, p), p, "acquire")
      BY <1>1, <1>3, <1>9, Zenon DEF A!AggregatePacket
    <2> QED BY <1>8, <2>1
  <1>10. CASE ~resend /\ ~A!IsEmpty(s) /\ A!Matches(s, p)
    <2>1. o = A!ProcessPacket(s, p, "none")
      BY <1>1, <1>3, <1>10, Zenon DEF A!AggregatePacket
    <2> QED BY <1>8, <2>1
  <1>11. CASE ~resend /\ ~A!IsEmpty(s) /\ ~A!Matches(s, p)
    <2> DEFINE yes == TRUE
               q == [p EXCEPT !.resend = yes, !.collision = yes]
    <2>1. o = A!Outcome(s, <<q>>, "collision")
      BY <1>1, <1>3, <1>11, Zenon DEF A!AggregatePacket
    <2>2. Fresh(q, ts)
      <3> HIDE DEF yes
      <3> QED BY <1>2 DEF Fresh, Tags
    <2> HIDE DEF q
    <2> QED BY <1>4, <2>1, <2>2
  <1> QED BY <1>6, <1>7, <1>9, <1>10, <1>11

\* A device may mark a packet; the rest of its tag it leaves alone.
LEMMA SendTagged ==
  ASSUME NEW p, NEW n, NEW long \in BOOLEAN, Tagged(p, n)
  PROVE  Tagged(Send(p, long), n) /\ (p.ecn => Send(p, long).ecn)
  <1> DEFINE e == p.ecn \/ long
             r == Send(p, long)
  <1>1. r = [p EXCEPT !.ecn = e]
    BY DEF Send
  <1>2. e \in BOOLEAN /\ (p.ecn => e)
    OBVIOUS
  <1> HIDE DEF e, r
  <1>3. /\ DOMAIN r = DOMAIN p /\ r.timestamp = p.timestamp
        /\ r.waiting = p.waiting
    BY <1>1 DEF Tagged, Tags
  <1>4. r.ecn = e
    BY <1>1 DEF Tagged, Tags
  <1>5. Tagged(r, n)
    BY <1>2, <1>3, <1>4 DEF Tagged
  <1> QED BY <1>2, <1>4, <1>5 DEF r

-----------------------------------------------------------------------------
(* The inductive invariant.                                                *)

\* No trace of the packet is left in the network.
Idle ==
  /\ slot = [b \in Leaves |-> EmptySlot]
  /\ up = {}
  /\ aggregator = NoAggregator

SlotTimes ==
  /\ slot = [b \in Leaves |-> slot[b]]
  /\ \A b \in Leaves : IsSlot(slot[b]) /\ Times(slot[b], now)

AggregatorTimes == Times(aggregator, now) /\ aggregator.ecn \in BOOLEAN

MarkKept ==
  /\ marked \in BOOLEAN
  /\ marked => IF ack = NoAck THEN aggregator.ecn ELSE ack.ecn

WindowKept ==
  /\ Window(win)
  /\ Sound(win)
  /\ win.m_ecnCount > 0 => roundMarked

PathInv ==
  /\ now \in Nat
  /\ SlotTimes
  /\ \A p \in up : Tagged(p, now)
  /\ AggregatorTimes
  /\ ack # NoAck => Tagged(ack, now)
  /\ ack # NoAck \/ ~first => Idle
  /\ MarkKept

IInv == PathInv /\ WindowKept

\* Slots that are empty and an aggregation that is finished, as SendMultiAck
\* leaves them, fit any time.
LEMMA IdleTimes ==
  ASSUME NEW n \in Nat
  PROVE  /\ IsSlot(EmptySlot) /\ Times(EmptySlot, n)
         /\ Times(NoAggregator, n) /\ NoAggregator.ecn = FALSE
  BY DEF IsSlot, EmptySlot, Times, NoAggregator

\* The same for the state after a step that leaves the network empty.
LEMMA IdleKeepsTimes ==
  ASSUME Idle', now' \in Nat
  PROVE  SlotTimes' /\ (\A p \in up' : Tagged(p, now')) /\ AggregatorTimes'
  <1>1. SlotTimes'
    <2>1. slot' = [b \in Leaves' |-> EmptySlot]
      BY DEF Idle
    <2>2. \A b \in Leaves' : slot'[b] = EmptySlot
      BY <2>1
    <2> QED BY <2>1, <2>2, IdleTimes DEF SlotTimes
  <1>2. up' = {}
    BY DEF Idle
  <1>3. AggregatorTimes'
    BY IdleTimes DEF Idle, AggregatorTimes
  <1> QED BY <1>1, <1>2, <1>3

\* Before the first transmission nothing is on its way, and SetACW has been
\* called with a window of whole packets.
LEMMA InitInv == Init => IInv
  <1> SUFFICES ASSUME Init PROVE IInv
    OBVIOUS
  <1>1. now = 0 /\ Idle /\ ack = NoAck /\ first = TRUE /\ marked = FALSE
    BY DEF Init, Idle
  <1>2. SlotTimes
    <2>1. \A b \in Leaves : slot[b] = EmptySlot
      BY <1>1 DEF Idle
    <2> QED BY <1>1, <2>1, IdleTimes DEF SlotTimes, Idle
  <1>3. AggregatorTimes /\ \A p \in up : Tagged(p, now)
    BY <1>1, IdleTimes DEF AggregatorTimes, Idle
  <1>4. PathInv
    BY <1>1, <1>2, <1>3 DEF PathInv, MarkKept
  <1>5. PICK cwnd \in InitCwnds : win = NewWindow(cwnd)
    BY DEF Init
  <1>6. /\ cwnd \in Nat /\ 1 <= cwnd /\ cwnd <= MaxCwnd
        /\ Scale \in Nat \ {0}
    BY CongestionAssumption
  <1> DEFINE virtual == cwnd * Scale
  <1>7. virtual \in Nat /\ virtual >= Scale /\ virtual \div Scale = cwnd
    <2>1. 1 * Scale <= cwnd * Scale
      BY <1>6, ProductGrows
    <2> QED BY <1>6, <2>1, TruncationExact
  <1>8. cwnd = Max({1, cwnd})
    BY <1>6, MaxOfTwo
  <1>9. /\ win.m_acw = cwnd /\ win.m_virtualAcw = virtual
        /\ win.m_ecnCount = 0
    BY <1>5 DEF NewWindow
  <1>10. Window(win)
    BY <1>5, <1>6, <1>7 DEF NewWindow, Window
  <1>11. Sound(win)
    <2> HIDE DEF virtual
    <2> QED BY <1>6, <1>7, <1>8, <1>9 DEF Sound
  <1> QED BY <1>4, <1>9, <1>10, <1>11 DEF IInv, WindowKept

\* What a packet makes of the slot of its leaf: a new aggregation starts now, with the
\* time stamp of the packet; otherwise the one there goes on or ends.
LEMMA LeafReceiveInv ==
  ASSUME IInv, NEW w \in Workers, NEW ts \in 0..(now - 1),
         NEW resend \in BOOLEAN, NEW queueLong \in BOOLEAN,
         LeafReceive(w, ts, resend, queueLong)
  PROVE  PathInv'
  <1> DEFINE p == Packet(w, ts, resend)
             b == LeafOf(w)
             o == A!FilterPacket(slot[b].agg, p, FALSE)
             t == CASE o.event = "acquire" -> [agg |-> o.slot, timestamp |-> ts,
                                               m_firstArrivalTime |-> now]
                    [] o.event = "release" -> EmptySlot
                    [] OTHER               -> [slot[b] EXCEPT !.agg = o.slot]
  <1>1. /\ first /\ ack = NoAck
        /\ slot' = [slot EXCEPT ![b] = t]
        /\ \/ o.out = <<>> /\ UNCHANGED up
           \/ o.out # <<>> /\ up' = up \cup {Send(Result(t, o, p), queueLong)}
        /\ UNCHANGED <<tree, now, aggregator, ack, first, marked>>
    BY DEF LeafReceive
  <1>2. now \in Nat /\ ts \in Nat /\ ts < now
    BY DEF IInv, PathInv
  <1>3. b \in Leaves
    <2>1. PICK c \in Leaves : \E k : w = <<{k}, {c}>>
      BY DEF Workers
    <2>2. w[2] = {c}
      BY <2>1
    <2> QED BY <2>2 DEF LeafOf
  <1>4. o.out = <<>> \/ \E q : o.out = <<q>> /\ Fresh(q, ts)
    BY LeafOutput
  <1>5. IsSlot(slot[b]) /\ Times(slot[b], now)
    BY <1>3 DEF IInv, PathInv, SlotTimes
  <1> HIDE DEF o, p, b
  <1>6. IsSlot(t) /\ Times(t, now)
    <2>1. CASE o.event = "acquire"
      <3> DEFINE r == [agg |-> o.slot, timestamp |-> ts, m_firstArrivalTime |-> now]
      <3>1. t = r
        BY <2>1, Zenon
      <3>2. IsSlot(r) /\ Times(r, now)
        BY <1>2 DEF IsSlot, Times
      <3> HIDE DEF t, r
      <3> QED BY <3>1, <3>2
    <2>2. CASE o.event = "release"
      <3>1. o.event # "acquire"
        BY <2>2
      <3>2. t = EmptySlot
        BY <2>2, <3>1, Zenon
      <3> HIDE DEF t
      <3> QED BY <1>2, <3>2, IdleTimes
    <2>3. CASE o.event # "acquire" /\ o.event # "release"
      <3>1. t = [slot[b] EXCEPT !.agg = o.slot]
        BY <2>3, Zenon
      <3> HIDE DEF t
      <3>2. t.m_firstArrivalTime = slot[b].m_firstArrivalTime
            /\ t.timestamp = slot[b].timestamp /\ IsSlot(t)
        BY <1>5, <3>1 DEF IsSlot
      <3> QED BY <1>5, <3>2 DEF Times
    <2> QED BY <2>1, <2>2, <2>3
  <1> HIDE DEF t
  <1>7. SlotTimes'
    <2>1. Leaves' = Leaves /\ now' = now
      BY <1>1 DEF Leaves
    <2>2. slot = [c \in Leaves |-> slot[c]]
      BY DEF IInv, PathInv, SlotTimes
    <2>3. slot' = [c \in Leaves |-> IF c = b THEN t ELSE slot[c]]
      BY <1>1, <2>2
    <2>4. \A c \in Leaves : slot'[c] = IF c = b THEN t ELSE slot[c]
      BY <2>3
    <2>5. \A c \in Leaves : IsSlot(slot'[c]) /\ Times(slot'[c], now)
      BY <1>6, <2>4 DEF IInv, PathInv, SlotTimes
    <2>6. slot' = [c \in Leaves |-> slot'[c]]
      BY <2>3, <2>4
    <2> QED BY <2>1, <2>5, <2>6 DEF SlotTimes
  <1>8. \A q \in up' : Tagged(q, now')
    <2>1. \A q \in up : Tagged(q, now)
      BY DEF IInv, PathInv
    <2>2. CASE up' = up
      BY <1>1, <2>1, <2>2
    <2>3. CASE o.out # <<>> /\ up' = up \cup {Send(Result(t, o, p), queueLong)}
      <3>1. PICK q : o.out = <<q>> /\ Fresh(q, ts)
        BY <1>4, <2>3
      <3>2. Head(o.out) = q
        BY <3>1
      <3> DEFINE r == Result(t, o, p)
      <3>3. Tagged(r, now)
        <4>1. CASE Completed(o, p)
          <5> DEFINE wait == now - t.m_firstArrivalTime
                     last == <<p.bitmap0, q.last[2]>>
                     stamp == t.timestamp
          <5>1. r = [q EXCEPT !.timestamp = stamp, !.waiting = wait, !.last = last]
            BY <3>2, <4>1 DEF Result
          <5>2. /\ wait \in Nat /\ stamp \in Nat /\ stamp < now
                /\ wait <= now - stamp
            BY <1>2, <1>6 DEF Times
          <5> HIDE DEF r, wait, last, stamp
          <5>3. DOMAIN r = DOMAIN q /\ r.timestamp = stamp /\ r.waiting = wait
            BY <3>1, <5>1 DEF Fresh, Tags
          <5>4. r.ecn \in BOOLEAN
            BY <3>1, <5>1 DEF Fresh, Tags
          <5> QED BY <3>1, <5>2, <5>3, <5>4 DEF Tagged, Fresh
        <4>2. CASE ~Completed(o, p)
          <5>1. r = q
            BY <3>2, <4>2 DEF Result
          <5>2. q.ecn \in BOOLEAN
            BY <3>1 DEF Fresh
          <5>3. /\ Tags \subseteq DOMAIN q /\ q.timestamp \in Nat /\ q.waiting \in Nat
                /\ q.timestamp < now /\ q.waiting <= now - q.timestamp
            BY <1>2, <3>1 DEF Fresh
          <5> HIDE DEF r
          <5> QED BY <5>1, <5>2, <5>3 DEF Tagged
        <4> QED BY <4>1, <4>2
      <3> HIDE DEF r
      <3>4. Tagged(Send(r, queueLong), now)
        BY <3>3, SendTagged
      <3> QED BY <1>1, <2>1, <2>3, <3>4 DEF r
    <2> QED BY <1>1, <2>2, <2>3
  <1>9. AggregatorTimes' /\ MarkKept'
    BY <1>1 DEF IInv, PathInv, AggregatorTimes, MarkKept
  <1> QED BY <1>1, <1>2, <1>7, <1>8, <1>9 DEF PathInv

\* JobAggregator::ProcessPacket: the first packet that brings anything starts
\* the aggregation now, with its own time stamp, and no mark is lost.
LEMMA ProcessPacketTimes ==
  ASSUME NEW p, NEW flat, now \in Nat, Tagged(p, now), AggregatorTimes
  PROVE  LET agg == ProcessPacket(aggregator, p, flat) IN
         /\ Times(agg, now) /\ agg.ecn \in BOOLEAN
         /\ aggregator.ecn => agg.ecn
         /\ p.ecn /\ ~(flat \subseteq aggregator.flat) => agg.ecn
  <1> DEFINE agg == ProcessPacket(aggregator, p, flat)
  <1>1. CASE flat \subseteq aggregator.flat
    <2>1. agg = aggregator
      BY <1>1 DEF ProcessPacket
    <2> HIDE DEF agg
    <2>2. Times(agg, now) /\ agg.ecn \in BOOLEAN /\ (aggregator.ecn => agg.ecn)
      BY <2>1 DEF AggregatorTimes
    <2> QED BY <1>1, <2>2 DEF agg
  <1>2. CASE ~(flat \subseteq aggregator.flat)
    <2> DEFINE e == aggregator.ecn \/ p.ecn
               f == aggregator.flat \cup flat
               m == IF aggregator.flat = {} THEN now ELSE aggregator.m_firstArrivalTime
               s == IF aggregator.flat = {} THEN p.timestamp ELSE aggregator.timestamp
    <2>1. agg = [flat |-> f, ecn |-> e, m_firstArrivalTime |-> m, timestamp |-> s]
      BY <1>2 DEF ProcessPacket
    <2>2. e \in BOOLEAN /\ (aggregator.ecn => e) /\ (p.ecn => e)
      OBVIOUS
    <2>3. m \in Nat /\ s \in Nat /\ s <= m /\ m <= now /\ (s < now \/ s = 0)
      BY DEF AggregatorTimes, Times, Tagged
    <2> HIDE DEF agg, e, f, m, s
    <2>4. agg.m_firstArrivalTime = m /\ agg.timestamp = s
      BY <2>1
    <2>5. agg.ecn = e
      BY <2>1
    <2>6. Times(agg, now)
      BY <2>3, <2>4 DEF Times
    <2>7. agg.ecn \in BOOLEAN /\ (aggregator.ecn => agg.ecn) /\ (p.ecn => agg.ecn)
      BY <2>2, <2>5
    <2> QED BY <2>6, <2>7 DEF agg
  <1> QED BY <1>1, <1>2

\* The ACK of a complete aggregation takes the tag of a packet over, and
\* leaves nothing behind in the network.
LEMMA MultiAckInv ==
  ASSUME NEW p, NEW queueLong \in BOOLEAN, now \in Nat, Tagged(p, now),
         SendMultiAck(p, queueLong), UNCHANGED <<tree, now>>,
         marked' \in BOOLEAN, marked' => p.ecn
  PROVE  PathInv'
  <1> DEFINE e == p.ecn
             a == [ecn |-> e, last |-> p.last, timestamp |-> p.timestamp,
                   waiting |-> p.waiting]
  <1>1. ack' = Send(a, queueLong)
    BY DEF SendMultiAck
  <1>2. Tagged(a, now) /\ a.ecn = e
    <2>1. e \in BOOLEAN
      BY DEF Tagged
    <2> HIDE DEF e
    <2>2. a.ecn = e
      OBVIOUS
    <2>3. a.timestamp = p.timestamp /\ a.waiting = p.waiting /\ Tags \subseteq DOMAIN a
      BY DEF Tags
    <2> HIDE DEF a
    <2>4. a.ecn \in BOOLEAN
      BY <2>1, <2>2
    <2> QED BY <2>2, <2>3, <2>4 DEF Tagged
  <1> HIDE DEF a
  <1>3. Tagged(ack', now) /\ (a.ecn => ack'.ecn)
    BY <1>1, <1>2, SendTagged
  <1>4. Idle'
    BY DEF SendMultiAck, Idle, Leaves
  <1>5. SlotTimes' /\ (\A q \in up' : Tagged(q, now')) /\ AggregatorTimes'
    BY <1>4, IdleKeepsTimes
  <1>6. ack' # NoAck
    <2>1. ack'.timestamp # Unset
      BY <1>3 DEF Tagged, Unset
    <2> QED BY <2>1 DEF NoAck
  <1>7. MarkKept'
    <2>1. marked' => ack'.ecn
      BY <1>2, <1>3
    <2> QED BY <1>6, <2>1 DEF MarkKept
  <1> QED BY <1>3, <1>4, <1>5, <1>7 DEF PathInv

\* Whichever way AggregatePacket ends, the times and the mark of the packet
\* reach the ACK or stay in the JobAggregator.
LEMMA ServerReceiveInv ==
  ASSUME IInv, NEW p \in up, NEW queueLong \in BOOLEAN, ServerReceive(p, queueLong)
  PROVE  PathInv'
  <1> DEFINE flat == ConvertToFlatBitmap(tree, p.bitmap0, p.bitmap1)
             agg  == ProcessPacket(aggregator, p, flat)
             wait == now - agg.m_firstArrivalTime
             last == IF p.last = NoBitmaps THEN <<p.bitmap0, p.bitmap1>> ELSE p.last
             stamp == agg.timestamp
             e    == agg.ecn
             done == [p EXCEPT !.timestamp = stamp, !.ecn = e, !.waiting = wait,
                               !.last = last]
             saw  == marked \/ (p.ecn /\ ~(flat \subseteq aggregator.flat))
  <1>1. ack = NoAck /\ UNCHANGED <<tree, now, first>>
    BY DEF ServerReceive
  <1>2. now \in Nat /\ Tagged(p, now) /\ AggregatorTimes /\ SlotTimes /\ MarkKept
        /\ \A q \in up : Tagged(q, now)
    BY DEF IInv, PathInv
  <1>3. \/ SendMultiAck(p, queueLong) /\ marked' = p.ecn
        \/ SendMultiAck(done, queueLong) /\ marked' = saw
        \/ /\ marked' = saw
           /\ up' = up \ {p} /\ aggregator' = agg /\ UNCHANGED <<slot, ack>>
    BY DEF ServerReceive
  <1>4. /\ Times(agg, now) /\ e \in BOOLEAN
        /\ aggregator.ecn => e
        /\ p.ecn /\ ~(flat \subseteq aggregator.flat) => e
    BY <1>2, ProcessPacketTimes
  <1>5. saw \in BOOLEAN /\ (saw => e)
    <2>1. marked => aggregator.ecn
      BY <1>1, <1>2 DEF MarkKept
    <2> QED BY <1>4, <2>1
  <1> HIDE DEF agg, saw
  <1>6. CASE SendMultiAck(p, queueLong) /\ marked' = p.ecn
    <2>1. marked' \in BOOLEAN /\ (marked' => p.ecn)
      BY <1>2, <1>6 DEF Tagged
    <2> QED BY <1>1, <1>2, <1>6, <2>1, MultiAckInv
  <1>7. CASE SendMultiAck(done, queueLong) /\ marked' = saw
    <2>1. /\ wait \in Nat /\ stamp \in Nat /\ stamp < now /\ wait <= now - stamp
      BY <1>2, <1>4 DEF Times, Tagged
    <2>2. done = [p EXCEPT !.timestamp = stamp, !.ecn = e, !.waiting = wait,
                           !.last = last]
      OBVIOUS
    <2> HIDE DEF wait, stamp, last, e, done
    <2>3. DOMAIN done = DOMAIN p /\ done.timestamp = stamp /\ done.waiting = wait
      BY <1>2, <2>2 DEF Tagged, Tags
    <2>4. done.ecn = e
      BY <1>2, <2>2 DEF Tagged, Tags
    <2>5. done.ecn \in BOOLEAN
      BY <1>4, <2>4
    <2>6. Tagged(done, now)
      BY <1>2, <2>1, <2>3, <2>5 DEF Tagged
    <2>7. marked' \in BOOLEAN /\ (marked' => done.ecn)
      BY <1>5, <1>7, <2>4
    <2> QED BY <1>1, <1>2, <1>7, <2>6, <2>7, MultiAckInv
  <1>8. CASE /\ marked' = saw
             /\ up' = up \ {p} /\ aggregator' = agg /\ UNCHANGED <<slot, ack>>
    <2>1. first
      BY DEF IInv, PathInv, Idle
    <2>2. AggregatorTimes'
      BY <1>1, <1>4, <1>8 DEF AggregatorTimes
    <2>3. SlotTimes'
      BY <1>1, <1>2, <1>8 DEF SlotTimes, Leaves
    <2>4. MarkKept'
      BY <1>1, <1>5, <1>8 DEF MarkKept
    <2> QED BY <1>1, <1>2, <1>8, <2>1, <2>2, <2>3, <2>4 DEF PathInv
  <1> QED BY <1>3, <1>6, <1>7, <1>8

\* The counters after an ACK: the window is as before, and a mark is counted
\* just when the ACK has one.
LEMMA CountedInv ==
  ASSUME IInv, ack # NoAck
  PROVE  /\ Window(Counted) /\ Sound(Counted)
         /\ Counted.m_ackCount >= 1
         /\ Counted.m_acw = win.m_acw
         /\ Counted.m_ecnCount > 0 => roundMarked \/ ack.ecn
  <1> DEFINE rtt == now - ack.timestamp
             c == Counted
  <1>1. Tagged(ack, now) /\ now \in Nat
    BY DEF IInv, PathInv
  <1>2. /\ rtt \in Nat \ {0} /\ ack.waiting \in Nat /\ ack.waiting <= rtt
        /\ ack.ecn \in BOOLEAN
    BY <1>1 DEF Tagged
  <1>3. /\ Window(win) /\ Sound(win)
        /\ win.m_ecnCount > 0 => roundMarked
    BY DEF IInv, WindowKept
  <1>4. c = UpdateStraggler(CountCongestion(win, ack), ack, rtt)
    BY DEF Counted
  <1> HIDE DEF rtt, c
  <1>5. /\ Window(c)
        /\ c.m_acw = win.m_acw /\ c.m_virtualAcw = win.m_virtualAcw
        /\ c.m_ackCount = win.m_ackCount + 1
        /\ c.m_ecnCount = IF ack.ecn THEN win.m_ecnCount + 1 ELSE win.m_ecnCount
    BY <1>2, <1>3, <1>4, CountedWindow
  <1>6. Sound(c)
    BY <1>3, <1>5 DEF Sound
  <1>7. c.m_ackCount >= 1
    BY <1>3, <1>5 DEF Window
  <1>8. c.m_ecnCount > 0 => roundMarked \/ ack.ecn
    BY <1>3, <1>5
  <1> QED BY <1>5, <1>6, <1>7, <1>8 DEF c

\* ReceiveAck: the window after it is sound, and smaller only for a reason.
LEMMA ReceiveAckInv ==
  ASSUME IInv, ReceiveAck
  PROVE  /\ IInv'
         /\ win'.m_acw < win.m_acw => roundMarked \/ ack.ecn \/ BlamesOther(Counted)
  <1>1. /\ ack # NoAck /\ ack' = NoAck /\ now' = 0 /\ marked' = FALSE
        /\ UNCHANGED <<tree, slot, up, aggregator>>
    BY DEF ReceiveAck
  <1>2. Idle'
    BY <1>1 DEF IInv, PathInv, Idle, Leaves
  <1>3. SlotTimes' /\ (\A q \in up' : Tagged(q, now')) /\ AggregatorTimes'
    BY <1>1, <1>2, IdleKeepsTimes
  <1>4. PathInv'
    BY <1>1, <1>2, <1>3 DEF PathInv, MarkKept
  <1>5. \/ win' = Counted /\ roundMarked' = (roundMarked \/ ack.ecn)
        \/ \E v \in AfterMarks(Counted) : \E u \in AfterStragglers(Counted, v) :
             win' = ResetPeriod(SetWindow(ClearStragglers(Counted), u))
        \/ UNCHANGED <<win, roundMarked>>
    BY DEF ReceiveAck
  <1>6. /\ Window(Counted) /\ Sound(Counted)
        /\ Counted.m_ackCount >= 1
        /\ Counted.m_acw = win.m_acw
        /\ Counted.m_ecnCount > 0 => roundMarked \/ ack.ecn
    BY <1>1, CountedInv
  <1>7. win.m_acw \in Nat /\ Counted.m_ecnCount \in Nat
    BY <1>6 DEF Window
  <1>8. CASE win' = Counted /\ roundMarked' = (roundMarked \/ ack.ecn)
    <2>1. WindowKept'
      BY <1>6, <1>8 DEF WindowKept, Window, Sound
    <2>2. ~(win'.m_acw < win.m_acw)
      BY <1>6, <1>7, <1>8
    <2> QED BY <1>4, <2>1, <2>2 DEF IInv
  <1>9. ASSUME NEW v \in AfterMarks(Counted), NEW u \in AfterStragglers(Counted, v),
               win' = ResetPeriod(SetWindow(ClearStragglers(Counted), u))
        PROVE  /\ WindowKept'
               /\ win'.m_acw < win.m_acw => roundMarked \/ ack.ecn \/ BlamesOther(Counted)
    <2>1. /\ Window(win') /\ Sound(win') /\ win'.m_ecnCount = 0
          /\ Counted.m_ecnCount = 0 /\ ~BlamesOther(Counted)
             => win'.m_acw >= Counted.m_acw
      BY <1>6, <1>9, RoundEnds
    <2>2. WindowKept'
      BY <2>1 DEF WindowKept, Window, Sound
    <2>3. win'.m_acw \in Nat
      BY <2>1 DEF Window
    <2> QED BY <1>6, <1>7, <2>1, <2>2, <2>3
  <1>10. CASE UNCHANGED <<win, roundMarked>>
    <2>1. WindowKept'
      BY <1>10 DEF IInv, WindowKept, Window, Sound
    <2> QED BY <1>4, <1>7, <1>10, <2>1 DEF IInv
  <1> QED BY <1>4, <1>5, <1>8, <1>9, <1>10 DEF IInv

\* The ACK of a later packet arrives at an empty network.
LEMMA LaterAckInv ==
  ASSUME IInv, NEW rtt \in 1..MaxTime, NEW waiting \in 0..rtt,
         NEW ecn \in BOOLEAN, NEW last, LaterAck(ecn, last, rtt, waiting)
  PROVE  PathInv'
  <1> DEFINE a == [ecn |-> ecn, last |-> last, timestamp |-> 0, waiting |-> waiting]
  <1>1. /\ ~first /\ ack = NoAck /\ now' = rtt /\ ack' = a
        /\ UNCHANGED <<tree, slot, up, aggregator, first, marked>>
    BY DEF LaterAck
  <1>2. rtt \in Nat /\ rtt >= 1 /\ waiting \in Nat /\ waiting <= rtt
    BY CongestionAssumption
  <1>3. Tagged(a, rtt)
    <2>1. a.timestamp = 0 /\ a.waiting = waiting /\ Tags \subseteq DOMAIN a
      BY DEF Tags
    <2>2. a.ecn \in BOOLEAN
      OBVIOUS
    <2> HIDE DEF a
    <2> QED BY <1>2, <2>1, <2>2 DEF Tagged
  <1> HIDE DEF a
  <1>4. Idle /\ MarkKept
    BY <1>1 DEF IInv, PathInv
  <1>5. Idle'
    BY <1>1, <1>4 DEF Idle, Leaves
  <1>6. SlotTimes' /\ (\A q \in up' : Tagged(q, now')) /\ AggregatorTimes'
    BY <1>1, <1>2, <1>5, IdleKeepsTimes
  <1>7. ~marked
    <2>1. ~aggregator.ecn
      BY <1>4 DEF Idle, NoAggregator
    <2> QED BY <1>1, <1>4, <2>1 DEF MarkKept
  <1>8. MarkKept'
    BY <1>1, <1>4, <1>7 DEF MarkKept
  <1> QED BY <1>1, <1>2, <1>3, <1>5, <1>6, <1>8 DEF PathInv

\* Time only widens the round trip that a wait is set against.
LEMMA TickInv ==
  ASSUME IInv, Tick
  PROVE  PathInv'
  <1>1. /\ now' = now + 1
        /\ UNCHANGED <<tree, slot, up, aggregator, ack, first, marked>>
    BY DEF Tick
  <1>2. now \in Nat /\ SlotTimes /\ AggregatorTimes /\ MarkKept
    BY DEF IInv, PathInv
  <1>3. \A r : Times(r, now) => Times(r, now + 1)
    BY <1>2 DEF Times
  <1>4. \A r : Tagged(r, now) => Tagged(r, now + 1)
    <2> SUFFICES ASSUME NEW r, Tagged(r, now) PROVE Tagged(r, now + 1)
      OBVIOUS
    <2> DEFINE n == now + 1
    <2>1. r.ecn \in BOOLEAN
      BY DEF Tagged
    <2>2. /\ Tags \subseteq DOMAIN r /\ r.timestamp \in Nat /\ r.waiting \in Nat
          /\ r.timestamp < n /\ r.waiting <= n - r.timestamp
      BY <1>2 DEF Tagged
    <2> HIDE DEF n
    <2>3. Tagged(r, n)
      BY <2>1, <2>2 DEF Tagged
    <2> QED BY <2>3 DEF n
  <1>5. SlotTimes' /\ AggregatorTimes'
    BY <1>1, <1>2, <1>3 DEF SlotTimes, AggregatorTimes, Leaves
  <1>6. Idle => Idle'
    BY <1>1 DEF Idle, Leaves
  <1>7. MarkKept'
    BY <1>1, <1>2 DEF MarkKept
  <1>8. (\A p \in up : Tagged(p, now)) /\ (ack # NoAck => Tagged(ack, now))
        /\ (ack # NoAck \/ ~first => Idle)
    BY DEF IInv, PathInv
  <1> QED BY <1>1, <1>2, <1>4, <1>5, <1>6, <1>7, <1>8 DEF PathInv

\* Every step keeps the invariant, and makes the window smaller only for a
\* reason.
LEMMA NextInv ==
  ASSUME IInv, [Next]_vars
  PROVE  /\ IInv'
         /\ win'.m_acw < win.m_acw => roundMarked \/ ack.ecn \/ BlamesOther(Counted)
  <1>1. ASSUME UNCHANGED <<win, roundMarked>>
        PROVE  /\ WindowKept'
               /\ ~(win'.m_acw < win.m_acw)
    BY <1>1 DEF IInv, WindowKept, Window, Sound
  <1>2. ASSUME UNCHANGED <<tree, path>>
        PROVE  PathInv'
    BY <1>2 DEF IInv, PathInv, path, SlotTimes, AggregatorTimes, MarkKept, Idle, Leaves
  <1>3. ASSUME NEW w \in Workers, NEW ts \in 0..(now - 1), NEW resend \in BOOLEAN,
               NEW queueLong \in BOOLEAN, LeafReceive(w, ts, resend, queueLong)
        PROVE  PathInv' /\ UNCHANGED <<win, roundMarked>>
    BY <1>3, LeafReceiveInv DEF LeafReceive
  <1>4. ASSUME NEW p \in up, NEW queueLong \in BOOLEAN, ServerReceive(p, queueLong)
        PROVE  PathInv' /\ UNCHANGED <<win, roundMarked>>
    BY <1>4, ServerReceiveInv DEF ServerReceive
  <1>5. ASSUME NEW rtt \in 1..MaxTime, NEW waiting \in 0..rtt, NEW ecn \in BOOLEAN,
               NEW last \in Positions, LaterAck(ecn, last, rtt, waiting)
        PROVE  PathInv' /\ UNCHANGED <<win, roundMarked>>
    BY <1>5, LaterAckInv DEF LaterAck
  <1>6. CASE ReceiveAck
    BY <1>6, ReceiveAckInv
  <1>7. CASE SendWindowData
    BY <1>1, <1>2, <1>7 DEF SendWindowData, IInv
  <1>8. CASE Tick
    <2>1. UNCHANGED <<win, roundMarked>>
      BY <1>8 DEF Tick
    <2> QED BY <1>1, <1>8, <2>1, TickInv DEF IInv
  <1>9. CASE UNCHANGED vars
    BY <1>1, <1>2, <1>9 DEF vars, IInv
  <1>10. CASE \E w \in Workers, ts \in 0..(now - 1), resend, queueLong \in BOOLEAN :
                LeafReceive(w, ts, resend, queueLong)
    BY <1>1, <1>3, <1>10 DEF IInv
  <1>11. CASE \E p \in up, queueLong \in BOOLEAN : ServerReceive(p, queueLong)
    BY <1>1, <1>4, <1>11 DEF IInv
  <1>12. CASE \E rtt \in 1..MaxTime :
                \E waiting \in 0..rtt, ecn \in BOOLEAN, last \in Positions :
                  LaterAck(ecn, last, rtt, waiting)
    BY <1>1, <1>5, <1>12 DEF IInv
  <1> QED BY <1>6, <1>7, <1>8, <1>9, <1>10, <1>11, <1>12 DEF Next

\* The inductive invariant holds throughout.
LEMMA Invariance == Spec => []IInv
  BY InitInv, NextInv, PTL DEF Spec
-----------------------------------------------------------------------------
\* The wait UpdateStraggler is given never exceeds the round trip, so that
\* gamma is never more than one, for every tree, order of arrivals, delay and
\* retransmission.
THEOREM WaitsWithinRtt == Spec => []WaitWithinRtt
  <1>1. IInv => WaitWithinRtt
    BY DEF IInv, PathInv, WindowKept, Window, Tagged, WaitWithinRtt
  <1> QED BY <1>1, Invariance, PTL

\* ProcessCongestion keeps m_virtualAcw at half a packet or more and the
\* window in step with it, between one packet and m_maxCwnd.
THEOREM WindowStaysSound == Spec => []VirtualWindowSound
  <1>1. IInv => VirtualWindowSound
    BY DEF IInv, WindowKept, Sound, VirtualWindowSound
  <1> QED BY <1>1, Invariance, PTL

\* A mark on any packet that JobAggregator::ProcessPacket took in is on the
\* multicast ACK.
THEOREM EveryMarkEchoed == Spec => []MarksEchoed
  <1>1. IInv => MarksEchoed
    BY DEF IInv, PathInv, MarkKept, MarksEchoed
  <1> QED BY <1>1, Invariance, PTL

\* ProcessCongestion shrinks the window only after a marked ACK of the round,
\* or when UpdateStraggler's counters blame another worker.
THEOREM ShrinkHasAReason == Spec => ShrinksForAReason
  <1>1. IInv /\ [Next]_vars =>
          [win'.m_acw < win.m_acw =>
             roundMarked \/ ack.ecn \/ BlamesOther(Counted)]_vars
    BY NextInv
  <1> QED BY <1>1, Invariance, PTL DEF Spec, ShrinksForAReason
-----------------------------------------------------------------------------
(* The stragglers.                                                         *)

\* B has the operators of the library under names of its own.
LEMMA SameFinite ==
  ASSUME NEW S
  PROVE  B!IsFiniteSet(S) <=> IsFiniteSet(S)
  BY Zenon DEF B!IsFiniteSet, IsFiniteSet

\* The stragglers of a buffer: the counter is the total of the map, the
\* maximum is the largest number in it, and the position blamed has it.
Stragglers(w) ==
  LET map == w.m_stragglers IN
  /\ IsFiniteSet(DOMAIN map)
  /\ map \in [DOMAIN map -> Nat]
  /\ w.m_stragglerCount \in Nat
  /\ w.m_stragglerCount = B!Total(map, DOMAIN map)
  /\ w.m_stragglerCountMax \in Nat
  /\ \A pos \in DOMAIN map : map[pos] <= w.m_stragglerCountMax
  /\ map = <<>> => w.m_stragglerCountMax = 0
  /\ map # <<>> => /\ w.m_stragglerBitmap \in DOMAIN map
                   /\ map[w.m_stragglerBitmap] = w.m_stragglerCountMax

\* A buffer without stragglers, as the constructor and ClearStragglers leave it.
LEMMA NoStragglers ==
  ASSUME NEW w, w.m_stragglers = <<>>, w.m_stragglerCount = 0,
         w.m_stragglerCountMax = 0
  PROVE  Stragglers(w)
  <1> DEFINE none == <<>>
  <1>1. DOMAIN none = {} /\ none \in [DOMAIN none -> Nat]
    OBVIOUS
  <1>2. w.m_stragglers = none /\ none = <<>>
    OBVIOUS
  <1> HIDE DEF none
  <1>3. IsFiniteSet(DOMAIN none) /\ B!Total(none, DOMAIN none) = 0
    BY <1>1, FS_EmptySet, B!TotalEmpty
  <1> QED BY <1>1, <1>2, <1>3 DEF Stragglers

\* What assigning n to map[x] makes of a std::map.
Assign(map, x, n) ==
  [y \in DOMAIN map \cup {x} |-> IF y = x THEN n ELSE map[y]]

\* UpdateStraggler keeps the stragglers consistent.
LEMMA UpdatedStragglers ==
  ASSUME NEW w, NEW c, NEW last, Stragglers(w), 
         LET map == w.m_stragglers
             n   == IF last \in DOMAIN map THEN map[last] + 1 ELSE 1
         IN  /\ c.m_stragglers = Assign(map, last, n)
             /\ c.m_stragglerCount = w.m_stragglerCount + 1
             /\ c.m_stragglerCountMax = Max({w.m_stragglerCountMax, n})
             /\ c.m_stragglerBitmap = IF n > w.m_stragglerCountMax THEN last
                                      ELSE w.m_stragglerBitmap
  PROVE  Stragglers(c)
  <1> DEFINE map == w.m_stragglers
             n   == IF last \in DOMAIN map THEN map[last] + 1 ELSE 1
             new == Assign(map, last, n)
             max == w.m_stragglerCountMax
             pos == w.m_stragglerBitmap
  <1>1. /\ IsFiniteSet(DOMAIN map) /\ map \in [DOMAIN map -> Nat]
        /\ w.m_stragglerCount \in Nat
        /\ w.m_stragglerCount = B!Total(map, DOMAIN map)
        /\ max \in Nat
        /\ \A p \in DOMAIN map : map[p] <= max
        /\ map = <<>> => max = 0
        /\ map # <<>> => pos \in DOMAIN map /\ map[pos] = max
    BY DEF Stragglers
  <1>2. /\ c.m_stragglers = new
        /\ c.m_stragglerCount = w.m_stragglerCount + 1
        /\ c.m_stragglerCountMax = Max({max, n})
        /\ c.m_stragglerBitmap = IF n > max THEN last ELSE pos
    OBVIOUS
  <1> HIDE DEF map, max, pos
  <1>3. n \in Nat /\ n >= 1
    BY <1>1
  <1>4. /\ last \in DOMAIN map => n = map[last] + 1
        /\ last \notin DOMAIN map => n = 1
    OBVIOUS
  <1> HIDE DEF n
  <1>5. /\ DOMAIN new = DOMAIN map \cup {last}
        /\ new \in [DOMAIN map \cup {last} -> Nat]
        /\ new[last] = n
        /\ \A y \in DOMAIN map \ {last} : new[y] = map[y]
        /\ new # <<>>
    <2>1. new = [y \in DOMAIN map \cup {last} |-> IF y = last THEN n ELSE map[y]]
      BY DEF Assign
    <2> HIDE DEF new
    <2>2. /\ DOMAIN new = DOMAIN map \cup {last}
          /\ new \in [DOMAIN map \cup {last} -> Nat]
          /\ new[last] = n
          /\ \A y \in DOMAIN map \ {last} : new[y] = map[y]
      BY <1>1, <1>3, <2>1
    <2>3. last \in DOMAIN new
      BY <2>2
    <2>4. new # <<>>
      BY <2>3
    <2> QED BY <2>2, <2>4
  <1> HIDE DEF new
  <1>6. B!Total(new, DOMAIN new) = B!Total(map, DOMAIN map) + 1
    <2> DEFINE S   == DOMAIN map
               sum == B!Total(map, S)
    <2>1. B!Total(new, S \cup {last}) = IF last \in S THEN sum - map[last] + new[last]
                                      ELSE sum + new[last]
      <3>1. /\ B!IsFiniteSet(S) /\ map \in [S -> Nat]
            /\ new \in [S \cup {last} -> Nat]
            /\ \A y \in S \ {last} : new[y] = map[y]
        BY <1>1, <1>5, SameFinite
      <3> HIDE DEF S
      <3> QED BY ONLY <3>1, B!TotalChanges
    <2>2. sum \in Nat
      BY <1>1
    <2> HIDE DEF sum
    <2>3. B!Total(new, S \cup {last}) = sum + 1
      BY <1>1, <1>4, <1>5, <2>1, <2>2
    <2> QED BY <1>5, <2>3 DEF sum
  <1> DEFINE most == Max({max, n})
  <1>7. most = IF max >= n THEN max ELSE n
    BY <1>1, <1>3, MaxOfTwo
  <1> HIDE DEF most
  <1>8. c.m_stragglerCountMax = most
    BY <1>2 DEF most
  <1>9. IsFiniteSet(DOMAIN new)
    BY <1>1, <1>5, FS_AddElement
  <1>10. most \in Nat /\ \A p \in DOMAIN new : new[p] <= most
    BY <1>1, <1>3, <1>5, <1>7
  <1>11. /\ c.m_stragglerBitmap \in DOMAIN new
         /\ new[c.m_stragglerBitmap] = most
    <2>1. CASE n > max
      BY <1>1, <1>2, <1>3, <1>5, <1>7, <2>1
    <2>2. CASE ~(n > max)
      <3>1. c.m_stragglerBitmap = pos /\ most = max
        BY <1>1, <1>2, <1>3, <1>7, <2>2
      <3>2. map # <<>>
        BY <1>1, <1>3, <2>2
      <3>3. pos \in DOMAIN map /\ map[pos] = max
        BY <1>1, <3>2
      <3>4. pos # last
        BY <1>1, <1>4, <2>2, <3>3
      <3> QED BY <1>5, <3>1, <3>3, <3>4
    <2> QED BY <2>1, <2>2
  <1>12. /\ c.m_stragglerCount \in Nat
         /\ c.m_stragglerCount = B!Total(new, DOMAIN new)
    BY <1>1, <1>2, <1>6
  <1>13. new \in [DOMAIN new -> Nat] /\ c.m_stragglers = new
    BY <1>2, <1>5
  <1> QED BY <1>5, <1>8, <1>9, <1>10, <1>11, <1>12, <1>13 DEF Stragglers

\* What else the window consists of does not matter to them.
LEMMA SameStragglers ==
  ASSUME NEW w, NEW c, Stragglers(w),
         c.m_stragglers = w.m_stragglers,
         c.m_stragglerCount = w.m_stragglerCount,
         c.m_stragglerCountMax = w.m_stragglerCountMax,
         c.m_stragglerBitmap = w.m_stragglerBitmap
  PROVE  Stragglers(c)
  BY DEF Stragglers

\* An ACK is counted, with its wait.
LEMMA CountedStragglers ==
  ASSUME NEW w, NEW a, NEW rtt, Window(w), Stragglers(w)
  PROVE  Stragglers(UpdateStraggler(CountCongestion(w, a), a, rtt))
  <1> DEFINE acks == w.m_ackCount + 1
             ecns == w.m_ecnCount + (IF a.ecn THEN 1 ELSE 0)
             d == CountCongestion(w, a)
             c == UpdateStraggler(d, a, rtt)
             g == Max({d.gamma, (2 * a.waiting + rtt - 1) \div rtt})
             n == IF a.last \in DOMAIN d.m_stragglers
                  THEN d.m_stragglers[a.last] + 1 ELSE 1
             map == Assign(d.m_stragglers, a.last, n)
             count == d.m_stragglerCount + 1
             most == Max({d.m_stragglerCountMax, n})
             pos == IF n > d.m_stragglerCountMax THEN a.last
                    ELSE d.m_stragglerBitmap
  <1>1. d = [w EXCEPT !.m_ackCount = acks, !.m_ecnCount = ecns]
    BY DEF CountCongestion
  <1>2. \/ c = [d EXCEPT !.gamma = g]
        \/ c = [d EXCEPT !.gamma = g, !.m_stragglers = map,
                         !.m_stragglerCount = count,
                         !.m_stragglerCountMax = most, !.m_stragglerBitmap = pos]
    <2> HIDE DEF d
    <2> QED BY Zenon DEF UpdateStraggler, Assign
  <1> SUFFICES Stragglers(c)
    OBVIOUS
  <1> HIDE DEF acks, ecns, c, g, d
  <1>3. /\ d.m_stragglers = w.m_stragglers
        /\ d.m_stragglerCount = w.m_stragglerCount
        /\ d.m_stragglerCountMax = w.m_stragglerCountMax
        /\ d.m_stragglerBitmap = w.m_stragglerBitmap
    BY <1>1 DEF Window
  <1>4. Stragglers(d)
    BY <1>3, SameStragglers
  <1>5. d = [m_acw |-> d.m_acw, m_virtualAcw |-> d.m_virtualAcw,
             gamma |-> d.gamma, m_ecnCount |-> d.m_ecnCount,
             m_ackCount |-> d.m_ackCount, m_stragglers |-> d.m_stragglers,
             m_stragglerCount |-> d.m_stragglerCount,
             m_stragglerCountMax |-> d.m_stragglerCountMax,
             m_stragglerBitmap |-> d.m_stragglerBitmap]
    BY <1>1 DEF Window
  <1>6. CASE c = [d EXCEPT !.gamma = g]
    <2>1. /\ c.m_stragglers = d.m_stragglers
          /\ c.m_stragglerCount = d.m_stragglerCount
          /\ c.m_stragglerCountMax = d.m_stragglerCountMax
          /\ c.m_stragglerBitmap = d.m_stragglerBitmap
      BY <1>5, <1>6
    <2> QED BY <1>4, <2>1, SameStragglers
  <1>7. CASE c = [d EXCEPT !.gamma = g, !.m_stragglers = map,
                           !.m_stragglerCount = count,
                           !.m_stragglerCountMax = most, !.m_stragglerBitmap = pos]
    <2> HIDE DEF map, count, most, pos
    <2>1. /\ c.m_stragglers = map /\ c.m_stragglerCount = count
          /\ c.m_stragglerCountMax = most /\ c.m_stragglerBitmap = pos
      BY <1>5, <1>7
    <2> QED BY <1>4, <2>1, UpdatedStragglers DEF map, count, most, pos
  <1> QED BY <1>2, <1>6, <1>7

\* The end of a round clears all of the stragglers or none.
LEMMA RoundEndStragglers ==
  ASSUME NEW w, NEW u, Window(w), Stragglers(w)
  PROVE  Stragglers(ResetPeriod(SetWindow(ClearStragglers(w), u)))
  <1> DEFINE c == ClearStragglers(w)
             s == SetWindow(c, u)
             r == ResetPeriod(s)
             acw == Max({1, u \div Scale})
             virtual == MaxCwnd * Scale
             Fields(x) == x = [m_acw |-> x.m_acw, m_virtualAcw |-> x.m_virtualAcw,
                               gamma |-> x.gamma, m_ecnCount |-> x.m_ecnCount,
                               m_ackCount |-> x.m_ackCount,
                               m_stragglers |-> x.m_stragglers,
                               m_stragglerCount |-> x.m_stragglerCount,
                               m_stragglerCountMax |-> x.m_stragglerCountMax,
                               m_stragglerBitmap |-> x.m_stragglerBitmap]
  <1>1. Window(c)
    BY DEF Window, ClearStragglers
  <1>2. Stragglers(c)
    <2>1. CASE Sampled(w)
      <3>1. /\ c.m_stragglers = <<>> /\ c.m_stragglerCount = 0
            /\ c.m_stragglerCountMax = 0
        BY <2>1 DEF ClearStragglers, Window
      <3> HIDE DEF c
      <3> QED BY <3>1, NoStragglers
    <2>2. CASE ~Sampled(w)
      BY <2>2 DEF ClearStragglers
    <2> QED BY <2>1, <2>2
  <1>3. \/ s = [c EXCEPT !.m_acw = MaxCwnd, !.m_virtualAcw = virtual]
        \/ s = [c EXCEPT !.m_acw = acw, !.m_virtualAcw = u]
    <2> HIDE DEF c
    <2> QED BY Zenon DEF SetWindow
  <1>4. r = [s EXCEPT !.m_ecnCount = 0, !.m_ackCount = 0]
    BY DEF ResetPeriod
  <1> SUFFICES Stragglers(r)
    OBVIOUS
  <1>5. Fields(c)
    BY <1>1 DEF Window
  <1> HIDE DEF c, s, r, acw, virtual
  <1>6. /\ Fields(s)
        /\ s.m_stragglers = c.m_stragglers
        /\ s.m_stragglerCount = c.m_stragglerCount
        /\ s.m_stragglerCountMax = c.m_stragglerCountMax
        /\ s.m_stragglerBitmap = c.m_stragglerBitmap
    BY <1>3, <1>5
  <1>7. /\ r.m_stragglers = s.m_stragglers
        /\ r.m_stragglerCount = s.m_stragglerCount
        /\ r.m_stragglerCountMax = s.m_stragglerCountMax
        /\ r.m_stragglerBitmap = s.m_stragglerBitmap
    BY <1>4, <1>6
  <1> QED BY <1>2, <1>6, <1>7, SameStragglers

\* Only ReceiveAck touches the stragglers.
LEMMA NextStragglers ==
  ASSUME IInv, Stragglers(win), [Next]_vars
  PROVE  Stragglers(win')
  <1>1. Window(win)
    BY DEF IInv, WindowKept
  <1>2. CASE ReceiveAck
    <2>1. \/ win' = Counted
          \/ \E v \in AfterMarks(Counted) : \E u \in AfterStragglers(Counted, v) :
               win' = ResetPeriod(SetWindow(ClearStragglers(Counted), u))
          \/ win' = win
      BY <1>2 DEF ReceiveAck
    <2>2. Stragglers(Counted)
      BY <1>1, CountedStragglers DEF Counted
    <2>3. Window(Counted)
      BY <1>2, CountedInv DEF ReceiveAck
    <2> QED BY <2>1, <2>2, <2>3, RoundEndStragglers
  <1>3. CASE ~ReceiveAck
    <2>1. win' = win
      <3>1. \A w, ts, resend, queueLong : LeafReceive(w, ts, resend, queueLong) => win' = win
        BY DEF LeafReceive
      <3>2. \A p, queueLong : ServerReceive(p, queueLong) => win' = win
        BY DEF ServerReceive
      <3>3. \A ecn, last, rtt, waiting : LaterAck(ecn, last, rtt, waiting) => win' = win
        BY DEF LaterAck
      <3>4. (SendWindowData \/ Tick \/ UNCHANGED vars) => win' = win
        BY DEF SendWindowData, Tick, vars
      <3> QED BY <1>3, <3>1, <3>2, <3>3, <3>4 DEF Next
    <2> QED BY <2>1
  <1> QED BY <1>2, <1>3

\* m_stragglerCount, m_stragglerCountMax and m_stragglerBitmap agree with the
\* map m_stragglers after any number of ACKs, rounds and clearings, with ties
\* and with as many positions as there are: BlamesOther judges by counters
\* that are the total and the largest number of the map.
THEOREM StragglersStayConsistent == Spec => []StragglersConsistent
  <1>1. Init => Stragglers(win)
    <2> SUFFICES ASSUME Init PROVE Stragglers(win)
      OBVIOUS
    <2>1. PICK cwnd \in InitCwnds : win = NewWindow(cwnd)
      BY DEF Init
    <2>2. /\ win.m_stragglers = <<>> /\ win.m_stragglerCount = 0
          /\ win.m_stragglerCountMax = 0
      BY <2>1 DEF NewWindow
    <2> QED BY <2>2, NoStragglers
  <1>2. IInv /\ Stragglers(win) /\ [Next]_vars => Stragglers(win)'
    BY NextStragglers
  <1>3. Stragglers(win) => StragglersConsistent
    <2> DEFINE map == win.m_stragglers
    <2>1. B!Total(map, DOMAIN map) = MapThenSumSet(LAMBDA pos : map[pos], DOMAIN map)
      BY Zenon DEF B!Total, B!MapThenSumSet, B!MapThenFoldSet,
                   MapThenSumSet, MapThenFoldSet
    <2> QED BY <2>1, Zenon DEF Stragglers, StragglersConsistent
  <1> QED BY <1>1, <1>2, <1>3, Invariance, PTL DEF Spec
=============================================================================
