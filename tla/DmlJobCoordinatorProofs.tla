----------------------- MODULE DmlJobCoordinatorProofs -----------------------
(***************************************************************************)
(* Proofs about the job coordinator, for every set of jobs and workers,    *)
(* every model size, compute time, buffer size and number of iterations.   *)
(*                                                                         *)
(* The invariant says, job by job, in which of its three phases a job is   *)
(* (polled, computing, done) and which event and limit belong to it, and   *)
(* orders the counters along the way of a packet.                          *)
(***************************************************************************)
EXTENDS DmlJobCoordinator, FiniteSetTheorems, TLAPS

Events ==
  {CheckIn(j, d) : j \in Jobs, d \in Nat}
    \cup {StartIn(j, d) : j \in Jobs, d \in Nat}
    \cup {StopIn(d) : d \in Nat}

\* A count for every worker of every job.
IsCount(f) == DOMAIN f = Jobs /\ \A j \in Jobs : f[j] \in [Workers[j] -> Nat]

Types ==
  /\ now \in Nat
  /\ events \subseteq Events
  /\ currentIteration \in [Jobs -> 0..MaxIterations]
  /\ m_maxBytes \in [Jobs -> Nat]
  /\ rx \in [Jobs -> Nat]
  /\ IsCount(m_totBytes) /\ IsCount(sent) /\ IsCount(acked)

\* A job is polled while its workers have no limit, waits for the end of its
\* compute time, or is done.
Polled(j) == \E d \in Nat : EventsOf(j) = {CheckIn(j, d)} /\ m_maxBytes[j] = 0
Computing(j) == \E d \in Nat : EventsOf(j) = {StartIn(j, d)}
Phase(j) ==
  IF currentIteration[j] < MaxIterations THEN Polled(j) \/ Computing(j)
                                         ELSE EventsOf(j) = {}

\* Nothing is counted that was not sent, or sent that was not handed over; the
\* limit of a job, and its iterations, come from what was counted.
Ordered(j) ==
  /\ m_maxBytes[j] <= rx[j]
  /\ ModelSize[j] * currentIteration[j] <= rx[j]
  /\ \A w \in Workers[j] : rx[j] <= sent[j][w] /\ sent[j][w] <= m_totBytes[j][w]

AllDone == \A j \in Jobs : currentIteration[j] = MaxIterations

\* Simulator::Stop is scheduled, and ends the run, only when all is done.
StopsWhenDone == stopped => timeIsUp \/ AllDone

IInv ==
  /\ Types
  /\ \A j \in Jobs : Phase(j)
  /\ \A j \in Jobs : Ordered(j)
  /\ (\E d \in Nat : StopIn(d) \in events) => AllDone
  /\ StopsWhenDone
-----------------------------------------------------------------------------
(* The helpers.                                                            *)

\* std::max and std::min of two counts.
LEMMA MaxOfTwo ==
  ASSUME NEW a \in Nat, NEW b \in Nat
  PROVE  Max({a, b}) = (IF a >= b THEN a ELSE b)
<1>1. \E x \in {a, b} : \A y \in {a, b} : x >= y
  OBVIOUS
<1>2. Max({a, b}) \in {a, b} /\ \A y \in {a, b} : Max({a, b}) >= y
  BY <1>1 DEF Max
<1> QED
  BY <1>2

\* The same for the minimum.
LEMMA MinOfTwo ==
  ASSUME NEW a \in Nat, NEW b \in Nat
  PROVE  Min({a, b}) = (IF a <= b THEN a ELSE b)
<1>1. \E x \in {a, b} : \A y \in {a, b} : x <= y
  OBVIOUS
<1>2. Min({a, b}) \in {a, b} /\ \A y \in {a, b} : Min({a, b}) <= y
  BY <1>1 DEF Min
<1> QED
  BY <1>2

\* SendData hands over what fits, never takes anything back, and hands over
\* nothing at a limit that is reached.
LEMMA HandedOverGrows ==
  ASSUME Types, NEW j \in Jobs, NEW w \in Workers[j], NEW limit \in Nat
  PROVE  /\ HandedOver(j, w, limit) \in Nat
         /\ HandedOver(j, w, limit) >= m_totBytes[j][w]
         /\ limit # 0 /\ limit <= m_totBytes[j][w] =>
              HandedOver(j, w, limit) = m_totBytes[j][w]
<1> DEFINE tot == m_totBytes[j][w]
           end == IF limit = 0 THEN MaxPackets ELSE limit
           full == sent[j][w] + BufferSize
           fits == Min({end, full})
<1>1. tot \in Nat /\ end \in Nat /\ full \in Nat
  BY CoordinatorAssumption DEF Types, IsCount
<1>2. HandedOver(j, w, limit) = Max({tot, fits})
  BY DEF HandedOver
<1>3. limit # 0 => end = limit
  OBVIOUS
<1> HIDE DEF tot, end, full
<1>4. fits = IF end <= full THEN end ELSE full
  BY <1>1, MinOfTwo
<1>5. fits \in Nat /\ fits <= end
  BY <1>1, <1>4
<1> HIDE DEF fits
<1>6. Max({tot, fits}) = IF tot >= fits THEN tot ELSE fits
  BY <1>1, <1>5, MaxOfTwo
<1>7. /\ HandedOver(j, w, limit) \in Nat
      /\ HandedOver(j, w, limit) >= tot
      /\ limit # 0 /\ limit <= tot => HandedOver(j, w, limit) = tot
  BY <1>1, <1>2, <1>3, <1>5, <1>6
<1> QED
  BY <1>7 DEF tot

\* SetMaxBytes writes the limit and the counts of one job.
LEMMA SetMaxBytesWrites ==
  ASSUME Types, NEW j \in Jobs, NEW limit \in Nat, SetMaxBytes(j, limit)
  PROVE  /\ m_maxBytes' \in [Jobs -> Nat]
         /\ IsCount(m_totBytes')
         /\ m_maxBytes'[j] = limit
         /\ \A k \in Jobs \ {j} :
              m_maxBytes'[k] = m_maxBytes[k] /\ m_totBytes'[k] = m_totBytes[k]
         /\ \A w \in Workers[j] : m_totBytes'[j][w] = HandedOver(j, w, limit)
         /\ \A k \in Jobs : \A w \in Workers[k] :
              m_totBytes'[k][w] >= m_totBytes[k][w]
<1> DEFINE g == [w \in Workers[j] |-> HandedOver(j, w, limit)]
<1>1. /\ m_maxBytes' = [m_maxBytes EXCEPT ![j] = limit]
      /\ m_totBytes' = [m_totBytes EXCEPT ![j] = g]
  BY DEF SetMaxBytes
<1>2. g \in [Workers[j] -> Nat]
  BY HandedOverGrows
<1>3. \A w \in Workers[j] :
        g[w] = HandedOver(j, w, limit) /\ g[w] >= m_totBytes[j][w]
  BY HandedOverGrows
<1> HIDE DEF g
<1>4. /\ DOMAIN m_totBytes' = Jobs
      /\ \A k \in Jobs : m_totBytes'[k] = IF k = j THEN g ELSE m_totBytes[k]
  BY <1>1 DEF Types, IsCount
<1>5. IsCount(m_totBytes')
  BY <1>2, <1>4 DEF Types, IsCount
<1>6. \A k \in Jobs : \A w \in Workers[k] : m_totBytes[k][w] \in Nat
  BY DEF Types, IsCount
<1>7. \A k \in Jobs : \A w \in Workers[k] : m_totBytes'[k][w] >= m_totBytes[k][w]
  BY <1>3, <1>4, <1>6
<1> QED
  BY <1>1, <1>3, <1>4, <1>5, <1>7 DEF Types

\* The events of a job in a set of events.
In(E, j) == {e \in E : e.call # "Stop" /\ e.job = j}

\* What the fields of the three kinds of events are.
LEMMA EventFields ==
  \A j, d : /\ CheckIn(j, d).call = "CheckIterationProgress"
            /\ CheckIn(j, d).job = j /\ CheckIn(j, d).in = d
            /\ StartIn(j, d).call = "StartCommunicationPhase"
            /\ StartIn(j, d).job = j /\ StartIn(j, d).in = d
            /\ StopIn(d).call = "Stop" /\ StopIn(d).in = d
  BY DEF CheckIn, StartIn, StopIn

\* Replacing one event of job j concerns no other job.
LEMMA ReplaceEvent ==
  ASSUME NEW E, NEW E1, NEW j \in Jobs, NEW k \in Jobs,
         NEW old, NEW new, old.job = j,
         \A e \in new : e.call # "Stop" => e.job = j,
         E1 = (E \ {old}) \cup new
  PROVE  /\ k # j => In(E1, k) = In(E, k)
         /\ In(E, j) = {old} => In(E1, j) = {e \in new : e.call # "Stop"}
  BY DEF In

-----------------------------------------------------------------------------
(* The steps.                                                              *)

\* At startTime every job is polled.
LEMMA InitIInv == Init => IInv
<1> SUFFICES ASSUME Init PROVE IInv
  OBVIOUS
<1> USE DEF Init
<1>1. Min({BufferSize, MaxPackets}) \in Nat
  <2>1. BufferSize \in Nat /\ MaxPackets \in Nat
    BY CoordinatorAssumption
  <2>2. Min({BufferSize, MaxPackets}) \in {BufferSize, MaxPackets}
    BY <2>1, MinOfTwo
  <2> QED
    BY <2>1, <2>2
<1>2. events \subseteq Events
  BY DEF Events
<1>3. IsCount(m_totBytes) /\ IsCount(sent) /\ IsCount(acked)
  BY <1>1 DEF IsCount
<1>4. Types
  BY <1>2, <1>3, CoordinatorAssumption DEF Types
<1>5. ASSUME NEW j \in Jobs PROVE Phase(j)
  <2>1. EventsOf(j) = {CheckIn(j, 1)}
    BY EventFields DEF EventsOf
  <2>2. Polled(j)
    BY <2>1 DEF Polled
  <2> QED
    BY <2>2, CoordinatorAssumption DEF Phase
<1>6. ASSUME NEW j \in Jobs PROVE Ordered(j)
  <2>1. ModelSize[j] * 0 = 0
    BY CoordinatorAssumption
  <2> QED
    BY <1>1, <2>1 DEF Ordered
<1>7. \A d : StopIn(d) \notin events
  BY EventFields
<1> QED
  BY <1>4, <1>5, <1>6, <1>7 DEF IInv, StopsWhenDone

\* A job that is polled, as the code of CheckIterationProgress finds it.
LEMMA CheckFindsPolled ==
  ASSUME IInv, NEW j \in Jobs, CheckIn(j, 0) \in events
  PROVE  In(events, j) = {CheckIn(j, 0)} /\ m_maxBytes[j] = 0
                                         /\ currentIteration[j] < MaxIterations
<1>1. CheckIn(j, 0) \in EventsOf(j) /\ EventsOf(j) = In(events, j)
  BY EventFields DEF EventsOf, In
<1>2. Phase(j)
  BY DEF IInv
<1>3. currentIteration[j] < MaxIterations /\ (Polled(j) \/ Computing(j))
  BY <1>1, <1>2 DEF Phase
<1>4. ~Computing(j)
  BY <1>1, EventFields DEF Computing
<1> QED
  BY <1>1, <1>3, <1>4 DEF Polled

\* Likewise for StartCommunicationPhase.
LEMMA StartFindsComputing ==
  ASSUME IInv, NEW j \in Jobs, StartIn(j, 0) \in events
  PROVE  In(events, j) = {StartIn(j, 0)} /\ currentIteration[j] < MaxIterations
<1>1. StartIn(j, 0) \in EventsOf(j) /\ EventsOf(j) = In(events, j)
  BY EventFields DEF EventsOf, In
<1>2. Phase(j)
  BY DEF IInv
<1>3. currentIteration[j] < MaxIterations /\ (Polled(j) \/ Computing(j))
  BY <1>1, <1>2 DEF Phase
<1>4. ~Polled(j)
  BY <1>1, EventFields DEF Polled
<1> QED
  BY <1>1, <1>3, <1>4 DEF Computing

\* A job whose event, limit and count a step leaves alone stays in its phase.
LEMMA PhaseKept ==
  ASSUME NEW k \in Jobs, Phase(k), In(events', k) = In(events, k),
         m_maxBytes'[k] = m_maxBytes[k],
         currentIteration'[k] = currentIteration[k]
  PROVE  Phase(k)'
  BY DEF Phase, Polled, Computing, EventsOf, In

\* A poll: an iteration is counted and the job paused, or it is polled again.
LEMMA CheckIInv ==
  ASSUME IInv, NEW j \in Jobs, CheckIterationProgress(j)
  PROVE  IInv'
<1> DEFINE old == CheckIn(j, 0)
<1>0. /\ Types /\ ~stopped /\ old \in events
      /\ UNCHANGED <<now, network, stopped, timeIsUp>>
      /\ In(events, j) = {old}
      /\ m_maxBytes[j] = 0 /\ currentIteration[j] < MaxIterations
      /\ currentIteration[j] \in Nat /\ MaxIterations \in Nat
      /\ rx[j] \in Nat
  BY CheckFindsPolled, CoordinatorAssumption DEF IInv, CheckIterationProgress, Types
<1>1. ~(\E d \in Nat : StopIn(d) \in events)
  BY <1>0 DEF IInv, AllDone
<1>2. UNCHANGED <<sent, rx, acked>>
  BY <1>0 DEF network
<1>3. CASE /\ Collected(j)
           /\ PauseWorkers(j)
           /\ currentIteration' = [currentIteration EXCEPT ![j] = @ + 1]
           /\ ScheduleAfterIteration(j, events \ {old})
  <2>1. /\ m_maxBytes' \in [Jobs -> Nat]
        /\ IsCount(m_totBytes')
        /\ m_maxBytes'[j] = rx[j]
        /\ \A k \in Jobs \ {j} :
             m_maxBytes'[k] = m_maxBytes[k] /\ m_totBytes'[k] = m_totBytes[k]
        /\ \A k \in Jobs : \A w \in Workers[k] :
             m_totBytes'[k][w] >= m_totBytes[k][w]
    BY <1>0, <1>3, SetMaxBytesWrites DEF PauseWorkers
  <2>2. /\ currentIteration' \in [Jobs -> 0..MaxIterations]
        /\ currentIteration'[j] = currentIteration[j] + 1
        /\ \A k \in Jobs \ {j} : currentIteration'[k] = currentIteration[k]
    BY <1>0, <1>3 DEF Types
  <2>3. PICK new \in SUBSET Events :
          /\ events' = (events \ {old}) \cup new
          /\ \/ /\ currentIteration[j] + 1 < MaxIterations
                /\ new = {StartIn(j, ComputeTime[j])}
             \/ currentIteration[j] + 1 = MaxIterations /\ new = {}
             \/ /\ currentIteration[j] + 1 = MaxIterations
                /\ \A k \in Jobs \ {j} : currentIteration[k] >= MaxIterations
                /\ new = {StopIn(now)}
    <3>1. /\ StartIn(j, ComputeTime[j]) \in Events
          /\ StopIn(now) \in Events
      BY <1>0, CoordinatorAssumption DEF Types, Events
    <3>2. events \ {old} = (events \ {old}) \cup {}
      OBVIOUS
    <3> QED
      BY <1>3, <3>1, <3>2 DEF ScheduleAfterIteration
  <2>4. \A e \in new : e.call # "Stop" => e.job = j
    BY <2>3, EventFields
  <2>5. old.job = j
    BY EventFields
  <2> HIDE DEF old
  <2>6. /\ \A k \in Jobs : k # j => In(events', k) = In(events, k)
        /\ In(events', j) = {e \in new : e.call # "Stop"}
    BY <1>0, <2>3, <2>4, <2>5, ReplaceEvent
  <2>7. Types'
    BY <1>0, <1>2, <2>1, <2>2, <2>3 DEF Types
  <2>8. ASSUME NEW k \in Jobs PROVE Phase(k)'
    <3>1. CASE k # j
      BY <2>1, <2>2, <2>6, <3>1, PhaseKept DEF IInv
    <3>2. CASE k = j
      <4>0. EventsOf(j)' = In(events', j)
        BY DEF EventsOf, In
      <4>1. CASE new = {StartIn(j, ComputeTime[j])} /\ currentIteration[j] + 1 < MaxIterations
        <5>1. EventsOf(j)' = {StartIn(j, ComputeTime[j])}
          BY <2>6, <4>0, <4>1, EventFields
        <5>2. ComputeTime[j] \in Nat
          BY CoordinatorAssumption
        <5>3. Computing(j)'
          BY <5>1, <5>2 DEF Computing, StartIn
        <5> QED
          BY <2>2, <3>2, <4>1, <5>3 DEF Phase
      <4>2. CASE new \subseteq {StopIn(now)} /\ currentIteration[j] + 1 = MaxIterations
        <5>1. EventsOf(j)' = {}
          BY <2>6, <4>0, <4>2, EventFields
        <5>2. ~(currentIteration'[j] < MaxIterations)
          BY <1>0, <2>2, <4>2
        <5> QED
          BY <3>2, <5>1, <5>2 DEF Phase
      <4> QED
        BY <2>3, <4>1, <4>2
    <3> QED
      BY <3>1, <3>2
  <2>9. ASSUME NEW k \in Jobs PROVE Ordered(k)'
    <3>1. \A w \in Workers[k] : /\ m_totBytes[k][w] \in Nat /\ sent[k][w] \in Nat
                                /\ m_totBytes'[k][w] \in Nat
      BY <1>0, <2>1 DEF Types, IsCount
    <3>2. \A w \in Workers[k] : rx'[k] <= sent'[k][w] /\ sent'[k][w] <= m_totBytes'[k][w]
      BY <1>2, <2>1, <3>1 DEF IInv, Ordered
    <3>3. CASE k # j
      BY <1>2, <2>1, <2>2, <3>2, <3>3 DEF IInv, Ordered
    <3>4. CASE k = j
      BY <1>0, <1>2, <1>3, <2>1, <2>2, <3>2, <3>4 DEF Ordered, Collected
    <3> QED
      BY <3>3, <3>4
  <2>10. (\E d \in Nat : StopIn(d) \in events') => AllDone'
    <3> SUFFICES ASSUME NEW d \in Nat, StopIn(d) \in events' PROVE AllDone'
      OBVIOUS
    <3>1. StopIn(d) \in new
      BY <1>1, <2>3
    <3>2. /\ currentIteration[j] + 1 = MaxIterations
          /\ \A k \in Jobs \ {j} : currentIteration[k] >= MaxIterations
      BY <2>3, <3>1, EventFields
    <3>3. \A k \in Jobs \ {j} : currentIteration[k] = MaxIterations
      BY <1>0, <3>2 DEF Types
    <3> QED
      BY <2>2, <3>2, <3>3 DEF AllDone
  <2> QED
    BY <1>0, <2>7, <2>8, <2>9, <2>10 DEF IInv, StopsWhenDone, StopIn
<1>4. CASE /\ events' = (events \ {old}) \cup {CheckIn(j, 1)}
           /\ UNCHANGED <<currentIteration, workers, g_allJobsCompleted>>
  <2>1. UNCHANGED <<currentIteration, m_maxBytes, m_totBytes>>
    BY <1>4 DEF workers
  <2>2. CheckIn(j, 1) \in Events /\ old.job = j
    BY EventFields DEF Events
  <2> DEFINE new == {CheckIn(j, 1)}
  <2>3. /\ \A e \in new : e.call # "Stop" => e.job = j
        /\ events' = (events \ {old}) \cup new
        /\ In(events, j) = {old} /\ old.job = j
    BY <1>0, <1>4, EventFields
  <2> HIDE DEF old, new
  <2>4. /\ \A k \in Jobs : k # j => In(events', k) = In(events, k)
        /\ In(events', j) = {e \in new : e.call # "Stop"}
    BY <2>3, ReplaceEvent
  <2>5. Types'
    BY <1>0, <1>2, <1>4, <2>1, <2>2 DEF Types
  <2>6. ASSUME NEW k \in Jobs PROVE Phase(k)'
    <3>1. CASE k # j
      BY <2>1, <2>4, <3>1, PhaseKept DEF IInv
    <3>2. CASE k = j
      <4>1. EventsOf(j)' = {CheckIn(j, 1)}
        BY <2>4, EventFields DEF EventsOf, In, new
      <4>2. Polled(j)'
        BY <1>0, <2>1, <4>1 DEF Polled, CheckIn
      <4> QED
        BY <1>0, <2>1, <3>2, <4>2 DEF Phase
    <3> QED
      BY <3>1, <3>2
  <2>7. \A k \in Jobs : Ordered(k)'
    BY <1>2, <2>1 DEF IInv, Ordered
  <2>8. \A d \in Nat : StopIn(d) \notin events'
    BY <1>1, <1>4, EventFields
  <2> QED
    BY <1>0, <2>5, <2>6, <2>7, <2>8 DEF IInv, StopsWhenDone, StopIn
<1> QED
  BY <1>3, <1>4 DEF CheckIterationProgress

\* The end of the compute time: the limit is lifted and the job polled again.
LEMMA StartIInv ==
  ASSUME IInv, NEW j \in Jobs, StartCommunicationPhase(j)
  PROVE  IInv'
<1> DEFINE old == StartIn(j, 0)
           new == {CheckIn(j, 1)}
<1>0. /\ Types /\ ~stopped /\ old \in events
      /\ UNCHANGED <<now, currentIteration, network, stopped, timeIsUp>>
      /\ events' = (events \ {old}) \cup new
      /\ SetMaxBytes(j, 0)
      /\ In(events, j) = {old} /\ currentIteration[j] < MaxIterations
      /\ currentIteration[j] \in Nat /\ MaxIterations \in Nat
  BY StartFindsComputing, CoordinatorAssumption
     DEF IInv, StartCommunicationPhase, Types
<1>1. UNCHANGED <<sent, rx, acked>>
  BY <1>0 DEF network
<1>2. /\ m_maxBytes' \in [Jobs -> Nat]
      /\ IsCount(m_totBytes')
      /\ m_maxBytes'[j] = 0
      /\ \A k \in Jobs \ {j} : m_maxBytes'[k] = m_maxBytes[k]
      /\ \A k \in Jobs : \A w \in Workers[k] :
           m_totBytes'[k][w] >= m_totBytes[k][w]
  <2>1. 0 \in Nat
    OBVIOUS
  <2> QED
    BY <1>0, <2>1, SetMaxBytesWrites
<1>3. CheckIn(j, 1) \in Events /\ old.job = j
      /\ \A e \in new : e.call # "Stop" => e.job = j
  BY EventFields DEF Events
<1> HIDE DEF old, new
<1>4. /\ \A k \in Jobs : k # j => In(events', k) = In(events, k)
      /\ In(events', j) = {e \in new : e.call # "Stop"}
  BY <1>0, <1>3, ReplaceEvent
<1>5. Types'
  BY <1>0, <1>1, <1>2, <1>3 DEF Types, new
<1>6. ASSUME NEW k \in Jobs PROVE Phase(k)'
  <2>1. CASE k # j
    BY <1>0, <1>2, <1>4, <2>1, PhaseKept DEF IInv
  <2>2. CASE k = j
    <3>1. EventsOf(j)' = {CheckIn(j, 1)}
      BY <1>4, EventFields DEF EventsOf, In, new
    <3>2. Polled(j)'
      BY <1>2, <3>1 DEF Polled, CheckIn
    <3> QED
      BY <1>0, <2>2, <3>2 DEF Phase
  <2> QED
    BY <2>1, <2>2
<1>7. ASSUME NEW k \in Jobs PROVE Ordered(k)'
  <2>1. /\ rx[k] \in Nat
        /\ \A w \in Workers[k] : /\ m_totBytes[k][w] \in Nat /\ sent[k][w] \in Nat
                                 /\ m_totBytes'[k][w] \in Nat
    BY <1>0, <1>2 DEF Types, IsCount
  <2>2. Ordered(k)
    BY DEF IInv
  <2>3. \A w \in Workers[k] : rx'[k] <= sent'[k][w] /\ sent'[k][w] <= m_totBytes'[k][w]
    BY <1>1, <1>2, <2>1, <2>2 DEF Ordered
  <2>4. m_maxBytes'[k] <= rx'[k]
    BY <1>1, <1>2, <2>1, <2>2 DEF Ordered
  <2> QED
    BY <1>0, <1>1, <2>2, <2>3, <2>4 DEF Ordered
<1>8. (\E d \in Nat : StopIn(d) \in events') => AllDone'
  <2>1. ~(\E d \in Nat : StopIn(d) \in events)
    BY <1>0 DEF IInv, AllDone
  <2> QED
    BY <1>0, <2>1, EventFields DEF new
<1> QED
  BY <1>0, <1>5, <1>6, <1>7, <1>8 DEF IInv, StopsWhenDone, StopIn

\* One millisecond passes for an event that is not due.
Later(e) == [e EXCEPT !.in = @ - 1]

\* The event stays the same call for the same job.
LEMMA LaterKeeps ==
  ASSUME NEW j, NEW d \in Nat
  PROVE  /\ Later(CheckIn(j, d)) = CheckIn(j, d - 1)
         /\ Later(StartIn(j, d)) = StartIn(j, d - 1)
         /\ Later(StopIn(d)) = StopIn(d - 1)
  BY DEF Later, CheckIn, StartIn, StopIn

\* Time passes: every job keeps its event.
LEMMA TickIInv == IInv /\ Tick => IInv'
<1> SUFFICES ASSUME IInv, Tick PROVE IInv'
  OBVIOUS
<1>0. /\ Types /\ ~stopped
      /\ \A e \in events : e.in > 0
      /\ events' = {Later(e) : e \in events}
      /\ now' = Min({now + 1, MaxTime})
      /\ UNCHANGED <<currentIteration, m_maxBytes, m_totBytes, sent, rx, acked,
                     stopped, timeIsUp>>
  BY DEF IInv, Tick, Later, workers, network
<1>1. now' \in Nat
  <2>1. now + 1 \in Nat /\ MaxTime \in Nat
    BY <1>0, CoordinatorAssumption DEF Types
  <2>2. Min({now + 1, MaxTime}) \in {now + 1, MaxTime}
    BY <2>1, MinOfTwo
  <2> QED
    BY <1>0, <2>1, <2>2
<1>2. ASSUME NEW e \in events
      PROVE  /\ Later(e) \in Events
             /\ Later(e).call = e.call
             /\ e.call # "Stop" => Later(e).job = e.job
             /\ \A d \in Nat : Later(e) = StopIn(d) => e = StopIn(d + 1)
  <2>0. e \in Events /\ e.in > 0
    BY <1>0 DEF Types
  <2>1. CASE \E j \in Jobs, d \in Nat : e = CheckIn(j, d)
    <3>1. PICK j \in Jobs, d \in Nat : e = CheckIn(j, d)
      BY <2>1
    <3>2. d - 1 \in Nat /\ Later(e) = CheckIn(j, d - 1)
      BY <2>0, <3>1, LaterKeeps, EventFields
    <3> QED
      BY <3>1, <3>2, EventFields DEF Events
  <2>2. CASE \E j \in Jobs, d \in Nat : e = StartIn(j, d)
    <3>1. PICK j \in Jobs, d \in Nat : e = StartIn(j, d)
      BY <2>2
    <3>2. d - 1 \in Nat /\ Later(e) = StartIn(j, d - 1)
      BY <2>0, <3>1, LaterKeeps, EventFields
    <3> QED
      BY <3>1, <3>2, EventFields DEF Events
  <2>3. CASE \E d \in Nat : e = StopIn(d)
    <3>1. PICK d \in Nat : e = StopIn(d)
      BY <2>3
    <3>2. d - 1 \in Nat /\ Later(e) = StopIn(d - 1)
      BY <2>0, <3>1, LaterKeeps, EventFields
    <3>3. \A c \in Nat : Later(e) = StopIn(c) => c = d - 1
      BY <3>2, EventFields
    <3>4. \A c \in Nat : c = d - 1 => c + 1 = d
      OBVIOUS
    <3> QED
      BY <3>1, <3>2, <3>3, <3>4, EventFields DEF Events
  <2> QED
    BY <2>0, <2>1, <2>2, <2>3 DEF Events
<1>3. Types'
  BY <1>0, <1>1, <1>2 DEF Types
<1>4. ASSUME NEW j \in Jobs PROVE Phase(j)'
  <2>1. EventsOf(j)' = {Later(e) : e \in EventsOf(j)}
    BY <1>0, <1>2 DEF EventsOf
  <2>2. Phase(j)
    BY DEF IInv
  <2>3. ASSUME NEW d \in Nat, EventsOf(j) = {CheckIn(j, d)}
        PROVE  d - 1 \in Nat /\ EventsOf(j)' = {CheckIn(j, d - 1)}
    <3>1. CheckIn(j, d) \in events
      BY <2>3 DEF EventsOf
    <3> QED
      BY <1>0, <2>1, <2>3, <3>1, LaterKeeps, EventFields
  <2>4. ASSUME NEW d \in Nat, EventsOf(j) = {StartIn(j, d)}
        PROVE  d - 1 \in Nat /\ EventsOf(j)' = {StartIn(j, d - 1)}
    <3>1. StartIn(j, d) \in events
      BY <2>4 DEF EventsOf
    <3> QED
      BY <1>0, <2>1, <2>4, <3>1, LaterKeeps, EventFields
  <2>5. Polled(j) => Polled(j)'
    BY <1>0, <2>3 DEF Polled, CheckIn
  <2>6. Computing(j) => Computing(j)'
    BY <2>4 DEF Computing, StartIn
  <2>7. EventsOf(j) = {} => EventsOf(j)' = {}
    BY <2>1
  <2> QED
    BY <1>0, <2>2, <2>5, <2>6, <2>7 DEF Phase
<1>5. \A j \in Jobs : Ordered(j)'
  BY <1>0 DEF IInv, Ordered
<1>6. (\E d \in Nat : StopIn(d) \in events') => AllDone'
  <2> SUFFICES ASSUME NEW d \in Nat, StopIn(d) \in events' PROVE AllDone'
    OBVIOUS
  <2>1. PICK e \in events : StopIn(d) = Later(e)
    BY <1>0
  <2>2. StopIn(d + 1) \in events /\ d + 1 \in Nat
    BY <1>2, <2>1
  <2> QED
    BY <1>0, <2>2 DEF IInv, AllDone
<1> QED
  BY <1>0, <1>3, <1>4, <1>5, <1>6 DEF IInv, StopsWhenDone, StopIn

\* One worker's count is changed.
Updated(f, j, w, n) == [f EXCEPT ![j][w] = n]

\* The other counts, and the other jobs, keep theirs.
LEMMA CountUpdated ==
  ASSUME NEW f, IsCount(f), NEW j \in Jobs, NEW w \in Workers[j], NEW n \in Nat
  PROVE  LET g == Updated(f, j, w, n) IN
         /\ IsCount(g)
         /\ \A v \in Workers[j] : g[j][v] = IF v = w THEN n ELSE f[j][v]
         /\ \A k \in Jobs \ {j} : g[k] = f[k]
<1> DEFINE g == Updated(f, j, w, n)
<1>1. /\ DOMAIN g = Jobs /\ g[j] = [f[j] EXCEPT ![w] = n]
      /\ \A k \in Jobs \ {j} : g[k] = f[k]
  BY DEF IsCount, Updated
<1> HIDE DEF g
<1>2. [f[j] EXCEPT ![w] = n] \in [Workers[j] -> Nat]
  BY DEF IsCount
<1>3. ASSUME NEW k \in Jobs PROVE g[k] \in [Workers[k] -> Nat]
  <2>1. CASE k = j
    BY <1>1, <1>2, <2>1
  <2>2. CASE k # j
    BY <1>1, <2>2 DEF IsCount
  <2> QED
    BY <2>1, <2>2
<1>4. \A v \in Workers[j] : g[j][v] = IF v = w THEN n ELSE f[j][v]
  BY <1>1 DEF IsCount
<1>5. IsCount(g)
  BY <1>1, <1>3 DEF IsCount
<1> QED
  BY <1>1, <1>4, <1>5 DEF g

\* The transport moves counters along the way of a packet, in their order.
LEMMA TransportIInv ==
  ASSUME IInv, NEW j \in Jobs, NEW w \in Workers[j],
         SendWindowData(j, w) \/ HandleRead(j) \/ DataSend(j, w)
  PROVE  IInv'
<1>0. /\ Types /\ ~stopped
      /\ UNCHANGED <<now, events, currentIteration, m_maxBytes, stopped, timeIsUp>>
      /\ m_maxBytes[j] \in Nat /\ rx[j] \in Nat
      /\ \A k \in Jobs : Ordered(k)
  BY DEF IInv, Types, SendWindowData, HandleRead, DataSend, workers
<1>1. ASSUME Types', \A k \in Jobs : Ordered(k)' PROVE IInv'
  <2>1. \A k \in Jobs : Phase(k)'
    BY <1>0, PhaseKept DEF IInv
  <2>2. (\E d \in Nat : StopIn(d) \in events') => AllDone'
    BY <1>0 DEF IInv, AllDone
  <2> QED
    BY <1>0, <1>1, <2>1, <2>2 DEF IInv, StopsWhenDone, StopIn
<1>2. CASE SendWindowData(j, w)
  <2>1. /\ UNCHANGED <<m_totBytes, rx, acked>>
        /\ \E n \in (sent[j][w] + 1)..m_totBytes[j][w] :
             sent' = [sent EXCEPT ![j][w] = n]
    BY <1>2 DEF SendWindowData, workers
  <2>2. PICK n \in (sent[j][w] + 1)..m_totBytes[j][w] :
          sent' = [sent EXCEPT ![j][w] = n]
    BY <2>1
  <2>3. /\ sent[j][w] \in Nat /\ m_totBytes[j][w] \in Nat /\ DOMAIN sent = Jobs
        /\ sent[j] \in [Workers[j] -> Nat]
    BY <1>0 DEF Types, IsCount
  <2>4. n \in Nat /\ n >= sent[j][w] /\ n <= m_totBytes[j][w]
    BY <2>2, <2>3
  <2>5. sent' = Updated(sent, j, w, n) /\ IsCount(sent)
    BY <1>0, <2>2 DEF Updated, Types
  <2>6. /\ IsCount(sent')
        /\ \A v \in Workers[j] : sent'[j][v] = IF v = w THEN n ELSE sent[j][v]
        /\ \A k \in Jobs \ {j} : sent'[k] = sent[k]
    BY <2>4, <2>5, CountUpdated
  <2>7. Types'
    BY <1>0, <2>1, <2>6 DEF Types
  <2>8. ASSUME NEW k \in Jobs PROVE Ordered(k)'
    <3>1. CASE k # j
      BY <1>0, <2>1, <2>6, <3>1 DEF Ordered
    <3>2. CASE k = j
      <4>1. ASSUME NEW v \in Workers[j]
            PROVE  rx[j] <= sent'[j][v] /\ sent'[j][v] <= m_totBytes[j][v]
        <5>1. rx[j] <= sent[j][v] /\ sent[j][v] <= m_totBytes[j][v]
          BY <1>0 DEF Ordered
        <5> QED
          BY <1>0, <2>3, <2>4, <2>6, <5>1
      <4> QED
        BY <1>0, <2>1, <3>2, <4>1 DEF Ordered
    <3> QED
      BY <3>1, <3>2
  <2> QED
    BY <1>1, <2>7, <2>8
<1>3. CASE HandleRead(j)
  <2>1. /\ UNCHANGED <<m_totBytes, sent, acked>>
        /\ \A v \in Workers[j] : rx[j] < sent[j][v]
        /\ rx' = [rx EXCEPT ![j] = rx[j] + 1]
    BY <1>3 DEF HandleRead, workers
  <2>2. Types'
    BY <1>0, <2>1 DEF Types
  <2>3. ASSUME NEW k \in Jobs PROVE Ordered(k)'
    <3>1. Ordered(k) /\ rx \in [Jobs -> Nat]
      BY <1>0 DEF Types
    <3>2. CASE k # j
      BY <1>0, <2>1, <3>1, <3>2 DEF Ordered
    <3>3. CASE k = j
      <4>1. \A v \in Workers[j] : sent[j][v] \in Nat
        BY <1>0 DEF Types, IsCount
      <4>2. rx'[j] = rx[j] + 1
        BY <2>1, <3>1
      <4>3. \A v \in Workers[j] : rx'[j] <= sent[j][v]
        BY <1>0, <2>1, <4>1, <4>2
      <4>4. ModelSize[j] * currentIteration[j] \in Nat
        BY <1>0, CoordinatorAssumption DEF Types
      <4>5. m_maxBytes[j] <= rx'[j] /\ ModelSize[j] * currentIteration[j] <= rx'[j]
        BY <1>0, <4>2, <4>4 DEF Ordered
      <4>6. \A v \in Workers[j] : sent[j][v] <= m_totBytes[j][v]
        BY <1>0 DEF Ordered
      <4> QED
        BY <1>0, <2>1, <3>3, <4>3, <4>5, <4>6 DEF Ordered
    <3> QED
      BY <3>2, <3>3
  <2> QED
    BY <1>1, <2>2, <2>3
<1>4. CASE DataSend(j, w)
  <2> DEFINE n == HandedOver(j, w, m_maxBytes[j])
             a == acked[j][w] + 1
  <2>1. /\ UNCHANGED <<sent, rx>>
        /\ acked' = [acked EXCEPT ![j][w] = a]
        /\ m_totBytes' = [m_totBytes EXCEPT ![j][w] = n]
    BY <1>4 DEF DataSend
  <2>2. n \in Nat /\ n >= m_totBytes[j][w]
    BY <1>0, HandedOverGrows
  <2>3. /\ DOMAIN m_totBytes = Jobs /\ m_totBytes[j] \in [Workers[j] -> Nat]
        /\ DOMAIN acked = Jobs /\ acked[j] \in [Workers[j] -> Nat]
        /\ a \in Nat
    BY <1>0 DEF Types, IsCount
  <2> HIDE DEF n, a
  <2>a. /\ m_totBytes' = Updated(m_totBytes, j, w, n) /\ IsCount(m_totBytes)
        /\ acked' = Updated(acked, j, w, a) /\ IsCount(acked)
    BY <1>0, <2>1 DEF Updated, Types
  <2>4. /\ IsCount(m_totBytes')
        /\ \A v \in Workers[j] :
             m_totBytes'[j][v] = IF v = w THEN n ELSE m_totBytes[j][v]
        /\ \A k \in Jobs \ {j} : m_totBytes'[k] = m_totBytes[k]
    BY <2>2, <2>a, CountUpdated
  <2>5. IsCount(acked')
    BY <2>3, <2>a, CountUpdated
  <2>7. Types'
    BY <1>0, <2>1, <2>4, <2>5 DEF Types
  <2>8. ASSUME NEW k \in Jobs PROVE Ordered(k)'
    <3>1. CASE k # j
      BY <1>0, <2>1, <2>4, <3>1 DEF Ordered
    <3>2. CASE k = j
      <4>1. ASSUME NEW v \in Workers[j] PROVE sent[j][v] <= m_totBytes'[j][v]
        <5>1. sent[j][v] <= m_totBytes[j][v] /\ sent[j][v] \in Nat
          BY <1>0 DEF Ordered, Types, IsCount
        <5>2. m_totBytes[j][w] \in Nat
          BY <2>3
        <5> QED
          BY <2>2, <2>4, <5>1, <5>2
      <4> QED
        BY <1>0, <2>1, <3>2, <4>1 DEF Ordered
    <3> QED
      BY <3>1, <3>2
  <2> QED
    BY <1>1, <2>7, <2>8
<1> QED
  BY <1>2, <1>3, <1>4

\* Every step keeps the invariant.
LEMMA NextIInv == IInv /\ [Next]_vars => IInv'
<1> SUFFICES ASSUME IInv, [Next]_vars PROVE IInv'
  OBVIOUS
<1>1. ASSUME NEW j \in Jobs, CheckIterationProgress(j) PROVE IInv'
  BY <1>1, CheckIInv
<1>2. ASSUME NEW j \in Jobs, StartCommunicationPhase(j) PROVE IInv'
  BY <1>2, StartIInv
<1>3. ASSUME UNCHANGED <<now, events, currentIteration, workers, network>>,
             StopsWhenDone'
      PROVE  IInv'
  <2>1. UNCHANGED <<now, events, currentIteration, m_maxBytes, m_totBytes, sent,
                    rx, acked>>
    BY <1>3 DEF workers, network
  <2>2. Types'
    BY <2>1 DEF IInv, Types
  <2>3. ASSUME NEW k \in Jobs PROVE Phase(k)' /\ Ordered(k)'
    <3>1. Phase(k) /\ Ordered(k)
      BY DEF IInv
    <3>2. Phase(k)'
      BY <2>1, <3>1, PhaseKept
    <3>3. Ordered(k)'
      BY <2>1, <3>1 DEF Ordered
    <3> QED
      BY <3>2, <3>3
  <2>4. (\E d \in Nat : StopIn(d) \in events') => AllDone'
    BY <2>1 DEF IInv, AllDone
  <2> QED
    BY <1>3, <2>2, <2>3, <2>4 DEF IInv, StopIn
<1>4. CASE Stop
  <2>1. StopIn(0) \in events /\ 0 \in Nat
    BY <1>4 DEF Stop
  <2>2. AllDone
    BY <2>1 DEF IInv
  <2> QED
    BY <1>3, <1>4, <2>2 DEF Stop, StopsWhenDone, AllDone
<1>5. CASE StopAtStopTime
  BY <1>3, <1>5 DEF StopAtStopTime, StopsWhenDone
<1>6. CASE Tick
  BY <1>6, TickIInv
<1>7. ASSUME NEW j \in Jobs, NEW w \in Workers[j], SendWindowData(j, w) PROVE IInv'
  BY <1>7, TransportIInv
<1>8. ASSUME NEW j \in Jobs, HandleRead(j) PROVE IInv'
  <2>1. PICK w \in Workers[j] : TRUE
    BY CoordinatorAssumption
  <2> QED
    BY <1>8, <2>1, TransportIInv
<1>9. ASSUME NEW j \in Jobs, NEW w \in Workers[j], DataSend(j, w) PROVE IInv'
  BY <1>9, TransportIInv
<1>10. CASE UNCHANGED vars
  BY <1>3, <1>10 DEF vars, IInv, StopsWhenDone, AllDone
<1> QED
  BY <1>1, <1>2, <1>4, <1>5, <1>6, <1>7, <1>8, <1>9, <1>10 DEF Next

\* The invariant holds in every state of the coordinator.
LEMMA Invariance == Spec => []IInv
  BY InitIInv, NextIInv, PTL DEF Spec

(***************************************************************************)
(* No chain of polls is lost and none is doubled: a job has one event of   *)
(* the coordinator while it has iterations left and none afterwards.       *)
(***************************************************************************)
THEOREM OneEvent == Spec => []OneEventPerJob
<1>1. ASSUME IInv PROVE OneEventPerJob
  <2> SUFFICES ASSUME NEW j \in Jobs
               PROVE  Cardinality(EventsOf(j)) =
                        (IF currentIteration[j] < MaxIterations THEN 1 ELSE 0)
    BY DEF OneEventPerJob
  <2>1. Phase(j)
    BY <1>1 DEF IInv
  <2>2. CASE currentIteration[j] < MaxIterations
    <3>1. \E e : EventsOf(j) = {e}
      BY <2>1, <2>2 DEF Phase, Polled, Computing
    <3> QED
      BY <2>2, <3>1, FS_Singleton
  <2>3. CASE ~(currentIteration[j] < MaxIterations)
    BY <2>1, <2>3, FS_EmptySet DEF Phase
  <2> QED
    BY <2>2, <2>3
<1> QED
  BY <1>1, Invariance, PTL

(***************************************************************************)
(* The limit PauseWorkers sets, GetTotalRxJob of the server, is never more *)
(* than any worker has already handed to its socket.                       *)
(***************************************************************************)
THEOREM LimitIsReached == Spec => []LimitReached
<1>1. ASSUME IInv PROVE LimitReached
  <2> SUFFICES ASSUME NEW j \in Jobs, NEW w \in Workers[j]
               PROVE  /\ m_maxBytes[j] <= m_totBytes[j][w]
                      /\ ModelSize[j] * currentIteration[j] <= m_totBytes[j][w]
    BY DEF LimitReached
  <2>1. /\ m_maxBytes[j] \in Nat /\ rx[j] \in Nat /\ sent[j][w] \in Nat
        /\ m_totBytes[j][w] \in Nat
        /\ ModelSize[j] * currentIteration[j] \in Nat
    BY <1>1, CoordinatorAssumption DEF IInv, Types, IsCount
  <2>2. Ordered(j)
    BY <1>1 DEF IInv
  <2> QED
    BY <2>1, <2>2 DEF Ordered
<1> QED
  BY <1>1, Invariance, PTL

(***************************************************************************)
(* Simulator::Stop for completed jobs never cuts off a job with iterations *)
(* left: the run ends by it only when every job is done.                   *)
(***************************************************************************)
THEOREM NoJobCutOff == Spec => []StopsWhenDone
<1>1. IInv => StopsWhenDone
  BY DEF IInv
<1> QED
  BY <1>1, Invariance, PTL

(***************************************************************************)
(* While the limit of a job stays set, no callback of a worker's socket,   *)
(* and no second pause, has an application hand over a packet.             *)
(***************************************************************************)
THEOREM ComputePhaseSilence == Spec => ComputePhaseIsSilent
<1> DEFINE Silent == \A j \in Jobs : m_maxBytes[j] # 0 /\ m_maxBytes'[j] # 0 =>
                       UNCHANGED m_totBytes[j]
<1>1. ASSUME IInv, [Next]_vars PROVE Silent
  <2> SUFFICES ASSUME NEW j \in Jobs, m_maxBytes[j] # 0, m_maxBytes'[j] # 0
               PROVE  m_totBytes'[j] = m_totBytes[j]
    OBVIOUS
  <2>0. Types /\ Ordered(j)
    BY <1>1 DEF IInv
  <2>1. ASSUME NEW k \in Jobs, CheckIterationProgress(k)
        PROVE  m_totBytes'[j] = m_totBytes[j]
    <3>1. m_maxBytes[k] = 0 /\ rx[k] \in Nat
      BY <1>1, <2>0, <2>1, CheckFindsPolled DEF CheckIterationProgress, Types
    <3>2. CASE PauseWorkers(k)
      BY <2>0, <3>1, <3>2, SetMaxBytesWrites DEF PauseWorkers
    <3>3. CASE UNCHANGED workers
      BY <3>3 DEF workers
    <3> QED
      BY <2>1, <3>2, <3>3 DEF CheckIterationProgress
  <2>2. ASSUME NEW k \in Jobs, StartCommunicationPhase(k)
        PROVE  m_totBytes'[j] = m_totBytes[j]
    <3>1. SetMaxBytes(k, 0) /\ 0 \in Nat
      BY <2>2 DEF StartCommunicationPhase
    <3> QED
      BY <2>0, <3>1, SetMaxBytesWrites
  <2>3. ASSUME NEW k \in Jobs, NEW w \in Workers[k], DataSend(k, w)
        PROVE  m_totBytes'[j] = m_totBytes[j]
    <3> DEFINE n == HandedOver(k, w, m_maxBytes[k])
    <3>1. m_totBytes' = [m_totBytes EXCEPT ![k][w] = n]
      BY <2>3 DEF DataSend
    <3>2. DOMAIN m_totBytes = Jobs /\ m_totBytes[k] \in [Workers[k] -> Nat]
      BY <2>0 DEF Types, IsCount
    <3>3. CASE k # j
      BY <3>1, <3>2, <3>3
    <3>4. CASE k = j
      <4>1. m_maxBytes[j] \in Nat /\ rx[j] \in Nat /\ sent[j][w] \in Nat
            /\ m_totBytes[j][w] \in Nat
        BY <2>0, <2>3, <3>4 DEF Types, IsCount
      <4>2. m_maxBytes[j] <= m_totBytes[j][w]
        BY <2>0, <2>3, <3>4, <4>1 DEF Ordered
      <4>3. n = m_totBytes[j][w]
        BY <2>0, <2>3, <3>4, <4>1, <4>2, HandedOverGrows
      <4> HIDE DEF n
      <4> QED
        BY <3>1, <3>2, <3>4, <4>3
    <3> QED
      BY <3>3, <3>4
  <2>4. ASSUME UNCHANGED workers PROVE m_totBytes'[j] = m_totBytes[j]
    BY <2>4 DEF workers
  <2> QED
    BY <1>1, <2>1, <2>2, <2>3, <2>4
       DEF Next, Stop, StopAtStopTime, Tick, SendWindowData, HandleRead, vars
<1>2. IInv /\ [Next]_vars => [Silent]_vars
  BY <1>1
<1> QED
  BY <1>2, Invariance, PTL DEF Spec, ComputePhaseIsSilent
=============================================================================
