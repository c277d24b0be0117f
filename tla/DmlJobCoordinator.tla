-------------------------- MODULE DmlJobCoordinator --------------------------
(***************************************************************************)
(* class DmlJobCoordinator of main-experiment.cc: it polls the parameter   *)
(* server of every job once a millisecond, counts an iteration when all    *)
(* its data are in, pauses the workers' applications for the compute time, *)
(* lets them go on, and ends the simulation when all jobs are done.        *)
(*                                                                         *)
(* Under it, each worker is an application that fills the send buffer of   *)
(* its socket up to its limit, and the transport is what AllReduce says of *)
(* it: a packet counts at the server once, after all workers sent it.      *)
(* Data are counted in packets and time in milliseconds.                   *)
(***************************************************************************)
EXTENDS Naturals, FiniteSets, FiniteSetsExt

CONSTANTS
  Jobs,
  Workers,         \* job -> its workers
  ModelSize,       \* job -> modelSizeBytes, in packets
  ComputeTime,     \* job -> computeTime, in ms
  MaxIterations,   \* g_maxIterations
  BufferSize,      \* of a worker's socket, in packets
  MaxPackets,      \* bound on the packets an application without limit hands over
  MaxTime          \* bound on the clock: it stops counting there

ASSUME CoordinatorAssumption ==
  /\ IsFiniteSet(Jobs)
  /\ \A j \in Jobs : IsFiniteSet(Workers[j]) /\ Workers[j] # {}
  /\ ModelSize \in [Jobs -> Nat \ {0}]
  /\ ComputeTime \in [Jobs -> Nat]
  /\ MaxIterations \in Nat \ {0}
  /\ BufferSize \in Nat \ {0}
  /\ MaxPackets \in Nat
  /\ \A j \in Jobs : MaxIterations * ModelSize[j] <= MaxPackets
  /\ MaxTime \in Nat \ {0}

VARIABLES
  now,                \* Simulator::Now, since startTime
  events,             \* the pending events of the coordinator
  currentIteration,   \* job -> iterations completed
  m_maxBytes,         \* job -> the limit of its workers' applications; 0 is none
  m_totBytes,         \* job -> worker -> packets given to the socket
  sent,               \* job -> worker -> packets that left the send buffer
  rx,                 \* job -> GetTotalRxJob
  acked,              \* job -> worker -> packets acknowledged
  g_allJobsCompleted,
  stopped,            \* Simulator::Run has returned
  timeIsUp            \* history: it did so because the duration was over

workers == <<m_maxBytes, m_totBytes>>
network == <<sent, rx, acked>>
vars == <<now, events, currentIteration, workers, network, g_allJobsCompleted,
          stopped, timeIsUp>>

\* An event that is due in so many milliseconds.
CheckIn(j, delay) == [call |-> "CheckIterationProgress", job |-> j, in |-> delay]
StartIn(j, delay) == [call |-> "StartCommunicationPhase", job |-> j, in |-> delay]
StopIn(delay) == [call |-> "Stop", in |-> delay]

EventsOf(j) == {e \in events : e.call # "Stop" /\ e.job = j}

\* ATPBulkSendApplication::SendData of worker w: what it has handed over
\* afterwards, its limit being given.
HandedOver(j, w, limit) ==
  LET end  == IF limit = 0 THEN MaxPackets ELSE limit
      full == sent[j][w] + BufferSize
  IN  Max({m_totBytes[j][w], Min({end, full})})

\* startTime: StartApplication has filled the send buffers.
Init ==
  /\ now = 0
  /\ events = {CheckIn(j, 1) : j \in Jobs}
  /\ currentIteration = [j \in Jobs |-> 0]
  /\ m_maxBytes = [j \in Jobs |-> 0]
  /\ m_totBytes = [j \in Jobs |-> [w \in Workers[j] |-> Min({BufferSize, MaxPackets})]]
  /\ sent = [j \in Jobs |-> [w \in Workers[j] |-> 0]]
  /\ rx = [j \in Jobs |-> 0]
  /\ acked = [j \in Jobs |-> [w \in Workers[j] |-> 0]]
  /\ g_allJobsCompleted = FALSE
  /\ stopped = FALSE
  /\ timeIsUp = FALSE
-----------------------------------------------------------------------------
\* SetMaxBytes of all workers of a job; each calls SendData.
SetMaxBytes(j, limit) ==
  /\ m_maxBytes' = [m_maxBytes EXCEPT ![j] = limit]
  /\ m_totBytes' = [m_totBytes EXCEPT ![j] =
                      [w \in Workers[j] |-> HandedOver(j, w, limit)]]

\* Mutant: an iteration counts one packet too early.
CollectedButOne(j) == rx[j] + 1 >= ModelSize[j] * (currentIteration[j] + 1)

\* The server has the data of the current iteration.
Collected(j) == rx[j] >= ModelSize[j] * (currentIteration[j] + 1)

\* Mutant: the workers may prepare the next iteration.
PauseWorkersLater(j) ==
  SetMaxBytes(j, ModelSize[j] * (currentIteration[j] + 2))

PauseWorkers(j) == SetMaxBytes(j, rx[j])

\* Mutant: the check goes on during the compute time.
ScheduleTwice(j, pending) ==
  /\ events' = pending \cup {StartIn(j, ComputeTime[j]), CheckIn(j, 1)}
  /\ UNCHANGED g_allJobsCompleted

\* What is scheduled after an iteration: the next communication phase or, when
\* this was the last iteration of the last job, the end.  Simulator::Stop
\* takes a delay, and is given now.
ScheduleAfterIteration(j, pending) ==
  \/ /\ currentIteration[j] + 1 < MaxIterations
     /\ events' = pending \cup {StartIn(j, ComputeTime[j])}
     /\ UNCHANGED g_allJobsCompleted
  \/ /\ currentIteration[j] + 1 = MaxIterations
     /\ \E k \in Jobs \ {j} : currentIteration[k] < MaxIterations
     /\ events' = pending
     /\ UNCHANGED g_allJobsCompleted
  \/ /\ currentIteration[j] + 1 = MaxIterations
     /\ \A k \in Jobs \ {j} : currentIteration[k] >= MaxIterations
     /\ events' = pending \cup (IF g_allJobsCompleted THEN {} ELSE {StopIn(now)})
     /\ g_allJobsCompleted' = TRUE

\* The early return for a job that is done guards every alternative: such a
\* job has no event.
CheckIterationProgress(j) ==
  LET pending == events \ {CheckIn(j, 0)} IN
  /\ ~stopped
  /\ CheckIn(j, 0) \in events
  /\ currentIteration[j] < MaxIterations
  /\ \/ /\ Collected(j)
        /\ PauseWorkers(j)
        /\ currentIteration' = [currentIteration EXCEPT ![j] = @ + 1]
        /\ ScheduleAfterIteration(j, pending)
     \/ /\ ~Collected(j)
        /\ events' = pending \cup {CheckIn(j, 1)}
        /\ UNCHANGED <<currentIteration, workers, g_allJobsCompleted>>
  /\ UNCHANGED <<now, network, stopped, timeIsUp>>

\* Mutant: the limit stays.
StartCommunicationPhaseLimited(j) ==
  /\ ~stopped
  /\ StartIn(j, 0) \in events
  /\ events' = (events \ {StartIn(j, 0)}) \cup {CheckIn(j, 1)}
  /\ UNCHANGED <<now, currentIteration, workers, network, g_allJobsCompleted,
                 stopped, timeIsUp>>

StartCommunicationPhase(j) ==
  /\ ~stopped
  /\ StartIn(j, 0) \in events
  /\ SetMaxBytes(j, 0)
  /\ events' = (events \ {StartIn(j, 0)}) \cup {CheckIn(j, 1)}
  /\ UNCHANGED <<now, currentIteration, network, g_allJobsCompleted, stopped,
                 timeIsUp>>

\* Simulator::Stop, because all jobs are done.
Stop ==
  /\ ~stopped
  /\ StopIn(0) \in events
  /\ stopped' = TRUE
  /\ UNCHANGED <<now, events, currentIteration, workers, network,
                 g_allJobsCompleted, timeIsUp>>

\* Simulator::Stop, because stopTime is reached.  The duration of a run is a
\* parameter of the experiment: it may be over at any time.
StopAtStopTime ==
  /\ ~stopped
  /\ stopped' = TRUE
  /\ timeIsUp' = TRUE
  /\ UNCHANGED <<now, events, currentIteration, workers, network,
                 g_allJobsCompleted>>

\* Time passes when no event is due.
Tick ==
  /\ ~stopped
  /\ \A e \in events : e.in > 0
  /\ now' = Min({now + 1, MaxTime})
  /\ events' = {[e EXCEPT !.in = @ - 1] : e \in events}
  /\ UNCHANGED <<currentIteration, workers, network, g_allJobsCompleted,
                 stopped, timeIsUp>>
-----------------------------------------------------------------------------
\* The transport.  A worker's socket sends what its window allows; a packet
\* is reduced and counted by the sink; its ACK has the application called
\* back (NotifySend), which fills the send buffer again.
SendWindowData(j, w) ==
  /\ ~stopped
  /\ \E n \in (sent[j][w] + 1)..m_totBytes[j][w] :
       sent' = [sent EXCEPT ![j][w] = n]
  /\ UNCHANGED <<now, events, currentIteration, workers, rx, acked,
                 g_allJobsCompleted, stopped, timeIsUp>>

HandleRead(j) ==
  /\ ~stopped
  /\ \A w \in Workers[j] : rx[j] < sent[j][w]
  /\ rx' = [rx EXCEPT ![j] = @ + 1]
  /\ UNCHANGED <<now, events, currentIteration, workers, sent, acked,
                 g_allJobsCompleted, stopped, timeIsUp>>

DataSend(j, w) ==
  /\ ~stopped
  /\ acked[j][w] < rx[j]
  /\ acked' = [acked EXCEPT ![j][w] = @ + 1]
  /\ m_totBytes' = [m_totBytes EXCEPT ![j][w] = HandedOver(j, w, m_maxBytes[j])]
  /\ UNCHANGED <<now, events, currentIteration, m_maxBytes, sent, rx,
                 g_allJobsCompleted, stopped, timeIsUp>>

Coordinate(j) == CheckIterationProgress(j) \/ StartCommunicationPhase(j)

Next ==
  \/ \E j \in Jobs : CheckIterationProgress(j)
  \/ \E j \in Jobs : StartCommunicationPhase(j)
  \/ Stop
  \/ StopAtStopTime
  \/ Tick
  \/ \E j \in Jobs : \E w \in Workers[j] : SendWindowData(j, w)
  \/ \E j \in Jobs : HandleRead(j)
  \/ \E j \in Jobs : \E w \in Workers[j] : DataSend(j, w)

\* The simulator runs the coordinator's event that is due next, and its clock
\* goes on.  Nothing is assumed of the transport, which may fail to deliver
\* (run system_skipped), nor that the duration is ever over.
Fairness ==
  /\ WF_vars(Tick)
  /\ WF_vars(Stop)
  /\ \A j \in Jobs : WF_vars(Coordinate(j))

Spec == Init /\ [][Next]_vars /\ Fairness
-----------------------------------------------------------------------------
\* Every job that is not done has exactly one event of the coordinator
\* pending, and a job that is done has none: no chain of checks is lost, and
\* none is started twice by a job that polls, computes and polls again.
OneEventPerJob ==
  \A j \in Jobs :
    Cardinality(EventsOf(j)) = (IF currentIteration[j] < MaxIterations THEN 1 ELSE 0)

\* Whatever the server has counted, and so whatever limit the coordinator has
\* derived from it, every worker has handed over: a worker never holds less
\* than its limit, so that pausing it does not make it send.
LimitReached ==
  \A j \in Jobs : \A w \in Workers[j] :
    /\ m_maxBytes[j] <= m_totBytes[j][w]
    /\ ModelSize[j] * currentIteration[j] <= m_totBytes[j][w]

\* Between the end of an iteration and the next communication phase no
\* application hands a packet to its socket, although the send buffers still
\* hold packets, which go on being sent, counted and acknowledged.
ComputePhaseIsSilent ==
  [][\A j \in Jobs :
       m_maxBytes[j] # 0 /\ m_maxBytes'[j] # 0 =>
         UNCHANGED m_totBytes[j]]_vars

Done(j) == currentIteration[j] = MaxIterations

\* The coordinator polls for data of job j, and the transport owes them: some
\* worker's socket has a packet that is not acknowledged.
WaitsForData(j) ==
  /\ ~stopped /\ ~Done(j) /\ ~Collected(j)
  /\ \E w \in Workers[j] : acked[j][w] < m_totBytes[j][w]

\* Only the transport can hold a job up.  Unless the duration is over, each job
\* completes all its iterations or waits for ever for packets its workers have
\* handed over: none is left paused, unpolled, or cut off by others that end
\* first or never end; and once all jobs are done the simulation ends.
JobsWaitOnlyForData ==
  /\ \A j \in Jobs : <>(timeIsUp \/ Done(j)) \/ <>[]WaitsForData(j)
  /\ <>(\A j \in Jobs : Done(j)) => <>stopped
=============================================================================
