# Verification of the ATP in-network aggregation transport

RICA is ns-3 with one module of its own, `src/contrib/atp`: a simulator of
in-network aggregation for distributed training. Workers send numbered gradient
packets; switches hold them in hashed *aggregator slots*, add up what belongs
together and send one packet upstream; the parameter server completes what the
switches left unaggregated and acknowledges every completed sequence number to
all workers by multicast. Everything else in the repository is vendored ns-3
(plus an ECN threshold in `PointToPointNetDevice`). Its main experiment places
training jobs in a leaf-spine fabric, installs their routes and multicast trees,
and drives them through rounds of communication and computation.

This directory holds TLA+ models of all of that, the TLC configurations that
check them on small instances, and TLAPS proofs about seven of them for every
value of their constants. `PROJECT.json` maps each definition to the lines it
translates and lists runs, mutants, findings, hazards and theorems.

## 1. Inventory

| Component | State | Operations | Talks to |
|---|---|---|---|
| `Aggregator`, `ATPL4Protocol` (switch) | slots (bitmap, count, owner), per-job slot count, per-job collision counter, two switches, table size | `FilterPacket`, `AggregatePacket`, `ProcessPacket`, `Reset`, `SetMaxAggregators`, `OnAggAcquire/Release` | called by `ATPStaticRouting::RouteInput` for every packet through a switch |
| `JobTree` | fan-ins and full bitmaps of a job's branches | `ConvertToFlatBitmap`, `IsAggregationComplete` | built by `InstallApplications`, read by the server socket |
| `ATPSocket` at the server, `JobAggregator` | aggregators per (job, seq), receive window per job, receive buffer, pending ACK events | `ForwardUp`, `AggregatePacket`, `IsDuplicatePacket`, `UpdateRcvWindow`, `SendMultiAck`, `Close` | packets from `ATPL4Protocol::Receive`; calls the sink back; sends ACKs |
| `ATPPacketSink` | bytes read, per job | `StartApplication`, `StopApplication`, `HandleRead` | reads the server socket |
| `ATPSocket` at a worker, `ATPTxBuffer` | pending, sent and retransmission queue, left bound, congestion windows, round marker, two timers | `Send`, `SendWindowData`, `ReceiveAck`, `CheckRetransmitTimeout`, `Connect`, `Close` | called by the application; calls it back when an ACK makes progress |
| `ATPBulkSendApplication` | bytes given to the socket, byte limit, sequence number, the packet a full buffer refused | `StartApplication`, `StopApplication`, `SendData`, `SetMaxBytes`, `DataSend` | the worker socket; its limit is set by the coordinator |
| Socket life cycle, demultiplexer of `ATPL4Protocol` | end points, sockets list, shutdown and connect flags, two timers | `CreateSocket`, `Bind`, `BindToNetDevice`, `Connect`, `ShutdownSend/Recv`, `Close`, `Receive` | applications; ns-3's end-point demultiplexer |
| `ATPStaticRouting` | unicast and multicast routes | `RouteInput`, `RouteOutput`, `LookupStatic`, table edits, interface and address notifications | passes packets through `FilterPacket` before it looks for a route |
| `DmlJobCoordinator` (main experiment) | iteration of each job, one event per job | `CheckIterationProgress`, `StartCommunicationPhase` | polls the sink, sets the workers' limits, ends the simulation |
| Congestion control: ECN in `PointToPointNetDevice`, marks and waits in the aggregators, window in `ATPTxBuffer` | queue length, tag fields, virtual window, straggler tallies, counters of the round | `Send`, `CountCongestion`, `UpdateStraggler`, `ProcessCongestion` | a loop through worker, leaf, server and back with the ACK |
| Experiment set-up (`GenerateTopologyAuto`, `GenerateTopologyFromJson`, `ConfigureRouting`, `InstallApplications`) | placement, routes and trees | run once before the simulation | everything above is configured by it |
| `ATPTag`, `ATPHeader`, factory, helpers, background traffic, output | none of their own | accessors, construction, files | - |

All of it runs in one thread under ns-3's event queue, so there are no data
races. What is hard is the *order of events*: packets and ACKs of several
sequence numbers and jobs meet in one slot; a timeout fires while its packet or
ACK is under way; aggregations complete, and are acknowledged, out of order;
links drop packets; buffers, windows and slot tables fill up; limits change and
applications stop in the middle; sockets are closed and bound again with timers
pending; polling, pausing and resuming of a job race with packets still in its
workers' buffers; and a dozen loops over indices have to agree on interfaces,
addresses and bits. `hazards` in `PROJECT.json` lists these at the
lines where they bite.

What makes the parts correct:

- switch: a slot belongs to one (job, seq) from claim to release, sits where the
  hash looks for it, and the per-job counts agree with the slots;
- job tree: the flat bitmap names exactly the workers whose data a packet holds;
- server: each sequence number is delivered at most once and only when complete;
  an ACK is sent only for what was delivered; the sink counts what it was given;
- worker: sequence numbers and packet ids agree, queues stay ordered, no wake-up
  is lost, nothing unacknowledged is forgotten, the window does not move back;
- congestion: waits and round trips that are set against each other belong
  together, marks reach the workers, the window is cut only for a reason and can
  always recover;
- routing: a look-up finds the best route, routes follow the interfaces;
- sockets: no event of a closed socket is left that would read its end point,
  retransmission goes on until it is shut down, no two end points are the same;
- set-up: data reaches its server over the intended spine, an ACK reaches every
  worker once, the bitmaps name the right workers;
- coordinator: one event per job, pausing silences the applications, and only
  data the transport owes can hold a job up;
- together: an all-reduce, in which losses delay and do not corrupt.

## 2. Modules and how they correspond to the code

```
ATPAggregator ---> ATPSwitch ---> MCATPSwitch
   |    |
   |    +--------> ATPSystem <--- ATPTxBuffer ---> ATPSender
   |                ^   |  ^
   |   ATPReceiver -+   |  +---- MCATPSystem
   |    ^     |         +---- implements AllReduce
   |    |   MCATPReceiver
   |  ATPJobTree -------------+
   v    v                     v
  ATPCongestion      ATPTopology ---> ATPFabric ---> MCATPFabric
        |                 ^
 MCATPCongestion   ATPStaticRouting ---> ATPHost ---> MCATPHost

 DmlJobCoordinator ---> MCDmlJobCoordinator

 M ---> MProofs for M = ATPSwitch, ATPSender, ATPReceiver, ATPSystem,
                        ATPCongestion, ATPHost, DmlJobCoordinator, ATPTxBuffer
 ATPTxBufferProofs ---> ATPSenderProofs, ATPSystemProofs,
                        ATPCongestionProofs, ATPHostProofs
 ATPReceiverProofs, ATPSenderProofs ---> ATPSystemProofs
```

**ATPAggregator** is one slot and one packet. `FilterPacket`, `AggregatePacket`,
`ResendPacket`, `ProcessPacket` take a slot and a packet and return the slot
afterwards, the packets handed back to routing (none or one) and the accounting
event. A bitmap is the set of its one-bits. Packets carry a ghost field `data`,
the contributions a real payload would sum up, so that what a bitmap *claims* can
be compared with what was really added. It is a set: that a contribution is missing
or foreign shows, that it was added twice does not. `m_total` and `m_ecn` of a slot, which
nothing reads, the stored packet and the timestamps are left out.

**ATPSwitch** is the whole table of one switch: `Filter(p)` is the detour
`RouteInput` makes through `FilterPacket`, with `OnAggAcquire`, `OnAggRelease`
and the collision counter; `SetMaxAggregators` resizes and clears. Packets arrive
in any order, late or repeated. The hash is a constant operator.

**ATPJobTree** is `ConvertToFlatBitmap` with its 32-bit width and the tree
`InstallApplications` builds. `ATPFabric` compares it with a definition that
counts workers, for every job it places.

**ATPReceiver** is the receiving half of `ATPSocket` with the sink. `ForwardUp`
is the whole handler: completeness test, `AggregatePacket`, duplicate test,
receive window, delivery, the callback into `HandleRead` and the scheduling of
the ACK. `m_rxAvailable` is unsigned (`% RxModulus`). `delivered` and `acked` are
history variables. The loop of `UpdateRcvWindow` is `FirstMissing`, the first
number that does not wait. `TruthfulArrivals` is what one theorem asks of the
network: a packet holds the data of the workers its bitmaps name. TLC evaluates
it for the packets of the run, and ATPSystem shows of a network how it comes
about.

**ATPTxBuffer** holds the operations of the send buffer as operators and
**ATPSender** the worker around it: application, socket, both timers. The
application counts `m_seqNum` for the packets it creates and keeps the one a full
buffer refused; `seqNums` are the numbers in the tags of those the buffer took,
which counts its ids on its own. Otherwise the packet id stands for the packet; `expired` stands for `m_lastSentTime`, which the code
never writes again after the first transmission. `ProcessCongestion` keeps its
control (once per round, floor of one packet, cap `MaxCwnd`); the floating-point
arithmetic is left open here, so every window in range may follow; ATPCongestion
has it.

**ATPSystem** composes them: workers, a leaf switch per group of workers, a
second switch on the way to the server (the server's own leaf in the main
experiment, a second aggregation level in `atp-v1-newtopo.cc`), the server
(an `INSTANCE` of ATPReceiver) and FIFO links that may lose packets. Each action
is one event: a packet arriving at the next node, a timer, a scheduled ACK.
`Faults` are the kinds of misfortune an instance has (a data packet lost, an ACK
lost, a timeout while something is still on its way), `MaxFaults` bounds how many
there are, `UpCapacity` and `LinkCapacity` what is on a worker's link and on the
others.
`WorkersFit` says that the workers fit into the 32 bits of a bitmap.
`FlatNumbering`, that the names workers have in the model are then the positions
`ConvertToFlatBitmap` gives them, follows from it (`NumberingIsFlat` in
ATPSystemProofs); TLC evaluates both for the instances.

**AllReduce** is the abstract promise: workers submit pieces, a piece is reduced
over all workers and handed over once, and a worker forgets it only after that
piece, or a later one that was in one window with it (`UpTo`), was handed over. The
weaker promise is the one the code keeps: `ProcessUnorderedAck` takes all packets
below the one acknowledged out of the queue. With a window of one piece the two
are the same. The refinement maps `submitted` to the packets a worker has ever sent, `result`
and `handed` to what the server delivered and the sink counted, `confirmed` to
the packets that left `m_sentQueue`.

**ATPCongestion** is the feedback loop that sets the window, followed for one
worker, the *observer*. Its first packet goes hop by hop: the leaf's slot (the
`FilterPacket` of ATPAggregator with time stamps, marks and waits), the server's
`JobAggregator`, the ACK, then `CountCongestion`, `UpdateStraggler` and
`ProcessCongestion`. Later packets share nothing with it but the window, so of
their ACKs only what `WaitWithinRtt` shows of the first is assumed. Devices of
switches mark or not (queue lengths are left open); the experiment never enables
ECN on those of hosts. `m_virtualAcw` is kept in multiples of `1/Scale`; where the code multiplies by a factor that averages over
the past, any value within the range of the factor may follow, and `m_gamma` is
represented by the largest sample, which bounds it. `m_lcw` equals `m_acw`
throughout, and the collision flag does not enter the window.

**ATPStaticRouting** holds the tables and look-ups as operators over addresses of
`AddrBits` bits: `LookupStatic` as a fold over the routes with the code's
variables, `LookupMulticast`, `RouteInput` with its callbacks, and what interface
events do to the routes (`EraseRoutes` is the loop that erases). **ATPHost** is a
node: first its tables under configuration calls and interface and address
events in any order, then, over the table `RunningRoutes`, its sockets from
creation to close with both timers. Requests that fail and only set `m_errno`
are left out, as are connected peers in the demultiplexer, which ATP sockets do not
use. `Lookup` has its three cases: the packet's own address, any address, and the
address of a network of the interface that the packet's address is in. `Bind()`,
unlike `Bind(address)`, does not ask whether the socket has an end point
(`BindAnyPort`): the old one stays in the demultiplexer, known to no socket.
`byHand`, `takenAway`, `stopped`, `reconnected` and `orphaned` are history.

**ATPTopology** is the set-up of the main experiment as pure operators:
placement, addresses, unicast routes in the order they are installed, multicast
trees. **ATPFabric** starts from any topology the automatic placement or a
configuration file gives (`JsonJobOK` is what the code demands of a file,
`WellFormed` what is assumed of it besides) and sends one packet at a time through the tables, data
of a worker or the ACK of a server; a leaf may absorb the packet or merge it with
those of its other workers. `visited` and `copies` are bags, so that duplicated
copies show.

**DmlJobCoordinator** is the coordinator with the applications it drives. Data
are counted in packets and delays in milliseconds; the transport below keeps the
safety part of what AllReduce promises, and may stop delivering at any time. `Simulator::Stop` takes a delay, and the code gives it the
current time: the model does the same.

## 3. Runs

| Run | Shows |
|---|---|
| `switch` | `TypeOK`, `SlotHomed`, `AggCountExact`, `NoSlotStealing` for two jobs on one or two slots |
| `receiver` | `TypeOK`, `AtMostOnce`, `DeliveredComplete`, `AckImpliesDelivered`, `SinkCountExact` |
| `sender` | `TypeOK`, `SeqNumIsPacketId`, `QueuesInOrder`, `NoLostWakeup`, `OutstandingBounded`, `UnackedRetransmitted`, `LeftBoundMonotone` |
| `system` | `TruthfulBitmaps`, `DeliveredOnceAndComplete`, `AckedIsDelivered` and the refinement `ImplementsAllReduce`, with windows of one and two and a lost data packet or ACK |
| `system_live` | `EventuallyAllAcked` with a window of one and a lost data packet or a premature timeout |
| `coordinator` | `OneEventPerJob`, `LimitReached`, `ComputePhaseIsSilent` and, under fairness, `JobsWaitOnlyForData` |
| `congestion` | `WaitWithinRtt`, `VirtualWindowSound`, `StragglersConsistent`, `MarksEchoed`, `ShrinksForAReason` |
| `fabric` | `PlacementSound`, `AroHonoured`, `DataArrives`, `AckReachesEveryWorker`, `FlatBitmapCorrect` |
| `host` | `LookupFindsBest`, `RoutesFollowInterfaces`, `EndPointsDiffer`, `SendsHaveEndPoint`, `RetransmissionKept` |
| `system_skipped` | violated: with a window of two a lost packet can stop the job for good |
| `system_two_level` | violated: a retransmission takes second-level bits for first-level ones |
| `host_metric` | violated: of two host routes to one address the first is used, whatever its metric |

What the newer runs show that is not obvious from the code:

- `WaitWithinRtt`: the wait an ACK reports and the time stamp its round trip is
  measured from come from different packets, passed on by two aggregators. They
  fit because each aggregator keeps the stamp of its *first* packet. So `m_gamma`
  never exceeds one, the cut by `1 - m_gamma/2` at most halves the window, and
  `m_virtualAcw`, which the code does not clamp there, stays at half a packet or
  more (`VirtualWindowSound`): growth never restarts from zero or below.
- `ComputePhaseIsSilent`: pausing by a limit stops the *applications* at once;
  what their sockets hold is still sent during the computation phase.
  `LimitReached` says that the limit never lies above what a worker has handed
  over already, which is why setting it does not make a slow worker send.
- `JobsWaitOnlyForData`: nothing is assumed of the transport, which for windows
  above one may stop for good (`system_skipped`). If a job does not complete, it is
  because it polls for packets its workers' sockets still hold; none is left
  paused without an event, and none is cut off when others end.
- `AckReachesEveryWorker`: over the three multicast trees every worker of a job
  gets exactly one copy, through the leaf whose slot it frees.
- `SendsHaveEndPoint`: `DoSendTo` reads `m_endPoint` unchecked; it is there
  whenever a window event is pending, and whenever the timeout check can find
  something, except after `Close` followed by `Connect`, or a second `Bind()` that
  found no free port (section 5).
- `EventuallyAllAcked` is for a window of one packet and without lost ACKs: with a
  larger window it does not hold (`system_skipped`), and a worker whose copy of an
  ACK is lost retransmits for ever, since the server acknowledges a number once.

The three violated runs are findings; each states what a comment or the module's
README says, and the counterexample is what the code does:

1. *Skipped packet* (`atp-tx-buffer.cc:284`). An ACK for a later packet takes
   the earlier ones out of `m_sentQueue` and resends them once, without the
   resend bit. A leaf slot that holds the worker's bit drops the copy, and no
   timeout covers the packet any more.
2. *Two levels* (`atp-l4-protocol.cc:330`). A retransmission at edge level 0
   merges the bits of whatever slot it matches into `bitmap0`; at the second
   level these are bits of `bitmap1`.
3. *Metric of host routes* (`atp-static-routing.cc:299`). The loop of
   `LookupStatic` ends at the first route with a mask of 32 bits, before metrics
   are compared, while the header documents the metric of `AddHostRouteTo` as
   deciding between several routes to one destination.

Every property of a passing run has a mutant in `PROJECT.json`: a plausible slip
in one mapped definition under which TLC finds the property violated.

### Bounds and why they are enough

- `switch`: two jobs, two sequence numbers, two bits and tables of one and two
  slots give agreeing and colliding hashes, complete and incomplete slots, and
  every branch of `FilterPacket`. `MaxCollisions` caps a statistics counter.
- `receiver`: two leaves with two and one workers let an aggregation complete
  from single packets, leaf results and merged retransmissions, in every order
  and with repetition; three sequence numbers let two wait behind the first.
  Sequence number 0 is not sent by the bulk sender and is there so that
  `rcvNext` can move at all. `MaxAckEvents` caps events waiting for one time step.
- `sender`: a buffer of two, windows up to three and six packets: the buffer
  fills and the window opens, shrinks and wraps round its round marker. The
  proofs cover every other size.
- `system*`: two leaves with two and one workers are the smallest tree with a
  leaf that must aggregate and one that need not; one slot makes every two
  sequence numbers collide; two packets (three in `system_skipped`) are the
  least for reordering. One fault is enough for each kind of recovery
  (`system_two_level` needs two). `UpCapacity` lets a worker have both packets of a
  window of two on its link, `LinkCapacity` bounds how far the switches fall
  behind. A timeout on a silent network is not bounded. A premature timeout is in
  `system_live`, lost ACKs are in `system`; the proofs have all of them together,
  in any number.
- `coordinator`: two jobs of one and two packets per iteration, two iterations,
  one and two workers and a buffer of one packet: iterations overlap, one job
  computes while the other polls, a worker lags by a full buffer, and either job
  finishes last. `MaxPackets` bounds what an unlimited application hands over and
  exceeds every target; `MaxTime` is where the clock stops counting.
- `congestion`: three ticks are enough for a wait of two and a round trip of
  three; `MaxUp` = 1 packet between leaves and server is enough since the server
  takes them one after the other; windows up to three packets have rounds of
  one, two and three ACKs. `Scale` = 6 is divisible by all of them.
- `fabric`: one to four jobs over two or three leaves and one or two spines, with
  one or two workers per leaf, reach every branch of the placement, the reuse of
  a leaf included; jobs of a configuration file are taken from all placements of
  two and four workers on six servers with every choice of spines, alone and
  in pairs that may share a parameter server.
- `host`: addresses of three bits have default, network, host and multicast
  routes, competing metrics and competing masks; three routes and two addresses
  per interface let each kind displace another; two sockets, one of which sends,
  compete for one fixed and one ephemeral port. Sockets are created over one table
  (`RunningRoutes`, `RunningAddrs`) and bound to any address or to
  `BindAddresses`, packets come for `Destinations`, and at most one device is
  named in `BindToNetDevice`, which is also assumed in the proofs.

Deadlock is checked for `switch`, `congestion`, `fabric` and `host`, which never
stop. The others may: a worker or a sink is stopped, all packets have been
acknowledged, the simulation has ended.

### Fairness

`FairSpec` states that events which the simulator has scheduled are run: links
deliver, ACK events fire, the timeout check comes round again (it reschedules
itself as long as the socket is open), and a pending window is sent. All of it is
weak fairness but for `Timeout`: in the *model* the timeout is disabled again and
again while other packets are on their way, because a premature one counts as a
fault; in the code its time is fixed when it is scheduled and no other event can
postpone it. Nothing is assumed about losses.

The coordinator's `Fairness` says that the simulator runs the event that is due
(weak fairness of `Tick`, `Stop` and each job's event) and nothing of the
transport or of the applications. The duration of the experiment need never be
over.

## 4. Proofs

TLAPS proves, for every value of the constants that satisfies the named
assumptions of each module, what follows. 33 of the 40 properties the passing
runs check are theorems.

**ATPSwitchProofs** (from `SwitchAssumption`: sequence numbers start at 1, the
hash stays in the table, data packets have bits set). The inductive invariant
is the type invariant, `SlotHomed`, `AggCountExact` and, while counting is
switched off, that all counts are zero (`AggCountExact` says nothing then).
`SlotHomed` is what makes it inductive: an empty slot is owned by sequence number
0, which no packet carries, so an ACK or retransmission can never match, and
release, a slot twice. `FilterPacketSlot` says this for one call and one slot;
the table and the counts follow by cardinality. Theorems: `TypeCorrect`,
`SlotsAreHomed`, `AggCountIsExact`, `SlotsAreNotStolen`.

**ATPSenderProofs** (from `SenderAssumption`). The inductive invariant `IInv` is

- `TypeOK`;
- `Good(tx)`: pending packets are the numbers right after the highest one sent,
  the sent queue is strictly increasing above the left bound, the buffer is not
  overfull, and nothing is further ahead than the largest window;
- `Counted(tx)`: the numbers in the tags are the ids, the application has created
  as many packets as the buffer took and the one it refused, and that one carries
  the number that is next;
- `Awake`: a pending packet in the window implies a scheduled event, before the
  start as well as while connected, since `Connect` and `StartApplication` are
  separate;
- `Held(tx, acks)`: a sent packet above every ACK is still in the sent queue.

No part is inductive alone: the window bound needs the order of the queues (an
ordered ACK moves the bound to the head of the sent queue, which must lie above
it), and the order needs consecutive numbering. One lemma per buffer operation
says what it does to `Good` (`AddPacketsGood`, `SendWindowGood`,
`OrderedAckGood`, `UnorderedAckGood`, `CongestionGood`, `TimeoutGood`);
`SendDataKeeps` covers the application's send loop that ends most handlers.
Theorems: `TypeCorrect`, `SeqNumsAreIds`, `QueuesStayInOrder`, `WakeupsAreKept`,
`OutstandingIsBounded`, `UnackedIsHeld`, `LeftBoundNeverMovesBack`.

What the buffer operations do to the queues as such (a front part is cut off, a
suffix stays, numbers are appended) is in **ATPTxBufferProofs**, shared with the
system. It also holds what the other proofs need of numbers: induction in the form
of a set that contains 0 and with each number the next (`Upwards`, from the least
number outside it), and sums over a map (`Total`, with `TotalIsSum`, `SumsAgree` and
`TotalChanges`: the sum does not depend on the order in which it is taken, and
changes by what one entry changes).

**ATPReceiverProofs** (from `ReceiverAssumption`). `AtMostOnce` and
`AckImpliesDelivered` are about histories, the code decides by the receive window:
`Remembered` ties them together. It says that a window takes for duplicates
*exactly* the sequence numbers delivered, that what waits lies behind `rcvNext`,
and that it is finite, without which `FirstMissing` would name nothing. `IInv` is
`TypeOK`, `Remembered` and the three properties. The two places that deliver, a
packet complete on arrival and one that completes an aggregator, are one lemma,
`CompleteKeeps`: `IsDuplicatePacket` is tested first, so what is delivered was not
remembered before and is afterwards (`UpdateRemembers`). Theorems: `TypeCorrect`, `DeliveredAtMostOnce`,
`AcksImplyDelivery`, `SinkCountIsExact` (sums as cardinalities over the queue) and,
given `TruthfulArrivals`, `DeliveriesAreComplete`, for which the invariant also
says that an aggregator's data are those of its bitmap (`Truthful`).

**ATPSystemProofs** (from `SystemAssumption` and `WorkersFit`) puts the parts
together. `NumberingIsFlat` shows first that the two running sums over the branches,
the offsets of `ConvertToFlatBitmap` and those by which the model names workers, are
the same (`OffsetIsTotal`, `BelowGrows`, `OffsetIsBelow`). The lemmas of the server are used through an instance of
ATPReceiverProofs; those about one call of the server (`ForwardUpIInv`,
`SendMultiAckIInv`, `NewSocketIInv` and their truthful counterparts) are stated for
*any* packet, so that they hold for the packets a network happens to bring.

- `IInv`: the types of buffers, slots and links, the server's own invariant, and
  that every ACK on any of the three hops, and every left bound, is of a number
  delivered. From it, for one or two aggregating levels, any windows and any losses:
  `AcksAreDelivered` and `ServerDeliversOnce`.
- `Honesty`: a packet on its way to a leaf speaks for workers of that leaf, carries
  exactly their data, and has neither passed an edge nor collided; behind the leaf
  it has passed the edge, collided or is a resend, and so goes through the
  second switch, whose slots stay empty, unchanged; a leaf's slot holds exactly the
  data of its bits, for its own sequence number; and the server is truthful. Each
  part is needed: without the flags the second switch could merge a packet, without
  the slots' sequence number a resend could be merged with another number's data.
  From both, `BitmapsAreTruthful` and `DeliveriesAreOnceAndComplete`.
- `Pace`: every worker's buffer is `Fit`, that is, its queues are in order and it is
  no more than the largest window ahead of its left bound (`Good` of
  ATPSenderProofs, used through an instance `W` of that module); nothing on a link,
  in a slot or at the server holds data that was not sent (`NetworkWithin`,
  `ServerWithin`); and the sink has read what was delivered. With `IInv` and
  `Honesty` it is inductive, and `SystemImplementsAllReduce` follows: the initial
  states of the network are initial states of AllReduce, `SendWindow` is a `Submit`,
  `ServerReceive` a `Reduce` when it completes a number, an ACK a `Confirm`, and
  every other step changes nothing of what AllReduce sees. That a reduction comes
  after all submissions is where the parts meet: what is delivered is complete
  (`AllWorkersExpected`), and what is in it was sent (`DoneIsSent`). That a worker
  forgets only what lies less than a window below a piece handed over is where the
  order of the queues counts: all packets kept are above the left bound, and none
  sent is further above it than a window (`OrderedAckFit`, `UnorderedAckFit`).

`BitmapsAreTruthful`, `DeliveriesAreOnceAndComplete` and the refinement have two
conditions, and both are the code's. `~Hierarchical`: with a
second aggregating level the property is false (`system_two_level`). `Len(FanIns)
>= 2`: with all workers under one leaf a single worker's packet counts as complete
(section 5). All three hold for any set of windows that has a largest member, which
the cap of `ProcessCongestion` gives it.

**DmlJobCoordinatorProofs** (from `CoordinatorAssumption`). Per job, the invariant
says in which phase it is (polled and without a limit, computing, or done) and
that exactly the event of that phase is pending; and it orders the counters along
the way of a packet: limit and completed iterations below what the server counted,
that below what each worker sent, that below what it handed over. `LimitReached`
alone is not inductive because the limit is computed from the server's count.
`ComputePhaseIsSilent` then follows from `LimitReached` for each kind of step.
Theorems: `OneEvent`, `LimitIsReached`, `ComputePhaseSilence` and `NoJobCutOff` (the
simulation ends early only when every job is done), the safety part of
`JobsWaitOnlyForData`.

**ATPHostProofs** (from `HostAssumption`). The demultiplexer has the end points of
the sockets, and perhaps others that `Bind()` left behind (`Agree`), no two without
a device share address and port (`EndPointsDiffer`), and each socket by itself is
`Good`: who has packets was connected, who was connected and never stopped has its
timeout check pending, who has no end point and was not deprived of it by `Bind()`
has no window event pending and, if something is still in its sent queue, is shut
down both ways. The last clause is what makes `Close`, which drops the end point and
leaves the queue, safe until `Connect`. Theorems: `EndPointsAreDistinct`,
`SendsFindEndPoint`, `RetransmissionGoesOn`.

The tables have an invariant of their own, `TableInv`: types, no route over an
interface that is down unless it was added by hand, and a route to the network of
every address of an interface that is up unless it was taken away. The code's loops
are folds; each is first brought into the form of a run, `it[0] = base` and
`it[k] = step(it[k-1], s[k])` (`LookupRuns`, `DefaultRuns`, `EraseRuns`,
`NotifyUpRuns`, `SetIpv4Runs`), about which induction on `k` shows what holds
after each pass. For `LookupStatic` this is that the route kept beats all routes seen
(`ConsiderKeepsBest`): longest prefix, then lowest metric, except among
host routes, where the first is kept whatever its metric (`host_metric`). Theorems:
`LookupIsRight`, for every table the node can get into, and `RoutesStayInStep`.

**ATPCongestionProofs** (from `CongestionAssumption`). Along the path of the first
packet every record with a time stamp keeps `waiting <= now - timestamp` and
`timestamp <= first arrival <= now`, for slots, packets, the server's aggregator and
the ACK; this gives `gamma <= 2` (one, in half units), from which the arithmetic of
`ProcessCongestion` keeps the virtual window at half a packet or more. A mark that
was seen is in the aggregator or, afterwards, on the ACK; marks counted in a round
come from a marked ACK of the round. For the stragglers, the counter is the total of
the map, no tally exceeds the maximum, and the position blamed has it; the last two
need each other to survive a tie in `UpdateStraggler`. Theorems: `WaitsWithinRtt`,
`WindowStaysSound`, `EveryMarkEchoed`, `ShrinkHasAReason`, `StragglersStayConsistent`.

Only model-checked:

- everything under fairness (`EventuallyAllAcked`, `JobsWaitOnlyForData`), which this
  prover does not handle;
- the five invariants of `ATPFabric`: placement and routes are built by nested folds
  over sorted sets, and what reaches a node is counted in bags. Each loop would need
  its own run and induction as in ATPHostProofs, with the indices of one loop in the
  bounds of the next.

## 5. Not modelled, and why

- Time: timeouts may come at any moment after sending, events in any order their
  dependencies allow. Rates, such as a timed-out packet being resent at every
  check since `m_lastSentTime` is never updated, need a clock.
- `ATPTag`/`ATPHeader` serialisation, the socket factory, helpers, tracing and
  output: no state, or not read by the protocol.
- Background traffic and the text of configuration files: traffic appears as
  queues that may be long or not, files as the topologies they may describe.
- `DoDispose`, `Destroy` and `PrintRoutingTable`: they run when the simulation is
  over, or change nothing.
- The accept and close callbacks of the sink and its header reassembly, which ATP
  sockets never reach.
- ns-3 itself, by far the largest part of the repository: what ATP relies on
  (event order, `Stop`, end-point look-up, address masks, interface events,
  drop-tail loss) is modelled from its source where the models use it.

Observed while translating, without a run of their own:

*Server.* Sequence numbers start at 1 and `rcvNext` at 0, so `rcvNext` never
moves and every delivered number stays in `outOfOrderSeqs` (harmless but for
memory; `AtMostOnce` holds). Aggregators started by late copies of a finished
sequence number stay in the map. Closing a socket cancels only the ACK event
scheduled last. ACKs are sent only when an aggregation completes
(`atp-socket.cc:1122`), so a worker whose copy was lost retransmits for ever. The
space check of the receive buffer is unsigned and never fails (line 1105). A job
whose workers share one leaf has `fullBitmap1 = 0b1`, which every packet carries,
so that a single worker's packet counts as complete (`atp-socket.h:108`);
`FlatBitmapCorrect` leaves such jobs out.

*Congestion.* The comment at `point-to-point-net-device.cc:533` says that only
data packets are marked; ACKs are as well, and `ShrinksForAReason` takes such a mark
for a reason. Data reaches the leaf unmarked in the model, so marks lost in a leaf
slot are not seen. With leaf aggregation `lastbitmap1`
stays 0, so a straggler under a leaf never recognises itself and cuts its window
like the others. A send buffer below one packet makes `m_maxCwnd` zero.

*Coordinator.* `Simulator::Stop(now)` (`main-experiment.cc:636`) takes a delay,
so the simulation runs to twice the current time, and throughput computed from
the end of the run is not that of the jobs.

*Set-up.* `PlacementSound` does not cover the balance of load over leaves that the
comment at `main-experiment.cc:671` asks for. ARO routes win over ECMP ones only by
being installed first: the first of several host routes is taken whatever its
metric. The comment on aligning ARO
with ECMP holds only if there are no more jobs than leaves, or the spines divide
the leaves. In a configuration file, a job without routes gets no ACKs, a second
job with the same parameter server has its ARO routes shadowed, a leaf listed
twice duplicates ACKs, and a worker under its server's leaf is not refused.

*Sockets.* `Close`, then `Connect` while packets are in the sent queue: the
timeout check dereferences a null end point. `Close`, then `Send` opens the
socket again without its timer and outside `m_sockets`. Both shutdowns followed
by `Close` leave the end point allocated. `Send` after `ShutdownSend` succeeds on
an unbound socket, because binding clears the flags. `Bind()` on a socket bound
to a device dereferences null when no port is free, and on a socket that has an end
point leaves that one in the demultiplexer for good; if no port is free, the socket
is left without one, with its timers pending. Two end points may match one packet,
although the error message of the demultiplexer speaks of sockets without devices
and `atp-l4-protocol.cc:430` asserts that there is one: wildcards at any address and at the
address of a network, on one port, or two of which one is bound to a device. The
demultiplexer then aborts (`ipv4-end-point-demux.cc:350`), and the model takes no
step. `EndPointsDiffer` is what holds.

*Routing.* `NotifyRemoveAddress` also removes the connected route of another
address in the same network. A host address gets a route from `NotifyAddAddress`
but not from `NotifyInterfaceUp`. Multicast routes survive their interface going
down.

## 6. Plan

Done: switch, job tree, server, worker, system, abstract all-reduce, congestion
loop, routing and sockets of a host, set-up of the fabric, coordinator; the
proofs of switch, worker, server, system, coordinator, host and congestion loop, and
that the system implements the all-reduce for every choice of windows.

Next, in this order:

1. `PlacementSound`, the least nested of the invariants of ATPFabric, on which the
   others depend; then `FlatBitmapCorrect`, for which `NumberingIsFlat` is half the
   way.
2. Runs that set the comment on marking (`point-to-point-net-device.cc:533`) and
   the assertion on end points (`atp-l4-protocol.cc:430`) against the code, as
   `host_metric` does for the metric.
3. An instance of `system` with three packets and windows up to three, for ACKs that
   pass over more than one packet.
