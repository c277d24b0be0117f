----------------------------- MODULE ATPFabric -----------------------------
(***************************************************************************)
(* Packets on their way through the network that main-experiment.cc sets   *)
(* up: data from a worker to the parameter server of its job, the ACK from *)
(* there to all workers.  Every node looks up its own tables; every copy   *)
(* of a packet moves by itself.                                            *)
(*                                                                         *)
(* Packets do not change tables, so one packet is followed at a time.      *)
(* What a leaf switch aggregates is modelled by ATPSwitch and ATPSystem;   *)
(* here it may take in a data packet or send on a packet that holds any of *)
(* the job's workers under the leaf.                                       *)
(***************************************************************************)
EXTENDS ATPTopology, ATPJobTree, BagsExt

CONSTANTS
  Parameters,     \* the command-line parameters, for topoMode "auto"
  JsonParameters, \* ... and for topoMode "json"
  JsonJobs        \* the jobs the configuration files describe

VARIABLES
  g, topo,            \* the experiment
  m_networkRoutes,    \* node -> its unicast table
  m_multicastRoutes,  \* node -> its multicast table
  packet,             \* the packet under way, or the last one
  copies,             \* where its copies arrive, a bag of [node, iif]
  visited,            \* history: the bag of nodes they arrived at
  outcome             \* "moving", "absorbed", "delivered", or "lost"

network == <<g, topo, m_networkRoutes, m_multicastRoutes>>
vars == <<g, topo, m_networkRoutes, m_multicastRoutes, packet, copies, visited,
          outcome>>

\* What GenerateTopologyFromJson demands of one job: the right number of
\* workers, and the same number under each of their leaves.
JsonJobOK(p, job) ==
  LET leafOf(n) == getServerLeafIndex(p, n)
      count(l) == Cardinality({k \in DOMAIN job.workers : leafOf(job.workers[k]) = l})
  IN /\ Len(job.workers) = p.workersPerJob
     /\ \A n, m \in Range(job.workers) : count(leafOf(n)) = count(leafOf(m))

\* The routes it keeps: those of the parameter server's own leaf are skipped.
JsonRoutes(p, job) ==
  SelectSeq(job.routes, LAMBDA r : r[1] # getServerLeafIndex(p, job.ps))

\* What the files are assumed to say beyond that, which nothing checks: ps_leaf
\* is the leaf of the parameter server, which is a server of its own, workers
\* are not named twice and some are under other leaves, and the routes name
\* each of these leaves once.
WellFormed(p, job) ==
  LET leaves == {getServerLeafIndex(p, n) : n \in Range(job.workers)}
                  \ {getServerLeafIndex(p, job.ps)}
      routes == JsonRoutes(p, job)
  IN /\ job.ps \notin Range(job.workers) /\ IsInjective(job.workers)
     /\ leaves # {}
     /\ {r[1] : r \in Range(routes)} = leaves
     /\ Len(routes) = Cardinality(leaves)

JsonTopologies(p) ==
  LET jobs == {job \in JsonJobs : JsonJobOK(p, job) /\ WellFormed(p, job)} IN
  {[ps |-> [j \in Jobs(p) |-> js[j].ps],
    workers |-> [j \in Jobs(p) |-> js[j].workers],
    routes |-> [j \in Jobs(p) |-> JsonRoutes(p, js[j])],
    complete |-> TRUE] : js \in [Jobs(p) -> jobs]}

Init ==
  /\ \/ \E p \in Parameters :
          /\ g = p @@ [auto |-> TRUE]
          /\ topo = GenerateTopologyAuto(p)
     \/ \E p \in JsonParameters :
          /\ g = p @@ [auto |-> FALSE]
          /\ topo \in JsonTopologies(p)
  /\ topo.complete
  /\ m_networkRoutes = [n \in Nodes(g) |-> NetworkRoutes(g, topo, n)]
  /\ m_multicastRoutes = [n \in Nodes(g) |-> MulticastRoutes(g, topo, n)]
  /\ packet = [isAck |-> TRUE, job |-> 0, source |-> 0, holds |-> {}]
  /\ copies = EmptyBag
  /\ visited = EmptyBag
  /\ outcome = "delivered"
-----------------------------------------------------------------------------
dest == IF packet.isAck THEN GenerateMulticastAddress(packet.job)
        ELSE ServerAddress(topo.ps[packet.job])

\* Ipv4 sends a packet of server n to the device RouteOutput names.
Originate(n, p) ==
  LET to == IF p.isAck THEN GenerateMulticastAddress(p.job)
            ELSE ServerAddress(topo.ps[p.job])
      r == RouteOutput(m_networkRoutes[<<"server", n>>], to, NoDevice)
  IN /\ copies = EmptyBag
     /\ packet' = p
     /\ visited' = EmptyBag
     /\ IF r = NoRoute
        THEN copies' = EmptyBag /\ outcome' = "lost"
        ELSE /\ copies' = SetToBag({Peer(g, <<"server", n>>, r.interface)})
             /\ outcome' = "moving"
     /\ UNCHANGED network

SendData(j, n) ==
  Originate(n, [isAck |-> FALSE, job |-> j, source |-> n, holds |-> {n}])

SendMultiAck(j) ==
  Originate(topo.ps[j],
            [isAck |-> TRUE, job |-> j, source |-> topo.ps[j], holds |-> {}])

\* What FilterPacket may answer: only leaves aggregate, and ACKs pass.
Filters(node) ==
  IF node[1] # "leaf" THEN {"off"}
  ELSE IF packet.isAck THEN {"packet"} ELSE {"packet", "null"}

\* Whom a data packet may hold after it passed the node: the leaf its workers
\* are under may have merged others into it.
Merged(node) ==
  LET others == Range(LeafWorkers(g, topo, packet.job, node[2]))
  IN IF packet.isAck \/ node[1] # "leaf" \/ packet.holds \cap others = {}
     THEN {packet.holds}
     ELSE {packet.holds \cup more : more \in SUBSET others}

\* Local delivery: a switch has no end point for the packet, a server has one
\* for the data of the jobs it serves and for the ACKs of its workers' jobs.
HasEndPoint(node) ==
  /\ node[1] = "server"
  /\ IF packet.isAck THEN node[2] \in Range(topo.workers[packet.job])
     ELSE node[2] = topo.ps[packet.job]

\* A copy arrives at a node.
RouteCopy(c) ==
  \E filter \in Filters(c.node), holds \in Merged(c.node) :
    LET r == RouteInput(m_networkRoutes[c.node], m_multicastRoutes[c.node],
                        dest, c.iif, dest = AddressOf(g, c.node, c.iif), TRUE,
                        filter)
        onward == SetToBag({Peer(g, c.node, i) : i \in r.via})
        rest == (copies (-) SetToBag({c})) (+) onward
    IN /\ BagIn(c, copies)
       /\ copies' = rest
       /\ visited' = visited (+) SetToBag({c.node})
       /\ packet' = [packet EXCEPT !.holds =
                       IF r.callback = "ucb" THEN holds ELSE @]
       /\ outcome' =
            CASE outcome = "lost" -> "lost"
              [] outcome # "lost" /\ r.callback \in {"none", "ecb"} -> "lost"
              [] outcome # "lost" /\ r.callback = "lcb" ->
                   IF ~HasEndPoint(c.node) THEN "lost"
                   ELSE IF rest = EmptyBag THEN "delivered" ELSE "moving"
              [] outcome # "lost" /\ r.callback = "absorbed" -> "absorbed"
              [] outcome # "lost" /\ r.callback \in {"ucb", "mcb"} -> "moving"
       /\ UNCHANGED network

Next ==
  \/ \E j \in Jobs(g) : \E n \in Range(topo.workers[j]) : SendData(j, n)
  \/ \E j \in Jobs(g) : SendMultiAck(j)
  \/ \E c \in BagToSet(copies) : RouteCopy(c)

Spec == Init /\ [][Next]_vars
-----------------------------------------------------------------------------
(* Properties.                                                             *)

\* GenerateTopologyAuto keeps the constraints of its comment: no worker under
\* the leaf of its parameter server, the workers of a job next to each other
\* under each leaf, one spine for all of them, and no server with two parts.
\* The spine is the one ECMP takes towards the parameter server, as the comment
\* has it, unless the jobs wrap around the leaves at a number that is no
\* multiple of the spines.
PlacementSound ==
  g.auto =>
    /\ \A j \in Jobs(g) :
         LET servers == {topo.ps[j]} \cup Range(topo.workers[j]) IN
         /\ servers \subseteq Servers(g)
         /\ Cardinality(servers) = g.workersPerJob + 1
         /\ \A i \in Jobs(g) \ {j} :
              servers \cap ({topo.ps[i]} \cup Range(topo.workers[i])) = {}
         /\ \A n \in Range(topo.workers[j]) :
              getServerLeafIndex(g, n) # PsLeaf(g, topo, j)
         /\ \A r, q \in Range(topo.routes[j]) : r[2] = q[2]
         /\ \A l \in Leaves(g) :
              LET ws == LeafWorkers(g, topo, j, l)
              IN \A i \in DOMAIN ws : ws[i] = ws[1] + i - 1
         /\ g.numJobs <= g.nLeaves \/ g.nLeaves % g.nSpines = 0 =>
              \A r \in Range(topo.routes[j]) :
                r[2] = EcmpSpine(g, PsLeaf(g, topo, j))

\* ConfigureRouting means the ARO host routes to override the ECMP ones: data
\* of a job crosses no other spine than the one its route for the leaf names,
\* unless an earlier job has the same parameter server.
AroHonoured ==
  \A j \in Jobs(g) :
    /\ ~packet.isAck /\ packet.job = j
    /\ \A i \in 0..(j - 1) : topo.ps[i] # topo.ps[j]
    => \A node \in BagToSet(visited) :
         node[1] = "spine" =>
           <<getServerLeafIndex(g, packet.source), node[2]>>
             \in Range(topo.routes[j])

\* Data comes to its parameter server, and nowhere else, over at most one
\* spine and no node twice, unless a leaf takes it in.
DataArrives ==
  ~packet.isAck =>
    /\ outcome # "lost"
    /\ \A node \in BagToSet(visited) : CopiesIn(node, visited) = 1
    /\ Cardinality({n \in BagToSet(visited) : n[1] = "spine"}) <= 1
    /\ \A node \in BagToSet(visited) :
         node[1] = "server" => node[2] = topo.ps[packet.job]
    /\ copies = EmptyBag /\ outcome # "absorbed" =>
         <<"server", topo.ps[packet.job]>> \in BagToSet(visited)

\* The ACK comes to every worker of the job once, through the leaf above it,
\* whose slot it frees, once, and to no other server.
AckReachesEveryWorker ==
  packet.isAck /\ visited # EmptyBag =>
    LET servers == {n[2] : n \in {m \in BagToSet(visited) : m[1] = "server"}}
        workers == Range(topo.workers[packet.job])
    IN /\ outcome # "lost"
       /\ \A node \in BagToSet(visited) : CopiesIn(node, visited) = 1
       /\ servers \subseteq workers
       /\ copies = EmptyBag =>
            /\ servers = workers
            /\ \A n \in workers :
                 <<"leaf", getServerLeafIndex(g, n)>> \in BagToSet(visited)

\* The flat bit of a worker: its place in the order of the job's leaves and,
\* under a leaf, in the order of the job's workers.
Place(j, n) ==
  LET ws == topo.workers[j]
      before(m) ==
        \/ getServerLeafIndex(g, m) < getServerLeafIndex(g, n)
        \/ /\ getServerLeafIndex(g, m) = getServerLeafIndex(g, n)
           /\ \E i, k \in DOMAIN ws : ws[i] = m /\ ws[k] = n /\ i < k
  IN Cardinality({m \in Range(ws) : before(m)})

\* ConvertToFlatBitmap of the bitmaps a data packet carries names exactly the
\* workers whose data it holds, or all where a second level made bitmap1
\* full; only a packet that holds all is complete.
\* A job under a single leaf is left out: there every packet has all bits of
\* bitmap1.
FlatBitmapCorrect ==
  LET j == packet.job
      tree == InstallJobTree(FanInsOf(g, topo, j))
      flat == ConvertToFlatBitmap(tree,
                {myIdxInLeaf(g, topo, j, n) : n \in packet.holds},
                {leafLogicalIndex(g, topo, j, getServerLeafIndex(g, packet.source))})
  IN ~packet.isAck /\ Len(FanInsOf(g, topo, j)) > 1 =>
       /\ flat = {Place(j, n) : n \in packet.holds}
       /\ ConvertToFlatBitmap(tree, {}, tree.fullBitmap1)
            = {Place(j, n) : n \in Range(topo.workers[j])}
       /\ IsAggregationComplete(tree, flat)
            <=> packet.holds = Range(topo.workers[j])
=============================================================================
