---------------------------- MODULE ATPTopology ----------------------------
(***************************************************************************)
(* The set-up of main-experiment.cc: where GenerateTopologyAuto puts the   *)
(* parameter servers and workers of the jobs, the position in the bitmaps  *)
(* that InstallApplications gives a worker, and the routing tables of      *)
(* ConfigureRouting.                                                       *)
(*                                                                         *)
(* g holds the command-line parameters numJobs, workersPerJob, nSpines,    *)
(* nLeaves and nServersPerLeaf, and chunkSize.  Jobs, leaves, spines and   *)
(* servers are numbered from 0.  A node is <<kind, number>>.  The          *)
(* interfaces of a spine are numbered 1 + leaf, those of a leaf 1 + spine  *)
(* and then 1 + nSpines + the place of the server under the leaf; a server *)
(* has interface 1.                                                        *)
(***************************************************************************)
EXTENDS ATPStaticRouting, FiniteSets

\* The numbers below n, in order.
UpTo(n) == [i \in 1..n |-> i - 1]

Jobs(g) == 0..(g.numJobs - 1)
Leaves(g) == 0..(g.nLeaves - 1)
Spines(g) == 0..(g.nSpines - 1)
NumServers(g) == g.nLeaves * g.nServersPerLeaf
Servers(g) == 0..(NumServers(g) - 1)
getServerLeafIndex(g, n) == n \div g.nServersPerLeaf
getServerLocalIndex(g, n) == n % g.nServersPerLeaf
-----------------------------------------------------------------------------
(* GenerateTopologyAuto.                                                   *)

LeastLoaded(load, leaves) ==
  CHOOSE l \in leaves : \A m \in leaves :
    load[l] < load[m] \/ (load[l] = load[m] /\ l <= m)

\* st = [jobLeaves, load]: job j is associated with a leaf.
Associate(st, j, leaf) ==
  [jobLeaves |-> [st.jobLeaves EXCEPT ![j] = Append(@, leaf)],
   load |-> [st.load EXCEPT ![leaf] = @ + 1]]

\* Mutant: where all leaves are used, the parameter server's one is not left out.
WorkerLeavesAll(g, used) ==
  IF Leaves(g) \ Range(used) # {} THEN Leaves(g) \ Range(used) ELSE Leaves(g)

\* The leaves a job with the leaves "used" may get more workers on: new ones,
\* or, when there are none, all but that of its parameter server.
WorkerLeaves(g, used) ==
  IF Leaves(g) \ Range(used) # {} THEN Leaves(g) \ Range(used)
  ELSE Leaves(g) \ {Head(used)}

\* The leaves of every job, its parameter server's first.
JobLeaves(g) ==
  LET start == [jobLeaves |-> [j \in Jobs(g) |-> <<>>],
                load |-> [l \in Leaves(g) |-> 0]]
      ps == FoldLeft(LAMBDA st, j :
                       Associate(st, j, LeastLoaded(st.load, Leaves(g))),
                     start, UpTo(g.numJobs))
      round(st) ==
        FoldLeft(LAMBDA s, j :
                   Associate(s, j, LeastLoaded(s.load,
                                     WorkerLeaves(g, s.jobLeaves[j]))),
                 st, UpTo(g.numJobs))
  IN FoldLeft(LAMBDA st, r : round(st), ps,
              UpTo(g.workersPerJob \div g.chunkSize)).jobLeaves

\* st = [next, at]: the first n free servers of the leaf are added to at[j].
Fill(g, st, j, leaf, n) ==
  [next |-> [st.next EXCEPT ![leaf] = @ + n],
   at |-> [st.at EXCEPT ![j] =
             @ \o [i \in 1..n |-> leaf * g.nServersPerLeaf
                                    + st.next[leaf] + i - 1]]]

SpineOf(g, j) == j % g.nSpines

\* The topology.  It is not complete where the code aborts: chunks that do
\* not fit under their leaf or do not add up to the workers of a job.
GenerateTopologyAuto(g) ==
  LET leaves == JobLeaves(g)
      ps == FoldLeft(LAMBDA st, j : Fill(g, st, j, Head(leaves[j]), 1),
                     [next |-> [l \in Leaves(g) |-> 0],
                      at |-> [j \in Jobs(g) |-> <<>>]],
                     UpTo(g.numJobs))
      workers ==
        FoldLeft(LAMBDA st, j :
                   FoldLeft(LAMBDA s, l : Fill(g, s, j, l, g.chunkSize),
                            st, Tail(leaves[j])),
                 [ps EXCEPT !.at = [j \in Jobs(g) |-> <<>>]],
                 UpTo(g.numJobs))
  IN [ps |-> [j \in Jobs(g) |-> Head(ps.at[j])],
      workers |-> workers.at,
      routes |-> [j \in Jobs(g) |->
                    LET ls == SetToSortSeq(Range(Tail(leaves[j])), <)
                    IN [i \in DOMAIN ls |-> <<ls[i], SpineOf(g, j)>>]],
      complete |->
        \A j \in Jobs(g) :
          /\ \A l \in Range(Tail(leaves[j])) :
               workers.next[l] <= g.nServersPerLeaf
          /\ Len(workers.at[j]) = g.workersPerJob]
-----------------------------------------------------------------------------
(* InstallApplications.                                                    *)

PsLeaf(g, topo, j) == getServerLeafIndex(g, topo.ps[j])

\* leafToWorkersMap: the workers of job j under a leaf, in their order.
LeafWorkers(g, topo, j, l) ==
  SelectSeq(topo.workers[j], LAMBDA n : getServerLeafIndex(g, n) = l)

\* The leaves with workers of job j in the order of the map, which is that
\* of their logical indices.
LeavesOfJob(g, topo, j) ==
  SetToSortSeq({getServerLeafIndex(g, n) : n \in Range(topo.workers[j])}, <)

FanInsOf(g, topo, j) ==
  LET ls == LeavesOfJob(g, topo, j)
  IN [i \in DOMAIN ls |-> Len(LeafWorkers(g, topo, j, ls[i]))]

\* The bits of worker n of job j in bitmap0 and bitmap1.
myIdxInLeaf(g, topo, j, n) ==
  SelectInSeq(LeafWorkers(g, topo, j, getServerLeafIndex(g, n)),
              LAMBDA m : m = n) - 1
leafLogicalIndex(g, topo, j, l) ==
  SelectInSeq(LeavesOfJob(g, topo, j), LAMBDA m : m = l) - 1
-----------------------------------------------------------------------------
(* The network: addresses and links.                                       *)

\* Every link is a network of four addresses, one for each end.
SubnetLen == AddrBits - 2
ServerSubnet(n) == 4 * (n + 1)
SpineSubnet(g, s, l) == 4 * (NumServers(g) + 1 + s * g.nLeaves + l)
ServerAddress(n) == ServerSubnet(n) + 2
GatewayAddress(n) == ServerSubnet(n) + 1
SpineAddress(g, s, l) == SpineSubnet(g, s, l) + 1
SpineLeafAddress(g, s, l) == SpineSubnet(g, s, l) + 2
GenerateMulticastAddress(j) == MulticastNet + j + 1

Nodes(g) == ({"spine"} \X Spines(g)) \cup ({"leaf"} \X Leaves(g))
              \cup ({"server"} \X Servers(g))

NumInterfaces(g, node) ==
  CASE node[1] = "spine" -> g.nLeaves
    [] node[1] = "leaf" -> g.nSpines + g.nServersPerLeaf
    [] node[1] = "server" -> 1

\* The far end of a link: the node and the interface it arrives on.
Peer(g, node, i) ==
  CASE node[1] = "spine" -> [node |-> <<"leaf", i - 1>>, iif |-> node[2] + 1]
    [] node[1] = "leaf" /\ i <= g.nSpines ->
         [node |-> <<"spine", i - 1>>, iif |-> node[2] + 1]
    [] node[1] = "leaf" /\ i > g.nSpines ->
         [node |-> <<"server", node[2] * g.nServersPerLeaf + i - g.nSpines - 1>>,
          iif |-> 1]
    [] node[1] = "server" ->
         [node |-> <<"leaf", getServerLeafIndex(g, node[2])>>,
          iif |-> g.nSpines + getServerLocalIndex(g, node[2]) + 1]

AddressOf(g, node, i) ==
  CASE node[1] = "spine" -> SpineAddress(g, node[2], i - 1)
    [] node[1] = "leaf" /\ i <= g.nSpines -> SpineLeafAddress(g, i - 1, node[2])
    [] node[1] = "leaf" /\ i > g.nSpines ->
         GatewayAddress(node[2] * g.nServersPerLeaf + i - g.nSpines - 1)
    [] node[1] = "server" -> ServerAddress(node[2])

\* Ipv4AddressHelper::Assign brings the interfaces up one by one.
AssignedRoutes(g, node) ==
  FoldLeft(LAMBDA rs, i :
             NotifyInterfaceUp(rs, i + 1,
               <<[local |-> AddressOf(g, node, i + 1), len |-> SubnetLen]>>),
           <<>>, UpTo(NumInterfaces(g, node)))
-----------------------------------------------------------------------------
(* ConfigureRouting.                                                       *)

AddAll(routes, more) == FoldLeft(AddNetworkRouteTo, routes, more)

\* f over the numbers below n, joined.
Joined(f(_), n) == FlattenSeq([i \in 1..n |-> f(i - 1)])

\* A job without ARO routes gets no multicast tree.
HasTree(topo, j) == topo.routes[j] # <<>>

ServerRoutes(g, topo, n) ==
  LET hosts == Joined(LAMBDA t : IF t = n THEN <<>>
                 ELSE <<HostRoute(ServerAddress(t), GatewayAddress(n), 1)>>,
                 NumServers(g))
  IN FoldLeft(LAMBDA rs, j : IF topo.ps[j] = n /\ HasTree(topo, j)
                             THEN SetDefaultMulticastRoute(rs, 1) ELSE rs,
              AddAll(AssignedRoutes(g, <<"server", n>>), hosts),
              UpTo(g.numJobs))

\* The ARO routes of leaf l: to the parameter server of a job via the spine
\* that the job's route for the leaf names.
AroRoutes(g, topo, l) ==
  Joined(LAMBDA j :
           LET own == SelectSeq(topo.routes[j], LAMBDA r :
                        r[1] = l /\ r[1] # PsLeaf(g, topo, j))
           IN [i \in DOMAIN own |->
                 HostRoute(ServerAddress(topo.ps[j]),
                           SpineAddress(g, own[i][2], l), own[i][2] + 1)],
         g.numJobs)

\* Mutant: the interfaces towards the spines are not counted.
LocalRoutesFromOne(g, l) ==
  Joined(LAMBDA k : LET n == l * g.nServersPerLeaf + k IN
           <<HostRoute(ServerAddress(n), ServerAddress(n), k + 1)>>,
         g.nServersPerLeaf)

LocalRoutes(g, l) ==
  Joined(LAMBDA k : LET n == l * g.nServersPerLeaf + k IN
           <<HostRoute(ServerAddress(n), ServerAddress(n), g.nSpines + k + 1)>>,
         g.nServersPerLeaf)

EcmpSpine(g, leaf) == leaf % g.nSpines

EcmpRoutes(g, l) ==
  Joined(LAMBDA n :
           LET s == EcmpSpine(g, getServerLeafIndex(g, n))
           IN IF getServerLeafIndex(g, n) = l THEN <<>>
              ELSE <<HostRoute(ServerAddress(n), SpineAddress(g, s, l), s + 1)>>,
         NumServers(g))

\* Mutant: the ARO routes are added last, as if they replaced the others.
LeafRoutesAroLast(g, topo, l) ==
  AddAll(AssignedRoutes(g, <<"leaf", l>>),
         LocalRoutes(g, l) \o EcmpRoutes(g, l) \o AroRoutes(g, topo, l))

LeafRoutes(g, topo, l) ==
  AddAll(AssignedRoutes(g, <<"leaf", l>>),
         AroRoutes(g, topo, l) \o LocalRoutes(g, l) \o EcmpRoutes(g, l))

SpineRoutes(g, s) ==
  AddAll(AssignedRoutes(g, <<"spine", s>>),
         Joined(LAMBDA n :
                  LET l == getServerLeafIndex(g, n)
                  IN <<HostRoute(ServerAddress(n), SpineLeafAddress(g, s, l),
                                 l + 1)>>,
                NumServers(g)))

NetworkRoutes(g, topo, node) ==
  CASE node[1] = "server" -> ServerRoutes(g, topo, node[2])
    [] node[1] = "leaf" -> LeafRoutes(g, topo, node[2])
    [] node[1] = "spine" -> SpineRoutes(g, node[2])

\* The interfaces of leaf l towards the workers of job j.
WorkerInterfaces(g, topo, j, l) ==
  {g.nSpines + getServerLocalIndex(g, n) + 1 :
     n \in Range(LeafWorkers(g, topo, j, l))}

Tree(g, topo, j, input, outputs) ==
  <<[origin |-> ServerAddress(topo.ps[j]), group |-> GenerateMulticastAddress(j),
     input |-> input, outputs |-> outputs]>>

\* Mutant: the parameter server's leaf sends up only.
PsLeafTreeUp(g, topo, j, l) ==
  Tree(g, topo, j, g.nSpines + getServerLocalIndex(g, topo.ps[j]) + 1,
       {r[2] + 1 : r \in Range(topo.routes[j])})

\* The part of job j's tree at the leaf of its parameter server, ...
PsLeafTree(g, topo, j, l) ==
  Tree(g, topo, j, g.nSpines + getServerLocalIndex(g, topo.ps[j]) + 1,
       {r[2] + 1 : r \in Range(topo.routes[j])}
         \cup WorkerInterfaces(g, topo, j, l))

\* ... at another leaf l, one for every route of the leaf, ...
WorkerLeafTree(g, topo, j, l) ==
  LET own == SelectSeq(topo.routes[j], LAMBDA r : r[1] = l)
  IN IF WorkerInterfaces(g, topo, j, l) = {} THEN <<>>
     ELSE Joined(LAMBDA i : Tree(g, topo, j, own[i + 1][2] + 1,
                                 WorkerInterfaces(g, topo, j, l)),
                 Len(own))

\* ... and at spine s.
SpineTree(g, topo, j, s) ==
  LET out == {r[1] + 1 : r \in {q \in Range(topo.routes[j]) :
                 q[2] = s /\ q[1] # PsLeaf(g, topo, j)}}
  IN IF out = {} THEN <<>>
     ELSE Tree(g, topo, j, PsLeaf(g, topo, j) + 1, out)

MulticastRoutes(g, topo, node) ==
  LET part(j) ==
        CASE ~HasTree(topo, j) \/ node[1] = "server" -> <<>>
          [] HasTree(topo, j) /\ node[1] = "spine" ->
               SpineTree(g, topo, j, node[2])
          [] HasTree(topo, j) /\ node[1] = "leaf" ->
               IF node[2] = PsLeaf(g, topo, j)
               THEN PsLeafTree(g, topo, j, node[2])
               ELSE WorkerLeafTree(g, topo, j, node[2])
  IN Joined(part, g.numJobs)
=============================================================================
