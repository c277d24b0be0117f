---------------------------- MODULE MCATPFabric ----------------------------
(***************************************************************************)
(* Small experiments: one to four jobs that GenerateTopologyAuto places,   *)
(* and pairs of jobs as a configuration file may describe them.            *)
(***************************************************************************)
EXTENDS ATPFabric

P(numJobs, workersPerJob, nSpines, nLeaves, nServersPerLeaf, chunkSize) ==
  [numJobs |-> numJobs, workersPerJob |-> workersPerJob, nSpines |-> nSpines,
   nLeaves |-> nLeaves, nServersPerLeaf |-> nServersPerLeaf,
   chunkSize |-> chunkSize]

\* One worker per leaf, where a job may need a leaf twice, and two per leaf.
MCParameters ==
  {P(j, w, s, l, 4, 1) : j \in 1..4, w \in 1..3, s \in 1..2, l \in 2..3}
    \cup {P(j, 4, 2, 3, 5, 2) : j \in 1..3}

\* Three leaves with two servers each.
MCJsonParameters == {P(2, 2, 2, 3, 2, 1), P(1, 4, 2, 3, 2, 1)}

\* A parameter server under the first or the last leaf; the two jobs may use
\* the same one.
MCJsonJobs ==
  {job \in {[ps |-> ps, workers |-> SetToSortSeq(ws, <),
             routes |-> SetToSeq({<<l, spine[l]>> : l \in DOMAIN spine})] :
              ps \in {0, 4},
              ws \in {w \in SUBSET (0..5) : Cardinality(w) \in {2, 4}},
              spine \in UNION {[ls -> 0..1] : ls \in SUBSET (0..2)}} :
     \E p \in MCJsonParameters : JsonJobOK(p, job) /\ WellFormed(p, job)}
=============================================================================
