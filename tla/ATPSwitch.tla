------------------------------ MODULE ATPSwitch ------------------------------
(***************************************************************************)
(* The aggregation state of one switch: ATPL4Protocol's slots, its per-job *)
(* slot count and its per-job hash-collision counter, driven by packets    *)
(* that arrive in any order, duplicated or late.                           *)
(***************************************************************************)
EXTENDS ATPAggregator, FiniteSets

CONSTANTS
  Jobs,                \* job identifiers
  SeqNums,             \* sequence numbers; the senders start at 1
  Bits,                \* bit positions of bitmap0 and bitmap1
  Workers,             \* contributors named by the ghost field "data"
  Arrivals,            \* the packets that can reach this switch
  MaxSlots,            \* bound on SetMaxAggregators
  MaxCollisions,       \* bound on the collision counter
  HashToIndex(_, _, _) \* Aggregator::HashToIndex(jobId, seqNum, size)

VARIABLES
  m_enableHierarchicalAggregation,
  m_enableAggCount,
  m_maxAggregators,
  m_aggregators,                 \* index -> slot
  m_aggCount,                    \* job -> slots it holds
  m_jobIdHashCollisionCounter    \* job -> hash collisions it met

switches == <<m_enableHierarchicalAggregation, m_enableAggCount>>
vars == <<switches, m_maxAggregators, m_aggregators, m_aggCount,
          m_jobIdHashCollisionCounter>>

\* The tags a switch can see.  A data packet has a bit in each bitmap (the
\* applications set both); an ACK's bitmaps are zero.
Packet ==
  {p \in [jobId : Jobs, seqNum : SeqNums,
          bitmap0 : SUBSET Bits, bitmap1 : SUBSET Bits,
          fanin0 : Nat, fanin1 : Nat, edge : {0, 1},
          resend : BOOLEAN, collision : BOOLEAN, isAck : BOOLEAN,
          data : SUBSET Workers] :
     p.isAck \/ (p.bitmap0 # {} /\ p.bitmap1 # {})}

Slot == [m_bitmap : SUBSET Bits, m_count : Nat, m_jobId : Jobs \cup {0},
         m_seqNum : SeqNums \cup {0}, data : SUBSET Workers]

ASSUME SwitchAssumption ==
  /\ SeqNums \subseteq Nat \ {0}
  /\ \A p \in Arrivals : p \in Packet
  /\ MaxSlots \in Nat \ {0}
  /\ MaxCollisions \in Nat
  /\ \A j \in Jobs, s \in SeqNums, n \in 1..MaxSlots :
       HashToIndex(j, s, n) \in 0..(n - 1)
-----------------------------------------------------------------------------
Init ==
  /\ m_enableHierarchicalAggregation = FALSE
  /\ m_enableAggCount = FALSE
  /\ m_maxAggregators \in 1..MaxSlots
  /\ m_aggregators = [i \in 0..(m_maxAggregators - 1) |-> Reset]
  /\ m_aggCount = [j \in Jobs |-> 0]
  /\ m_jobIdHashCollisionCounter = [j \in Jobs |-> 0]

\* Mutant: the vector is not resized.
SetMaxAggregatorsOnly(n) ==
  /\ m_maxAggregators' = n
  /\ UNCHANGED <<switches, m_aggregators, m_aggCount,
                 m_jobIdHashCollisionCounter>>

\* SetMaxAggregators drops every slot, and the counts with them.
SetMaxAggregators(n) ==
  /\ m_maxAggregators' = n
  /\ m_aggregators' = [i \in 0..(n - 1) |-> Reset]
  /\ m_aggCount' = [j \in Jobs |-> 0]
  /\ UNCHANGED <<switches, m_jobIdHashCollisionCounter>>

SetEnableHierarchicalAggregation(enable) ==
  /\ m_enableHierarchicalAggregation' = enable
  /\ UNCHANGED <<m_enableAggCount, m_maxAggregators, m_aggregators, m_aggCount,
                 m_jobIdHashCollisionCounter>>

\* Called by the examples while they set the topology up: no slot is held.
EnableAggregatorCount(enable) ==
  /\ \A i \in DOMAIN m_aggregators : IsEmpty(m_aggregators[i])
  /\ m_enableAggCount' = enable
  /\ UNCHANGED <<m_enableHierarchicalAggregation, m_maxAggregators,
                 m_aggregators, m_aggCount, m_jobIdHashCollisionCounter>>

\* OnAggAcquire and OnAggRelease, for the job of the packet.
OnAggAcquire(j) == m_aggCount' = [m_aggCount EXCEPT ![j] = @ + 1]
OnAggRelease(j) ==
  m_aggCount' = [m_aggCount EXCEPT ![j] = IF @ > 0 THEN @ - 1 ELSE @]

CountSlots(j, event) ==
  \/ m_enableAggCount /\ event = "acquire" /\ OnAggAcquire(j)
  \/ m_enableAggCount /\ event = "release" /\ OnAggRelease(j)
  \/ /\ ~m_enableAggCount \/ event \notin {"acquire", "release"}
     /\ UNCHANGED m_aggCount

CountCollisions(j, event) ==
  \/ /\ event = "collision"
     /\ m_jobIdHashCollisionCounter[j] < MaxCollisions
     /\ m_jobIdHashCollisionCounter' =
          [m_jobIdHashCollisionCounter EXCEPT ![j] = @ + 1]
  \/ event # "collision" /\ UNCHANGED m_jobIdHashCollisionCounter

\* A packet passes through FilterPacket.
Filter(p) ==
  LET index == HashToIndex(p.jobId, p.seqNum, m_maxAggregators)
      r     == FilterPacket(m_aggregators[index], p,
                            m_enableHierarchicalAggregation)
  IN  /\ m_aggregators' = [m_aggregators EXCEPT ![index] = r.slot]
      /\ CountSlots(p.jobId, r.event)
      /\ CountCollisions(p.jobId, r.event)
      /\ UNCHANGED <<switches, m_maxAggregators>>

Next ==
  \/ \E n \in 1..MaxSlots : SetMaxAggregators(n)
  \/ \E enable \in BOOLEAN : SetEnableHierarchicalAggregation(enable)
  \/ \E enable \in BOOLEAN : EnableAggregatorCount(enable)
  \/ \E p \in Arrivals : Filter(p)

Spec == Init /\ [][Next]_vars
-----------------------------------------------------------------------------
TypeOK ==
  /\ m_enableHierarchicalAggregation \in BOOLEAN
  /\ m_enableAggCount \in BOOLEAN
  /\ m_maxAggregators \in 1..MaxSlots
  /\ m_aggregators \in [0..(m_maxAggregators - 1) -> Slot]
  /\ m_aggCount \in [Jobs -> Nat]
  /\ m_jobIdHashCollisionCounter \in [Jobs -> 0..MaxCollisions]

Held(i) == ~IsEmpty(m_aggregators[i])
HeldBy(j) == {i \in DOMAIN m_aggregators :
                Held(i) /\ m_aggregators[i].m_jobId = j}

\* A held slot sits where the hash of its own (jobId, seqNum) looks for it,
\* and a slot that is not held carries nothing: neither bits nor an owner
\* that a later ACK or retransmission could match and release once more.
SlotHomed ==
  \A i \in DOMAIN m_aggregators :
    LET slot == m_aggregators[i] IN
    IF Held(i)
    THEN /\ slot.m_jobId \in Jobs
         /\ slot.m_seqNum \in SeqNums
         /\ HashToIndex(slot.m_jobId, slot.m_seqNum, m_maxAggregators) = i
    ELSE slot = Reset

\* The slot count a job is charged with is the number of slots it holds:
\* every release in FilterPacket and AggregatePacket pays back exactly one
\* acquire, so the guard in OnAggRelease never has to hide an underflow.
AggCountExact ==
  m_enableAggCount => \A j \in Jobs : m_aggCount[j] = Cardinality(HeldBy(j))

\* A slot never passes from one (jobId, seqNum) straight to another: the
\* owner's ACK or retransmission, or a resize, has to empty it first.
NoSlotStealing ==
  [][\A i \in DOMAIN m_aggregators \cap DOMAIN m_aggregators' :
       Held(i) /\ Held(i)' =>
         /\ m_aggregators'[i].m_jobId = m_aggregators[i].m_jobId
         /\ m_aggregators'[i].m_seqNum = m_aggregators[i].m_seqNum
         /\ m_aggregators[i].m_bitmap \subseteq m_aggregators'[i].m_bitmap]_vars
=============================================================================
