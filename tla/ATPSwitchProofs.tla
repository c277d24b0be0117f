--------------------------- MODULE ATPSwitchProofs ---------------------------
(***************************************************************************)
(* Proofs about ATPSwitch for every set of jobs, sequence numbers and      *)
(* arriving packets, every table size and every hash function.             *)
(***************************************************************************)
EXTENDS ATPSwitch, FiniteSetTheorems, TLAPS

\* A slot is either as Reset leaves it, or owned by a real (jobId, seqNum)
\* that hashes to its index: SlotHomed, for one slot.
Homed(slot, i, n) ==
  IF IsEmpty(slot)
  THEN slot = Reset
  ELSE /\ slot.m_jobId \in Jobs
       /\ slot.m_seqNum \in SeqNums
       /\ HashToIndex(slot.m_jobId, slot.m_seqNum, n) = i

\* What the accounting relies on: the event FilterPacket reports says how
\* the ownership of the slot changed.
Accounted(slot, r, j) ==
  \/ /\ r.event = "acquire"
     /\ IsEmpty(slot) /\ ~IsEmpty(r.slot) /\ r.slot.m_jobId = j
  \/ /\ r.event = "release"
     /\ ~IsEmpty(slot) /\ IsEmpty(r.slot) /\ slot.m_jobId = j
  \/ /\ r.event \in {"none", "collision"}
     /\ IsEmpty(slot) <=> IsEmpty(r.slot)
     /\ r.slot.m_jobId = slot.m_jobId

\* Reset (atp-aggregator.cc) yields a slot that is empty and owned by nobody.
LEMMA ResetIsEmpty == Reset \in Slot /\ IsEmpty(Reset)
  BY DEF Reset, Slot, IsEmpty

\* Aggregator::ProcessPacket keeps the owner of a slot, leaves it held when
\* it was held or when the packet has bits it lacks, and never shrinks it.
LEMMA ProcessPacketSlot ==
  ASSUME NEW slot \in Slot, NEW p \in Packet, ~p.isAck, NEW event,
         slot.m_count = 0 => slot.m_bitmap = {}
  PROVE  LET r == ProcessPacket(slot, p, event) IN
         /\ r.slot \in Slot
         /\ r.slot.m_jobId = slot.m_jobId
         /\ r.slot.m_seqNum = slot.m_seqNum
         /\ ~IsEmpty(r.slot)
         /\ slot.m_bitmap \subseteq r.slot.m_bitmap
         /\ r.event = event
  <1> DEFINE bits == LevelBitmap(p)
             added == [slot EXCEPT !.m_bitmap = @ \cup bits,
                                   !.m_count = @ + 1,
                                   !.data = @ \cup p.data]
  <1>1. bits \in SUBSET Bits /\ bits # {} /\ p.data \in SUBSET Workers
    BY DEF Packet, LevelBitmap
  <1>2. /\ slot.m_count \in Nat
        /\ slot.m_bitmap \cup bits \in SUBSET Bits
        /\ slot.data \cup p.data \in SUBSET Workers
        /\ slot.m_count + 1 \in Nat \ {0}
    BY <1>1 DEF Slot
  <1>3. /\ added \in Slot
        /\ added.m_count = slot.m_count + 1
        /\ added.m_bitmap = slot.m_bitmap \cup bits
        /\ added.m_jobId = slot.m_jobId
        /\ added.m_seqNum = slot.m_seqNum
    <2> HIDE DEF bits
    <2> QED BY <1>2 DEF Slot
  <1>4. CASE bits \subseteq slot.m_bitmap
    <2>1. slot.m_count # 0
      BY <1>1, <1>4
    <2>2. ProcessPacket(slot, p, event) = Outcome(slot, <<>>, event)
      BY <1>4 DEF ProcessPacket
    <2> QED
      BY <2>1, <2>2 DEF Outcome, IsEmpty
  <1>5. CASE ~(bits \subseteq slot.m_bitmap)
    <2>1. PICK out : ProcessPacket(slot, p, event) = Outcome(added, out, event)
      BY <1>5 DEF ProcessPacket
    <2> HIDE DEF added
    <2> QED
      BY <1>2, <1>3, <2>1 DEF Outcome, IsEmpty
  <1> QED
    BY <1>4, <1>5

\* A whole FilterPacket call keeps the slot well-formed, homed and
\* accounted for, whichever of its branches the packet takes.
LEMMA FilterPacketSlot ==
  ASSUME NEW slot \in Slot, NEW p \in Packet, NEW n \in 1..MaxSlots,
         NEW hier \in BOOLEAN, NEW i,
         i = HashToIndex(p.jobId, p.seqNum, n),
         Homed(slot, i, n)
  PROVE  LET r == FilterPacket(slot, p, hier) IN
         /\ r.slot \in Slot
         /\ Homed(r.slot, i, n)
         /\ Accounted(slot, r, p.jobId)
         /\ ~IsEmpty(slot) /\ ~IsEmpty(r.slot) =>
              /\ r.slot.m_jobId = slot.m_jobId
              /\ r.slot.m_seqNum = slot.m_seqNum
              /\ slot.m_bitmap \subseteq r.slot.m_bitmap
  <1> DEFINE r == FilterPacket(slot, p, hier)
             Goal == /\ r.slot \in Slot
                     /\ Homed(r.slot, i, n)
                     /\ Accounted(slot, r, p.jobId)
                     /\ ~IsEmpty(slot) /\ ~IsEmpty(r.slot) =>
                          /\ r.slot.m_jobId = slot.m_jobId
                          /\ r.slot.m_seqNum = slot.m_seqNum
                          /\ slot.m_bitmap \subseteq r.slot.m_bitmap
  <1> SUFFICES Goal
    OBVIOUS
  <1>1. /\ p.jobId \in Jobs /\ p.seqNum \in SeqNums /\ p.seqNum # 0
        /\ p.isAck \in BOOLEAN /\ p.resend \in BOOLEAN
        /\ p.collision \in BOOLEAN
    BY SwitchAssumption DEF Packet
  <1>2. Matches(slot, p) => ~IsEmpty(slot)
    \* an empty slot is owned by seqNum 0, which no packet carries
    BY <1>1 DEF Matches, Homed, Reset
  <1>3. ASSUME NEW out, r = Outcome(slot, out, "none")
        PROVE  Goal
    <2>1. r.slot = slot /\ r.event = "none"
      BY <1>3 DEF Outcome
    <2> HIDE DEF r
    <2> QED BY <2>1 DEF Accounted
  <1>4. ASSUME NEW out, r = Outcome(Reset, out, "release"), Matches(slot, p)
        PROVE  Goal
    <2>1. r.slot = Reset /\ r.event = "release"
      BY <1>4 DEF Outcome
    <2> HIDE DEF r
    <2> QED BY <2>1, <1>2, <1>4, ResetIsEmpty DEF Accounted, Homed, Matches
  <1>5. CASE p.isAck
    BY <1>1, <1>3, <1>4, <1>5 DEF FilterPacket
  <1>6. CASE ~p.isAck /\ (p.collision \/ (~hier /\ p.edge = 1))
    BY <1>1, <1>3, <1>6 DEF FilterPacket
  <1>7. CASE ~p.isAck /\ ~(p.collision \/ (~hier /\ p.edge = 1))
    <2>1. r = AggregatePacket(slot, p)
      BY <1>1, <1>7 DEF FilterPacket
    <2>2. CASE p.resend /\ Matches(slot, p)
      <3>1. r = ResendPacket(slot, p)
        BY <1>1, <2>1, <2>2 DEF AggregatePacket
      <3> QED BY <3>1, <1>4, <2>2 DEF ResendPacket
    <2>3. CASE p.resend /\ ~Matches(slot, p)
      BY <1>1, <1>3, <2>1, <2>3 DEF AggregatePacket
    <2>4. CASE ~p.resend /\ IsEmpty(slot)
      <3> DEFINE claimed == Claim(slot, p)
      <3>1. r = ProcessPacket(claimed, p, "acquire")
        BY <1>1, <2>1, <2>4 DEF AggregatePacket
      <3>2. slot = Reset
        BY <2>4 DEF Homed
      <3>3. /\ claimed \in Slot
            /\ claimed.m_count = 0 /\ claimed.m_bitmap = {}
            /\ claimed.m_jobId = p.jobId /\ claimed.m_seqNum = p.seqNum
        BY <1>1, <3>2 DEF Claim, Reset, Slot
      <3> HIDE DEF claimed, r
      <3>4. /\ r.slot \in Slot
            /\ r.slot.m_jobId = p.jobId /\ r.slot.m_seqNum = p.seqNum
            /\ ~IsEmpty(r.slot) /\ r.event = "acquire"
        BY <1>7, <3>1, <3>3, ProcessPacketSlot
      <3> QED BY <1>1, <2>4, <3>4 DEF Accounted, Homed
    <2>5. CASE ~p.resend /\ ~IsEmpty(slot) /\ Matches(slot, p)
      <3>1. r = ProcessPacket(slot, p, "none")
        BY <1>1, <2>1, <2>5 DEF AggregatePacket
      <3>2. slot.m_count # 0
        BY <2>5 DEF IsEmpty
      <3> HIDE DEF r
      <3>3. /\ r.slot \in Slot
            /\ r.slot.m_jobId = slot.m_jobId
            /\ r.slot.m_seqNum = slot.m_seqNum
            /\ ~IsEmpty(r.slot) /\ r.event = "none"
            /\ slot.m_bitmap \subseteq r.slot.m_bitmap
        BY <1>7, <3>1, <3>2, ProcessPacketSlot
      <3> QED BY <2>5, <3>3 DEF Accounted, Homed
    <2>6. CASE ~p.resend /\ ~IsEmpty(slot) /\ ~Matches(slot, p)
      <3>1. PICK out : r = Outcome(slot, out, "collision")
        BY <1>1, <2>1, <2>6 DEF AggregatePacket
      <3>2. r.slot = slot /\ r.event = "collision"
        BY <3>1 DEF Outcome
      <3> HIDE DEF r
      <3> QED BY <3>2 DEF Accounted
    <2> QED BY <1>1, <2>2, <2>3, <2>4, <2>5, <2>6
  <1> QED BY <1>5, <1>6, <1>7
-----------------------------------------------------------------------------
(***************************************************************************)
(* The inductive invariant.  AggCountExact alone is not inductive: it says *)
(* nothing while counting is switched off, so IInv adds that the counts    *)
(* are then all zero, and SlotHomed is what makes a matching slot a held   *)
(* one, so that a release always pays back an acquire.                     *)
(***************************************************************************)
IInv ==
  /\ TypeOK
  /\ SlotHomed
  /\ AggCountExact
  /\ ~m_enableAggCount => \A j \in Jobs : m_aggCount[j] = 0

\* SlotHomed is Homed of every slot.
LEMMA SlotHomedIsHomed ==
  SlotHomed <=> \A i \in DOMAIN m_aggregators :
                  Homed(m_aggregators[i], i, m_maxAggregators)
  BY DEF SlotHomed, Homed, Held

\* HeldBy as a function of the table, so that it speaks of both ends of a
\* step.
HeldIn(slots, j) ==
  {i \in DOMAIN slots : ~IsEmpty(slots[i]) /\ slots[i].m_jobId = j}

\* A job's held slots form a finite set: they are indices of the table.
LEMMA HeldInFinite ==
  ASSUME NEW n \in Nat, NEW slots, DOMAIN slots = 0..(n - 1), NEW j
  PROVE  IsFiniteSet(HeldIn(slots, j)) /\ Cardinality(HeldIn(slots, j)) \in Nat
  <1>1. IsFiniteSet(0..(n - 1))
    BY FS_Interval
  <1>2. IsFiniteSet(HeldIn(slots, j))
    BY <1>1, FS_Subset DEF HeldIn
  <1> QED BY <1>2, FS_CardinalityType

\* With every slot empty no job holds one.
LEMMA NoneHeld ==
  ASSUME NEW slots, \A i \in DOMAIN slots : IsEmpty(slots[i]), NEW j
  PROVE  Cardinality(HeldIn(slots, j)) = 0
  <1>1. HeldIn(slots, j) = {}
    BY DEF HeldIn
  <1> QED BY <1>1, FS_EmptySet

\* How the number of slots job j holds follows a change of the slot at i.
Recounted(slots, i, slot, j) ==
  LET old   == Cardinality(HeldIn(slots, j))
      count == Cardinality(HeldIn([slots EXCEPT ![i] = slot], j))
  IN  /\ IsEmpty(slots[i]) /\ ~IsEmpty(slot) /\ slot.m_jobId = j =>
           count = old + 1
      /\ ~IsEmpty(slots[i]) /\ IsEmpty(slot) /\ slots[i].m_jobId = j =>
           count = old - 1 /\ old > 0
      /\ \/ /\ IsEmpty(slots[i]) <=> IsEmpty(slot)
            /\ slot.m_jobId = slots[i].m_jobId
         \/ /\ ~IsEmpty(slots[i]) => slots[i].m_jobId # j
            /\ ~IsEmpty(slot) => slot.m_jobId # j
         => count = old

\* Replacing one slot moves its index into the new owner's set, out of the
\* old owner's, or leaves all sets alone, and the cardinalities follow.
LEMMA HeldInUpdate ==
  ASSUME NEW n \in Nat, NEW slots, DOMAIN slots = 0..(n - 1),
         NEW i \in 0..(n - 1), NEW slot, NEW j
  PROVE  Recounted(slots, i, slot, j)
  <1> DEFINE new == [slots EXCEPT ![i] = slot]
  <1> DEFINE old == HeldIn(slots, j)
  <1>1. IsFiniteSet(old) /\ Cardinality(old) \in Nat
    BY HeldInFinite
  <1>2. /\ DOMAIN new = DOMAIN slots
        /\ new[i] = slot
        /\ \A k \in DOMAIN slots \ {i} : new[k] = slots[k]
        /\ i \in DOMAIN slots
    OBVIOUS
  <1> HIDE DEF new
  <1>3. ASSUME IsEmpty(slots[i]), ~IsEmpty(slot), slot.m_jobId = j
        PROVE  Cardinality(HeldIn(new, j)) = Cardinality(old) + 1
    <2>1. HeldIn(new, j) = old \cup {i} /\ i \notin old
      BY <1>2, <1>3 DEF HeldIn
    <2> QED BY <1>1, <2>1, FS_AddElement
  <1>4. ASSUME ~IsEmpty(slots[i]), IsEmpty(slot), slots[i].m_jobId = j
        PROVE  /\ Cardinality(HeldIn(new, j)) = Cardinality(old) - 1
               /\ Cardinality(old) > 0
    <2>1. HeldIn(new, j) = old \ {i} /\ i \in old
      BY <1>2, <1>4 DEF HeldIn
    <2>2. Cardinality(old) # 0
      BY <1>1, <2>1, FS_EmptySet
    <2>3. Cardinality(old) > 0
      BY <1>1, <2>2
    <2>4. Cardinality(old \ {i}) = Cardinality(old) - 1
      BY <1>1, <2>1, FS_RemoveElement
    <2> QED BY <2>1, <2>3, <2>4
  <1>5. ASSUME \/ /\ IsEmpty(slots[i]) <=> IsEmpty(slot)
                  /\ slot.m_jobId = slots[i].m_jobId
               \/ /\ ~IsEmpty(slots[i]) => slots[i].m_jobId # j
                  /\ ~IsEmpty(slot) => slot.m_jobId # j
        PROVE  HeldIn(new, j) = old
    BY <1>2, <1>5 DEF HeldIn
  <1> QED BY <1>3, <1>4, <1>5 DEF Recounted, new

\* Construction and SetMaxAggregators establish the invariant from nothing.
LEMMA InitIInv == Init => IInv
  <1> SUFFICES ASSUME Init PROVE IInv
    OBVIOUS
  <1>1. TypeOK
    <2>1. m_aggregators \in [0..(m_maxAggregators - 1) -> Slot]
      BY ResetIsEmpty DEF Init
    <2>2. 0 \in Nat /\ 0 \in 0..MaxCollisions
      BY SwitchAssumption
    <2> QED BY <2>1, <2>2 DEF Init, TypeOK
  <1>2. \A i \in DOMAIN m_aggregators :
          m_aggregators[i] = Reset /\ IsEmpty(m_aggregators[i])
    BY ResetIsEmpty DEF Init
  <1>3. SlotHomed
    BY <1>2 DEF SlotHomed, Held
  <1>4. \A j \in Jobs : m_aggCount[j] = 0
    BY DEF Init
  <1> QED BY <1>1, <1>3, <1>4 DEF IInv, AggCountExact, Init

\* Passing one packet through FilterPacket preserves the invariant.
LEMMA FilterIInv ==
  ASSUME IInv, NEW p \in Arrivals, Filter(p)
  PROVE  IInv'
  <1> DEFINE index == HashToIndex(p.jobId, p.seqNum, m_maxAggregators)
             slot == m_aggregators[index]
             r == FilterPacket(slot, p, m_enableHierarchicalAggregation)
  <1>1. /\ p \in Packet /\ p.jobId \in Jobs
        /\ index \in 0..(m_maxAggregators - 1)
    BY SwitchAssumption DEF IInv, TypeOK, Packet
  <1>2. /\ DOMAIN m_aggregators = 0..(m_maxAggregators - 1)
        /\ m_maxAggregators \in Nat
        /\ slot \in Slot
    BY <1>1, SwitchAssumption DEF IInv, TypeOK
  <1>3. Homed(slot, index, m_maxAggregators)
    BY <1>1, <1>2, SlotHomedIsHomed DEF IInv
  <1>4. /\ r.slot \in Slot
        /\ Homed(r.slot, index, m_maxAggregators)
        /\ Accounted(slot, r, p.jobId)
    BY <1>1, <1>2, <1>3, FilterPacketSlot DEF IInv, TypeOK
  <1>5. /\ m_aggregators' = [m_aggregators EXCEPT ![index] = r.slot]
        /\ m_maxAggregators' = m_maxAggregators
        /\ m_enableAggCount' = m_enableAggCount
        /\ m_enableHierarchicalAggregation' = m_enableHierarchicalAggregation
        /\ CountSlots(p.jobId, r.event)
        /\ CountCollisions(p.jobId, r.event)
    BY DEF Filter, switches
  <1> HIDE DEF index, slot, r
  <1>6. m_aggregators' \in [0..(m_maxAggregators' - 1) -> Slot]
    BY <1>1, <1>4, <1>5 DEF IInv, TypeOK
  <1>7. SlotHomed'
    <2>1. \A i \in DOMAIN m_aggregators :
            Homed(m_aggregators[i], i, m_maxAggregators)
      BY SlotHomedIsHomed DEF IInv
    <2>2. \A i \in DOMAIN m_aggregators' :
            Homed(m_aggregators'[i], i, m_maxAggregators')
      BY <1>1, <1>2, <1>4, <1>5, <2>1
    <2> QED BY <2>2 DEF SlotHomed, Homed, Held
  <1>8. m_jobIdHashCollisionCounter' \in [Jobs -> 0..MaxCollisions]
    BY <1>1, <1>5, SwitchAssumption DEF CountCollisions, IInv, TypeOK
  <1>9. m_aggCount' \in [Jobs -> Nat]
    <2>1. m_aggCount \in [Jobs -> Nat] /\ m_aggCount[p.jobId] \in Nat
      BY <1>1 DEF IInv, TypeOK
    <2>2. /\ m_aggCount[p.jobId] + 1 \in Nat
          /\ m_aggCount[p.jobId] > 0 => m_aggCount[p.jobId] - 1 \in Nat
      BY <2>1
    <2>3. CASE OnAggAcquire(p.jobId)
      BY <2>1, <2>2, <2>3 DEF OnAggAcquire
    <2>4. CASE OnAggRelease(p.jobId)
      BY <2>1, <2>2, <2>4 DEF OnAggRelease
    <2> QED BY <1>5, <2>1, <2>3, <2>4 DEF CountSlots
  <1>10. TypeOK'
    BY <1>5, <1>6, <1>8, <1>9 DEF IInv, TypeOK
  <1>11. CASE ~m_enableAggCount
    BY <1>5, <1>7, <1>10, <1>11 DEF IInv, AggCountExact, CountSlots
  <1>12. CASE m_enableAggCount
    <2> SUFFICES ASSUME NEW j \in Jobs
                 PROVE  m_aggCount'[j] = Cardinality(HeldIn(m_aggregators', j))
      BY <1>5, <1>7, <1>10, <1>12 DEF IInv, AggCountExact, HeldBy, HeldIn, Held
    <2>1. /\ m_aggCount[j] = Cardinality(HeldIn(m_aggregators, j))
          /\ m_aggCount[j] \in Nat
      BY <1>12 DEF IInv, TypeOK, AggCountExact, HeldBy, HeldIn, Held
    <2>2. slot = m_aggregators[index] /\ index \in DOMAIN m_aggregators
      BY <1>1, <1>2 DEF slot
    <2> DEFINE new == m_aggregators'
    <2>3. new = [m_aggregators EXCEPT ![index] = r.slot]
      BY <1>5
    <2> HIDE DEF new
    <2>4. /\ IsEmpty(slot) /\ ~IsEmpty(r.slot) /\ r.slot.m_jobId = j =>
               Cardinality(HeldIn(new, j)) = m_aggCount[j] + 1
          /\ ~IsEmpty(slot) /\ IsEmpty(r.slot) /\ slot.m_jobId = j =>
               /\ Cardinality(HeldIn(new, j)) = m_aggCount[j] - 1
               /\ m_aggCount[j] > 0
          /\ \/ /\ IsEmpty(slot) <=> IsEmpty(r.slot)
                /\ r.slot.m_jobId = slot.m_jobId
             \/ /\ ~IsEmpty(slot) => slot.m_jobId # j
                /\ ~IsEmpty(r.slot) => r.slot.m_jobId # j
             => Cardinality(HeldIn(new, j)) = m_aggCount[j]
      <3>1. Recounted(m_aggregators, index, r.slot, j)
        BY <1>1, <1>2, HeldInUpdate
      <3> QED BY <2>1, <2>2, <2>3, <3>1 DEF Recounted
    <2>5. CASE r.event = "acquire"
      BY <1>1, <1>4, <1>5, <1>12, <2>1, <2>4, <2>5
         DEF Accounted, CountSlots, OnAggAcquire, IInv, TypeOK, new
    <2>6. CASE r.event = "release"
      BY <1>1, <1>4, <1>5, <1>12, <2>1, <2>4, <2>6
         DEF Accounted, CountSlots, OnAggRelease, IInv, TypeOK, new
    <2>7. CASE r.event \in {"none", "collision"}
      BY <1>1, <1>4, <1>5, <1>12, <2>1, <2>4, <2>7
         DEF Accounted, CountSlots, IInv, TypeOK, new
    <2> QED BY <1>4, <2>5, <2>6, <2>7 DEF Accounted
  <1> QED BY <1>11, <1>12, <1>10 DEF TypeOK, IInv

\* Every step of the switch preserves the invariant.
LEMMA NextIInv == IInv /\ [Next]_vars => IInv'
  <1> SUFFICES ASSUME IInv, [Next]_vars PROVE IInv'
    OBVIOUS
  <1>1. ASSUME NEW n \in 1..MaxSlots, SetMaxAggregators(n) PROVE IInv'
    <2>1. /\ m_maxAggregators' = n
          /\ m_aggregators' = [i \in 0..(n - 1) |-> Reset]
          /\ m_aggCount' = [j \in Jobs |-> 0]
          /\ UNCHANGED <<m_enableHierarchicalAggregation, m_enableAggCount,
                         m_jobIdHashCollisionCounter>>
      BY <1>1 DEF SetMaxAggregators, switches
    <2>2. m_aggregators' \in [0..(m_maxAggregators' - 1) -> Slot]
      BY <2>1, ResetIsEmpty
    <2>3. TypeOK'
      BY <2>1, <2>2 DEF IInv, TypeOK
    <2>4. \A i \in DOMAIN m_aggregators' :
            m_aggregators'[i] = Reset /\ IsEmpty(m_aggregators'[i])
      BY <2>1, ResetIsEmpty
    <2>5. SlotHomed'
      BY <2>4 DEF SlotHomed, Held
    <2>6. \A j \in Jobs : /\ m_aggCount'[j] = 0
                          /\ Cardinality(HeldIn(m_aggregators', j)) = 0
      BY <2>1, <2>4, NoneHeld
    <2> QED BY <2>3, <2>5, <2>6 DEF IInv, AggCountExact, HeldBy, HeldIn, Held
  <1>2. ASSUME NEW enable \in BOOLEAN, SetEnableHierarchicalAggregation(enable)
        PROVE  IInv'
    BY <1>2 DEF SetEnableHierarchicalAggregation, IInv, TypeOK, SlotHomed,
                AggCountExact, HeldBy, Held
  <1>3. ASSUME NEW enable \in BOOLEAN, EnableAggregatorCount(enable)
        PROVE  IInv'
    <2>1. \A j \in Jobs : Cardinality(HeldIn(m_aggregators, j)) = 0
      BY <1>3, NoneHeld DEF EnableAggregatorCount
    <2>2. \A j \in Jobs : m_aggCount[j] = 0
      BY <2>1 DEF IInv, TypeOK, AggCountExact, HeldBy, HeldIn, Held
    <2>3. UNCHANGED <<m_maxAggregators, m_aggregators, m_aggCount>>
      BY <1>3 DEF EnableAggregatorCount
    <2>4. TypeOK'
      BY <1>3 DEF EnableAggregatorCount, IInv, TypeOK
    <2>5. SlotHomed'
      BY <2>3 DEF IInv, SlotHomed, Held
    <2> QED BY <2>1, <2>2, <2>3, <2>4, <2>5
            DEF IInv, AggCountExact, HeldBy, HeldIn, Held
  <1>4. ASSUME NEW p \in Arrivals, Filter(p) PROVE IInv'
    BY <1>4, FilterIInv
  <1>5. CASE UNCHANGED vars
    BY <1>5 DEF vars, switches, IInv, TypeOK, SlotHomed, AggCountExact,
                HeldBy, Held
  <1> QED BY <1>1, <1>2, <1>3, <1>4, <1>5 DEF Next

\* The inductive invariant holds throughout.
THEOREM Invariance == Spec => []IInv
  BY InitIInv, NextIInv, PTL DEF Spec

\* The switch's state stays well-typed: slots keep well-formed bitmaps and
\* owners whatever packets FilterPacket is given.
THEOREM TypeCorrect == Spec => []TypeOK
  <1>1. IInv => TypeOK
    BY DEF IInv
  <1> QED BY <1>1, Invariance, PTL

\* A held slot is found again by the hash of its owner, an unheld slot has
\* no owner left that a late ACK or retransmission could match.
THEOREM SlotsAreHomed == Spec => []SlotHomed
  <1>1. IInv => SlotHomed
    BY DEF IInv
  <1> QED BY <1>1, Invariance, PTL

\* OnAggAcquire and OnAggRelease are balanced: a job's count is the number
\* of slots it holds.
THEOREM AggCountIsExact == Spec => []AggCountExact
  <1>1. IInv => AggCountExact
    BY DEF IInv
  <1> QED BY <1>1, Invariance, PTL

\* No step hands a held slot to another (jobId, seqNum) or takes bits away
\* from one that stays held, except a resize, which empties every slot.
THEOREM SlotsAreNotStolen == Spec => NoSlotStealing
  <1> DEFINE Kept == \A i \in DOMAIN m_aggregators \cap DOMAIN m_aggregators' :
               Held(i) /\ Held(i)' =>
                 /\ m_aggregators'[i].m_jobId = m_aggregators[i].m_jobId
                 /\ m_aggregators'[i].m_seqNum = m_aggregators[i].m_seqNum
                 /\ m_aggregators[i].m_bitmap \subseteq m_aggregators'[i].m_bitmap
  <1>1. ASSUME IInv, [Next]_vars PROVE [Kept]_vars
    <2>1. CASE UNCHANGED m_aggregators
      BY <2>1
    <2>2. ASSUME NEW n \in 1..MaxSlots, SetMaxAggregators(n) PROVE Kept
      <3>1. \A i \in DOMAIN m_aggregators' : ~Held(i)'
        BY <2>2, ResetIsEmpty DEF SetMaxAggregators, Held
      <3> QED BY <3>1
    <2>3. ASSUME NEW p \in Arrivals, Filter(p) PROVE Kept
      <3> DEFINE index == HashToIndex(p.jobId, p.seqNum, m_maxAggregators)
                 slot == m_aggregators[index]
                 r == FilterPacket(slot, p, m_enableHierarchicalAggregation)
      <3>1. /\ p \in Packet
            /\ index \in 0..(m_maxAggregators - 1)
        BY SwitchAssumption, <1>1 DEF IInv, TypeOK, Packet
      <3>2. /\ DOMAIN m_aggregators = 0..(m_maxAggregators - 1)
            /\ slot \in Slot
        BY <3>1, <1>1 DEF IInv, TypeOK
      <3>3. Homed(slot, index, m_maxAggregators)
        BY <3>1, <3>2, <1>1, SlotHomedIsHomed DEF IInv
      <3>4. ~IsEmpty(slot) /\ ~IsEmpty(r.slot) =>
              /\ r.slot.m_jobId = slot.m_jobId
              /\ r.slot.m_seqNum = slot.m_seqNum
              /\ slot.m_bitmap \subseteq r.slot.m_bitmap
        BY <3>1, <3>2, <3>3, <1>1, FilterPacketSlot DEF IInv, TypeOK
      <3>5. m_aggregators' = [m_aggregators EXCEPT ![index] = r.slot]
        BY <2>3 DEF Filter
      <3> HIDE DEF index, r
      <3> QED BY <3>1, <3>2, <3>4, <3>5 DEF Held
    <2> QED BY <1>1, <2>1, <2>2, <2>3
            DEF Next, vars, SetEnableHierarchicalAggregation,
                EnableAggregatorCount
  <1> QED BY <1>1, Invariance, PTL DEF Spec, NoSlotStealing
=============================================================================
