--------------------------- MODULE ATPSystemProofs ---------------------------
(***************************************************************************)
(* Proofs about the protocol end to end, for every number of leaves,       *)
(* workers, packets and slots, every choice of windows and every bound on  *)
(* links, losses and premature timeouts.                                   *)
(*                                                                         *)
(* The proofs rest on the lemmas of the parts: ATPTxBufferProofs says what *)
(* a worker's buffer may do, ATPSenderProofs (as W) how its queues stay in *)
(* order, and ATPReceiverProofs (as R) what the server does with any       *)
(* packet.  What is added here is the invariant of the network between     *)
(* them.                                                                   *)
(***************************************************************************)
EXTENDS ATPSystem, ATPTxBufferProofs

R == INSTANCE ATPReceiverProofs WITH
       Jobs <- {Job}, JobTreeMap <- [j \in {Job} |-> Tree],
       AddressMap <- {Job}, Arrivals <- {}, RxBufferSize <- 2000,
       RxModulus <- 2^30, MaxAckEvents <- LinkCapacity

Bits == 0..31

DataPackets ==
  [jobId : {Job}, seqNum : SeqNums, bitmap0 : SUBSET Bits,
   bitmap1 : SUBSET Bits, fanin0 : Nat, fanin1 : Nat, edge : {0, 1},
   resend : BOOLEAN, collision : BOOLEAN, isAck : {FALSE},
   data : SUBSET (Bits \X SeqNums)]

SlotStates ==
  [m_bitmap : SUBSET Bits, m_count : Nat, m_jobId : {0, Job},
   m_seqNum : SeqNums \cup {0}, data : SUBSET (Bits \X SeqNums)]

Indices == 0..(Slots - 1)

\* The sequence numbers the server has delivered.
Done == {s \in SeqNums : R!IsDelivered(<<Job, s>>)}

NetworkTypes ==
  /\ tx \in [Workers -> BuffersOf(SeqNums)]
  /\ slots \in [Leaves -> [Indices -> SlotStates]]
  /\ coreSlots \in [Indices -> SlotStates]
  /\ up \in [Workers -> Seq(DataPackets)]
  /\ leafUp \in [Leaves -> Seq(DataPackets)]
  /\ coreUp \in Seq(DataPackets)

\* Every ACK under way, and every left bound, is of a delivered packet.
AcksDone ==
  /\ ackCore \in Seq(Done)
  /\ ackLeaf \in [Leaves -> Seq(Done)]
  /\ ackWorker \in [Workers -> Seq(Done)]
  /\ \A w \in Workers : tx[w].m_leftBound \in Done \cup {0}

IInv == NetworkTypes /\ AcksDone /\ R!IInv
-----------------------------------------------------------------------------
\* The flat positions that bits of leaf l stand for, of sequence number s.
Parts(l, bits, s) == {<<Offset(l) + k, s>> : k \in bits}

\* A packet that speaks for workers of leaf l, and carries their data.
FromLeaf(l) ==
  {p \in DataPackets :
     /\ p.bitmap1 = {l - 1}
     /\ p.bitmap0 \subseteq 0..(FanIns[l] - 1)
     /\ p.data = Parts(l, p.bitmap0, p.seqNum)}

FromSomeLeaf == {p \in DataPackets : \E l \in Leaves : p \in FromLeaf(l)}

\* Such a packet on its way to the leaf, and behind it, where the second
\* switch has no reason to touch it.
Fresh(l) == {p \in FromLeaf(l) : p.edge = 0 /\ ~p.collision}
Passing(l) == {p \in FromLeaf(l) : p.edge = 1 \/ p.collision \/ p.resend}

\* What waits in a slot of leaf l is of its workers.
HonestSlot(slot, l) ==
  /\ slot.m_bitmap \subseteq 0..(FanIns[l] - 1)
  /\ slot.data = Parts(l, slot.m_bitmap, slot.m_seqNum)
  /\ slot.m_count = 0 => slot.m_bitmap = {}

Honesty ==
  /\ \A w \in Workers : up[w] \in Seq(Fresh(LeafOf(w)))
  /\ \A l \in Leaves : leafUp[l] \in Seq(Passing(l))
  /\ coreUp \in Seq(FromSomeLeaf)
  /\ \A l \in Leaves : \A i \in Indices : HonestSlot(slots[l][i], l)
  /\ \A i \in Indices : coreSlots[i] = Reset
  /\ R!Truthful
-----------------------------------------------------------------------------
(* The server here and the one the lemmas of R are about.                  *)

\* R's assumption on its constants holds of the ones it is given.
LEMMA ServerAssumption == R!ReceiverAssumption
<1>1. SeqNums \subseteq Nat /\ LinkCapacity \in Nat
  BY SystemAssumption DEF SeqNums
<1>2. Tree.expectedFlatBitmap \subseteq R!Uint32Bits
  <2> DEFINE br == Tree.branches
             parts == {JobTree!BranchBits(br, b, br[b].fullBitmap0) :
                         b \in DOMAIN br}
  <2>1. Tree.expectedFlatBitmap = UNION parts
    BY DEF Tree, JobTree!InstallJobTree
  <2>2. \A b, bits : JobTree!BranchBits(br, b, bits) \subseteq R!Uint32Bits
    BY DEF JobTree!BranchBits, JobTree!Uint32Bits, R!Uint32Bits
  <2> QED
    BY <2>1, <2>2
<1>3. 2^30 \in Nat \ {0} /\ 2000 \in Nat
  OBVIOUS
<1> QED
  BY <1>1, <1>2, <1>3 DEF R!ReceiverAssumption

\* The two name the same flat bitmap.
LEMMA SameFlatBitmap ==
  ASSUME NEW p
  PROVE  PS!GetFlatBitmap(p) = R!GetFlatBitmap(p)
  BY DEF PS!GetFlatBitmap, PS!ConvertToFlatBitmap, PS!BranchBits,
         PS!WorkerOffset, PS!Uint32Bits, PS!MapThenSumSet, PS!MapThenFoldSet,
         R!GetFlatBitmap, R!ConvertToFlatBitmap, R!BranchBits,
         R!WorkerOffset, R!Uint32Bits, R!MapThenSumSet, R!MapThenFoldSet

\* They complete an aggregation in the same way.
LEMMA SameComplete ==
  ASSUME NEW p
  PROVE  PS!Complete(p) <=> R!Complete(p)
<1>1. ASSUME NEW win, NEW s
      PROVE  PS!UpdateRcvWindow(win, s) = R!UpdateRcvWindow(win, s)
  BY DEF PS!UpdateRcvWindow, PS!Advanced, PS!FirstMissing, PS!Cardinality,
         R!UpdateRcvWindow, R!Advanced, R!FirstMissing, R!Cardinality
<1>2. ASSUME NEW b
      PROVE  PS!NotifyDataRecv(b) <=> R!NotifyDataRecv(b)
  BY DEF PS!NotifyDataRecv, PS!HandleRead, PS!OfJob, PS!Cardinality,
         R!NotifyDataRecv, R!HandleRead, R!OfJob, R!Cardinality
<1> QED
  BY <1>1, <1>2 DEF PS!Complete, PS!KeyOf, PS!IsDuplicatePacket,
                    R!Complete, R!KeyOf, R!IsDuplicatePacket

\* They receive a packet in the same way.
LEMMA SameForwardUp ==
  ASSUME NEW p
  PROVE  PS!ForwardUp(p) <=> R!ForwardUp(p)
<1>1. PS!AggregatePacket(p) <=> R!AggregatePacket(p)
  BY SameFlatBitmap, SameComplete
     DEF PS!AggregatePacket, PS!KeyOf, PS!ProcessPacket, PS!NoAggregator,
         R!AggregatePacket, R!KeyOf, R!ProcessPacket, R!NoAggregator
<1> QED
  BY <1>1, SameFlatBitmap, SameComplete DEF PS!ForwardUp, R!ForwardUp

\* They start, acknowledge and promise the same.
LEMMA SameServer ==
  /\ PS!NewSocket <=> R!NewSocket
  /\ PS!SendMultiAck <=> R!SendMultiAck
  /\ \A k : PS!IsDelivered(k) <=> R!IsDelivered(k)
  /\ PS!AtMostOnce <=> R!AtMostOnce
  /\ PS!DeliveredComplete <=> R!DeliveredComplete
<1>1. PS!NewSocket <=> R!NewSocket
  BY DEF PS!NewSocket, PS!Key, PS!NoAggregator,
         R!NewSocket, R!Key, R!NoAggregator
<1>2. PS!SendMultiAck <=> R!SendMultiAck
  BY DEF PS!SendMultiAck, R!SendMultiAck
<1>3. \A k : PS!IsDelivered(k) <=> R!IsDelivered(k)
  BY DEF PS!IsDelivered, PS!KeyOf, R!IsDelivered, R!KeyOf
<1>4. PS!AtMostOnce <=> R!AtMostOnce
  BY DEF PS!AtMostOnce, PS!KeyOf, R!AtMostOnce, R!KeyOf
<1>5. PS!DeliveredComplete <=> R!DeliveredComplete
  BY DEF PS!DeliveredComplete, R!DeliveredComplete
<1> QED
  BY <1>1, <1>2, <1>3, <1>4, <1>5
-----------------------------------------------------------------------------
(* The numbering of leaves and workers.                                    *)

\* The fan-ins of the first b leaves, under the bits they have in bitmap1.
FanInsBelow(b) == [c \in 0..(b - 1) |-> FanIns[c + 1]]

Branches == Tree.branches

\* The branches of the job's tree have the fan-ins.
LEMMA BranchFanIns ==
  /\ DOMAIN Branches = 0..(Len(FanIns) - 1)
  /\ \A c \in DOMAIN Branches : Branches[c].fanInDegree0 = FanIns[c + 1]
  BY DEF Branches, Tree, JobTree!InstallJobTree

\* The loop of ConvertToFlatBitmap adds up the fan-ins below a branch.
LEMMA OffsetIsTotal ==
  ASSUME NEW b \in 0..Len(FanIns)
  PROVE  JobTree!WorkerOffset(Branches, b) = Total(FanInsBelow(b), 0..(b - 1))
  <1> DEFINE S == 0..(b - 1)
             T == {c \in DOMAIN Branches : c < b}
             f == FanInsBelow(b)
             Adds(h) == h = [s \in SUBSET T |->
                               IF s = {} THEN 0
                               ELSE Branches[Some(s)].fanInDegree0 + h[s \ {Some(s)}]]
  <1>1. Len(FanIns) \in Nat /\ b \in Nat
    BY SystemAssumption
  <1>2. T = S
    BY <1>1, BranchFanIns
  <1>3. \A c \in T : Branches[c].fanInDegree0 = f[c]
    BY <1>1, BranchFanIns DEF FanInsBelow
  <1>4. IsFiniteSet(S)
    BY <1>1, FS_Interval
  <1> HIDE DEF S, f
  <1>5. \A h : Adds(h) <=> Sums(f, SUBSET T, h)
    <2> SUFFICES ASSUME NEW h
                 PROVE  Adds(h) <=> Sums(f, SUBSET T, h)
      OBVIOUS
    <2>1. \A s \in SUBSET T : s # {} => Branches[Some(s)].fanInDegree0 = f[Some(s)]
      BY <1>3, SomeOf
    <2> HIDE DEF T
    <2>2. [s \in SUBSET T |-> IF s = {} THEN 0
             ELSE Branches[Some(s)].fanInDegree0 + h[s \ {Some(s)}]]
          = [s \in SUBSET T |-> IF s = {} THEN 0 ELSE f[Some(s)] + h[s \ {Some(s)}]]
      BY <2>1
    <2> QED BY <2>2 DEF Sums
  <1>6. \E h : Sums(f, SUBSET T, h)
    BY <1>2, <1>4, SumsExist
  <1> DEFINE g == CHOOSE h : Adds(h)
  <1>7. Adds(g)
    BY <1>5, <1>6, Zenon
  <1>8. JobTree!WorkerOffset(Branches, b) = g[T]
    BY Zenon DEF JobTree!WorkerOffset, JobTree!MapThenSumSet,
                 JobTree!MapThenFoldSet, Some
  <1>9. Sums(f, SUBSET T, g)
    <2> HIDE DEF g, Adds
    <2> QED BY <1>5, <1>7
  <1> HIDE DEF g, T, Adds
  <1>10. Sums(f, SUBSET S, g) /\ JobTree!WorkerOffset(Branches, b) = g[S]
    BY <1>2, <1>8, <1>9
  <1>11. PICK h : Sums(f, SUBSET S, h) /\ Total(f, S) = h[S]
    BY <1>10, TotalIsSum
  <1>12. g[S] = h[S]
    <2>1. \A u \in SUBSET (S \cap S) : (\A x \in u : f[x] = f[x]) => g[u] = h[u]
      BY <1>4, <1>10, <1>11, SumsAgree
    <2> QED BY <2>1
  <1> QED BY <1>10, <1>11, <1>12 DEF S, f

\* The workers below the branch of bit b.
Below(b) == Total(FanInsBelow(b), 0..(b - 1))

\* They grow from branch to branch by the fan-in.
LEMMA BelowGrows ==
  /\ Below(0) = 0
  /\ \A b \in 0..(Len(FanIns) - 1) : Below(b + 1) = Below(b) + FanIns[b + 1]
  <1>1. FanIns \in Seq(Nat \ {0}) /\ Len(FanIns) \in Nat
    BY SystemAssumption
  <1>2. Below(0) = 0
    <2>1. 0..(0 - 1) = {}
      OBVIOUS
    <2> QED BY <2>1, TotalEmpty DEF Below
  <1>3. ASSUME NEW b \in 0..(Len(FanIns) - 1)
        PROVE  Below(b + 1) = Below(b) + FanIns[b + 1]
    <2> DEFINE S == 0..(b - 1)
               f == FanInsBelow(b)
               e == FanInsBelow(b + 1)
               n == FanIns[b + 1]
    <2>1. b \in Nat /\ n \in Nat
      BY <1>1
    <2>2. S \cup {b} = 0..((b + 1) - 1) /\ b \notin S
      BY <2>1
    <2>3. IsFiniteSet(S)
      BY <2>1, FS_Interval
    <2>4. f \in [S -> Nat] /\ \A c \in S : f[c] = FanIns[c + 1]
      BY <1>1 DEF FanInsBelow
    <2>5. /\ e \in [S \cup {b} -> Nat]
          /\ \A c \in S \cup {b} : e[c] = FanIns[c + 1]
      <3>1. e = [c \in S \cup {b} |-> FanIns[c + 1]]
        BY <2>2 DEF FanInsBelow
      <3>2. \A c \in S \cup {b} : FanIns[c + 1] \in Nat
        BY <1>1, <2>2
      <3> QED BY <3>1, <3>2
    <2> HIDE DEF S, f, e
    <2>6. \A c \in S \ {b} : e[c] = f[c]
      BY <2>4, <2>5
    <2>7. Total(e, S \cup {b}) = IF b \in S THEN Total(f, S) - f[b] + e[b]
                                 ELSE Total(f, S) + e[b]
      BY ONLY <2>3, <2>4, <2>5, <2>6, TotalChanges
    <2>8. Total(e, S \cup {b}) = Total(f, S) + n
      BY <2>2, <2>5, <2>7
    <2> QED BY <2>2, <2>8 DEF Below, S, f, e
  <1> QED BY <1>2, <1>3

\* Each leaf has a worker at least.
LEMMA BelowBound ==
  \A b \in 0..Len(FanIns) : Below(b) \in Nat /\ Below(b) >= b
  <1> DEFINE N == {k \in Nat : k <= Len(FanIns) => Below(k) \in Nat /\ Below(k) >= k}
  <1>1. FanIns \in Seq(Nat \ {0}) /\ Len(FanIns) \in Nat
    BY SystemAssumption
  <1>2. 0 \in N
    BY BelowGrows
  <1>3. ASSUME NEW k \in N PROVE k + 1 \in N
    <2> SUFFICES ASSUME k + 1 <= Len(FanIns)
                 PROVE  Below(k + 1) \in Nat /\ Below(k + 1) >= k + 1
      OBVIOUS
    <2>1. k \in Nat /\ Below(k) \in Nat /\ Below(k) >= k
      BY <1>1
    <2>2. FanIns[k + 1] \in Nat \ {0}
      BY <1>1, <2>1
    <2>3. Below(k + 1) = Below(k) + FanIns[k + 1]
      BY <1>1, <2>1, BelowGrows
    <2> QED BY <2>1, <2>2, <2>3
  <1>4. N \in SUBSET Nat
    OBVIOUS
  <1> HIDE DEF N
  <1>5. \A k \in Nat : k \in N
    BY <1>2, <1>3, <1>4, Upwards
  <1> QED BY <1>1, <1>5 DEF N

\* The first worker of a leaf has the number of workers before it.
LEMMA OffsetIsBelow ==
  ASSUME NEW l \in Leaves
  PROVE  Offset(l) = Below(l - 1)
  <1> DEFINE Adds(h) == h = [k \in 0..Len(FanIns) |->
                               IF k = 0 THEN 0 ELSE h[k - 1] + FanIns[k]]
             sum == CHOOSE h : Adds(h)
             below == [k \in 0..Len(FanIns) |-> Below(k)]
             N == {k \in Nat : k <= Len(FanIns) => sum[k] = Below(k)}
  <1>1. Len(FanIns) \in Nat /\ l \in 1..Len(FanIns)
    BY SystemAssumption DEF Leaves
  <1>2. Adds(below)
    <2>1. ASSUME NEW k \in 0..Len(FanIns)
          PROVE  Below(k) = IF k = 0 THEN 0 ELSE below[k - 1] + FanIns[k]
      <3>1. CASE k = 0
        BY <3>1, BelowGrows
      <3>2. CASE k # 0
        <4>1. k - 1 \in 0..(Len(FanIns) - 1) /\ (k - 1) + 1 = k
          BY <1>1, <3>2
        <4>2. Below(k) = Below(k - 1) + FanIns[k]
          BY <4>1, BelowGrows
        <4> QED BY <1>1, <3>2, <4>1, <4>2
      <3> QED BY <3>1, <3>2
    <2>2. [k \in 0..Len(FanIns) |-> Below(k)]
          = [k \in 0..Len(FanIns) |-> IF k = 0 THEN 0 ELSE below[k - 1] + FanIns[k]]
      <3> HIDE DEF below
      <3> QED BY <2>1
    <2> QED BY <2>2
  <1>3. Adds(sum)
    <2> HIDE DEF below, Adds
    <2> QED BY <1>2
  <1>4. Offset(l) = sum[l - 1]
    BY Zenon DEF Offset
  <1> HIDE DEF sum
  <1>5. 0 \in N
    BY <1>1, <1>3, BelowGrows
  <1>6. ASSUME NEW k \in N PROVE k + 1 \in N
    <2> SUFFICES ASSUME k + 1 <= Len(FanIns)
                 PROVE  sum[k + 1] = Below(k + 1)
      OBVIOUS
    <2>1. k \in Nat /\ k + 1 # 0 /\ (k + 1) - 1 = k /\ k + 1 \in 0..Len(FanIns)
      BY <1>1
    <2>2. sum[k] = Below(k)
      BY <1>1
    <2>3. sum[k + 1] = sum[k] + FanIns[k + 1]
      BY <1>3, <2>1
    <2>4. Below(k + 1) = Below(k) + FanIns[k + 1]
      BY <1>1, <2>1, BelowGrows
    <2> QED BY <2>2, <2>3, <2>4
  <1>7. N \in SUBSET Nat
    OBVIOUS
  <1> HIDE DEF N
  <1>8. l - 1 \in N
    BY <1>1, <1>5, <1>6, <1>7, Upwards
  <1> QED BY <1>1, <1>4, <1>8 DEF N

\* The names the workers have here are the positions at which
\* ConvertToFlatBitmap puts them, whenever these fit into its 32 bits.
LEMMA NumberingIsFlat ==
  ASSUME WorkersFit
  PROVE  FlatNumbering
  <1>1. FanIns \in Seq(Nat \ {0}) /\ Len(FanIns) \in Nat
    BY SystemAssumption
  <1>2. ASSUME NEW l \in Leaves
        PROVE  /\ Offset(l) \in Nat /\ Offset(l) >= l - 1
               /\ Offset(l) = JobTree!WorkerOffset(Tree.branches, l - 1)
               /\ Under(l) \subseteq JobTree!Uint32Bits
    <2> DEFINE b == l - 1
    <2>1. b \in 0..Len(FanIns)
      BY <1>1 DEF Leaves
    <2>2. Offset(l) = Below(b)
      BY OffsetIsBelow
    <2> HIDE DEF b
    <2>3. Below(b) \in Nat /\ Below(b) >= b
      BY <2>1, BelowBound
    <2>4. JobTree!WorkerOffset(Tree.branches, b) = Below(b)
      BY <2>1, OffsetIsTotal DEF Branches, Below
    <2>5. Under(l) \subseteq Workers /\ Workers \subseteq JobTree!Uint32Bits
      BY DEF Workers, WorkersFit
    <2> QED BY <2>2, <2>3, <2>4, <2>5 DEF b
  <1>3. Len(FanIns) <= 32
    <2> SUFFICES ASSUME Len(FanIns) >= 33 PROVE FALSE
      BY <1>1
    <2> DEFINE l == Len(FanIns)
               o == Offset(l)
    <2>1. l \in Leaves /\ FanIns[l] \in Nat \ {0}
      BY <1>1 DEF Leaves
    <2>2. o \in Under(l)
      BY <1>2, <2>1 DEF Under
    <2>3. o \in 0..31 /\ o >= l - 1
      BY <1>2, <2>1, <2>2 DEF JobTree!Uint32Bits
    <2> HIDE DEF o
    <2> QED BY <1>1, <2>3
  <1> QED BY <1>2, <1>3 DEF FlatNumbering

\* Every worker is under the leaf it sends to.
LEMMA LeafOfWorker ==
  \A w \in Workers : LeafOf(w) \in Leaves /\ w \in Under(LeafOf(w))
  BY DEF Workers, LeafOf

\* The positions of leaves and workers fit into the bitmaps.
LEMMA Positions ==
  ASSUME FlatNumbering, NEW l \in Leaves
  PROVE  /\ l \in 1..Len(FanIns) /\ Len(FanIns) \in Nat /\ l - 1 \in Bits
         /\ FanIns[l] \in Nat \ {0} /\ Offset(l) \in Nat
         /\ \A k \in 0..(FanIns[l] - 1) : k \in Bits /\ Offset(l) + k \in Bits
<1>1. FanIns \in Seq(Nat \ {0})
  BY SystemAssumption
<1>2. l \in 1..Len(FanIns) /\ Len(FanIns) \in Nat /\ FanIns[l] \in Nat \ {0}
  BY <1>1 DEF Leaves
<1>3. l - 1 \in Bits
  BY <1>2 DEF FlatNumbering, Bits
<1>4. Offset(l) \in Nat /\ Under(l) \subseteq Bits
  BY DEF FlatNumbering, Bits, JobTree!Uint32Bits
<1>5. ASSUME NEW k \in 0..(FanIns[l] - 1)
      PROVE  k \in Bits /\ Offset(l) + k \in Bits
  <2> DEFINE o == Offset(l)
             f == FanIns[l]
  <2>0. o \in Nat /\ f \in Nat \ {0} /\ k \in 0..(f - 1) /\ Under(l) = o..(o + f - 1)
    BY <1>2, <1>4 DEF Under
  <2> HIDE DEF o, f
  <2>1. o + k \in Under(l)
    BY <2>0
  <2>2. o + k \in 0..31
    BY <1>4, <2>1 DEF Bits
  <2>3. k \in Bits /\ o + k \in Bits
    BY <2>0, <2>2 DEF Bits
  <2> QED
    BY <2>3 DEF o
<1> QED
  BY <1>2, <1>3, <1>4, <1>5

\* The data of workers of a leaf are contributions.
LEMMA PartsType ==
  ASSUME FlatNumbering, NEW l \in Leaves, NEW bits, NEW s \in SeqNums,
         bits \subseteq 0..(FanIns[l] - 1)
  PROVE  Parts(l, bits, s) \subseteq Bits \X SeqNums
  BY Positions DEF Parts

\* A worker's application tags its packets truthfully.
LEMMA TaggedIsFresh ==
  ASSUME FlatNumbering, NEW w \in Workers, NEW o \in OutOf(SeqNums)
  PROVE  Tagged(w, o) \in Fresh(LeafOf(w))
<1> DEFINE l == LeafOf(w)
           k == w - Offset(l)
           p == Tagged(w, o)
<1>1. /\ l \in Leaves /\ w \in Under(l)
  BY LeafOfWorker
<1>2. o.m_packetId \in SeqNums /\ o.resend \in BOOLEAN
  BY DEF OutOf
<1> HIDE DEF l
<1>3. /\ l - 1 \in Bits /\ FanIns[l] \in Nat \ {0} /\ Offset(l) \in Nat
      /\ Len(FanIns) \in Nat
  BY <1>1, Positions
<1>4. k \in 0..(FanIns[l] - 1) /\ Offset(l) + k = w
  BY <1>1, <1>3 DEF Under
<1>5. k \in Bits /\ w \in Bits
  BY <1>1, <1>4, Positions
<1> HIDE DEF k
<1> DEFINE id == o.m_packetId
           res == o.resend
<1>6. p = [jobId |-> Job, seqNum |-> id, bitmap0 |-> {k}, bitmap1 |-> {l - 1},
           fanin0 |-> FanIns[l], fanin1 |-> Len(FanIns), edge |-> 0,
           resend |-> res, collision |-> FALSE, isAck |-> FALSE,
           data |-> {<<w, id>>}]
  BY DEF Tagged, l, k
<1> HIDE DEF p, id, res
<1>7. id \in SeqNums /\ res \in BOOLEAN
  BY <1>2 DEF id, res
<1>8. {<<w, id>>} \subseteq Bits \X SeqNums /\ {k} \subseteq Bits /\ {l - 1} \subseteq Bits
  BY <1>3, <1>5, <1>7
<1>9. p \in DataPackets
  BY <1>3, <1>6, <1>7, <1>8 DEF DataPackets
<1>10. {<<w, id>>} = Parts(l, {k}, id)
  BY <1>4 DEF Parts
<1>11. /\ p.bitmap1 = {l - 1} /\ p.bitmap0 = {k} /\ p.seqNum = id
       /\ p.data = {<<w, id>>} /\ p.edge = 0 /\ ~p.collision
  BY <1>6
<1>12. p \in FromLeaf(l)
  BY <1>4, <1>9, <1>10, <1>11 DEF FromLeaf
<1> QED
  BY <1>11, <1>12 DEF Fresh, p, l
-----------------------------------------------------------------------------
(* What a switch makes of a packet.                                        *)

\* Packets whose bitmap, data and level, or whose flags, were rewritten.
LEMMA Rewritten ==
  ASSUME NEW p \in DataPackets, NEW bits \in SUBSET Bits,
         NEW d \in SUBSET (Bits \X SeqNums)
  PROVE  /\ [p EXCEPT !.bitmap0 = bits, !.edge = 1, !.data = d] \in DataPackets
         /\ [p EXCEPT !.edge = 1, !.bitmap0 = bits, !.data = d] \in DataPackets
         /\ [p EXCEPT !.bitmap1 = bits, !.edge = 0, !.data = d] \in DataPackets
         /\ [p EXCEPT !.resend = TRUE, !.collision = TRUE] \in DataPackets
  BY DEF DataPackets

\* A slot that took a packet in.
AddedTo(slot, bits, d) ==
  [slot EXCEPT !.m_bitmap = @ \cup bits, !.m_count = @ + 1, !.data = @ \cup d]

\* It has the packet's bits and data too, and one contribution more.
LEMMA AddedFields ==
  ASSUME NEW slot \in SlotStates, NEW bits, NEW d
  PROVE  LET a == AddedTo(slot, bits, d) IN
         /\ a.m_bitmap = slot.m_bitmap \cup bits
         /\ a.m_count = slot.m_count + 1
         /\ a.m_seqNum = slot.m_seqNum
         /\ a.data = slot.data \cup d
<1> DEFINE b == slot.m_bitmap \cup bits
           c == slot.m_count + 1
           e == slot.data \cup d
           a == AddedTo(slot, bits, d)
<1>1. a = [slot EXCEPT !.m_bitmap = b, !.m_count = c, !.data = e]
  BY Zenon DEF AddedTo, b, c, e
<1> HIDE DEF a, b, c, e
<1>2. /\ a.m_bitmap = b /\ a.m_count = c
      /\ a.m_seqNum = slot.m_seqNum /\ a.data = e
  BY <1>1 DEF SlotStates
<1> QED
  BY <1>2 DEF a, b, c, e

\* And it is a slot again, when they are of their types.
LEMMA Added ==
  ASSUME NEW slot \in SlotStates, NEW bits \in SUBSET Bits,
         NEW d \in SUBSET (Bits \X SeqNums)
  PROVE  LET a == AddedTo(slot, bits, d) IN
         /\ a \in SlotStates
         /\ a.m_bitmap = slot.m_bitmap \cup bits
         /\ a.m_count = slot.m_count + 1
         /\ a.m_seqNum = slot.m_seqNum
         /\ a.data = slot.data \cup d
<1> DEFINE b == slot.m_bitmap \cup bits
           c == slot.m_count + 1
           e == slot.data \cup d
           a == AddedTo(slot, bits, d)
<1>1. b \in SUBSET Bits /\ c \in Nat /\ e \in SUBSET (Bits \X SeqNums)
  BY DEF SlotStates
<1> HIDE DEF b, c, e
<1>2. a = [slot EXCEPT !.m_bitmap = b, !.m_count = c, !.data = e]
  BY Zenon DEF AddedTo, b, c, e
<1> HIDE DEF a
<1>3. /\ a \in SlotStates /\ a.m_bitmap = b /\ a.m_count = c
      /\ a.m_seqNum = slot.m_seqNum /\ a.data = e
  BY <1>1, <1>2 DEF SlotStates
<1> QED
  BY <1>3 DEF a, b, c, e

\* The fields of a packet.
LEMMA PacketFields ==
  ASSUME NEW p \in DataPackets
  PROVE  /\ p.jobId = Job /\ p.seqNum \in SeqNums
         /\ p.bitmap0 \in SUBSET Bits /\ p.bitmap1 \in SUBSET Bits
         /\ p.data \in SUBSET (Bits \X SeqNums)
         /\ p.resend \in BOOLEAN /\ p.collision \in BOOLEAN /\ ~p.isAck
         /\ p.edge \in {0, 1} /\ p.fanin0 \in Nat
  BY DEF DataPackets

\* What Aggregator::ProcessPacket leaves and sends.
LEMMA ProcessTypes ==
  ASSUME NEW slot \in SlotStates, NEW p \in DataPackets, NEW event
  PROVE  /\ ProcessPacket(slot, p, event).slot \in SlotStates
         /\ ProcessPacket(slot, p, event).out \in Seq(DataPackets)
<1> DEFINE bits == LevelBitmap(p)
           a == [slot EXCEPT !.m_bitmap = @ \cup bits, !.m_count = @ + 1,
                             !.data = @ \cup p.data]
           r == ProcessPacket(slot, p, event)
<1>1. bits \in SUBSET Bits /\ p.data \in SUBSET (Bits \X SeqNums)
  BY PacketFields DEF LevelBitmap
<1>2. CASE bits \subseteq slot.m_bitmap
  <2>1. r.slot = slot /\ r.out = <<>>
    BY <1>2 DEF ProcessPacket, Outcome
  <2> QED
    BY <2>1
<1>3. CASE ~(bits \subseteq slot.m_bitmap)
  <2>1. /\ r.slot = a
        /\ r.out = IF a.m_count = LevelFanin(p)
                   THEN <<GetResultPacket(a, p)>> ELSE <<>>
    BY <1>3 DEF ProcessPacket, Outcome
  <2>2. a \in SlotStates
    <3> DEFINE d == p.data
    <3>1. a = AddedTo(slot, bits, d)
      BY Zenon DEF AddedTo
    <3> HIDE DEF a, bits, d
    <3>2. d \in SUBSET (Bits \X SeqNums)
      BY <1>1 DEF d
    <3> QED
      BY <1>1, <3>1, <3>2, Added
  <2> HIDE DEF a
  <2>3. a.m_bitmap \in SUBSET Bits /\ a.data \in SUBSET (Bits \X SeqNums)
    BY <2>2 DEF SlotStates
  <2>4. GetResultPacket(a, p) \in DataPackets
    BY <2>3, Rewritten DEF GetResultPacket
  <2> QED
    BY <2>1, <2>2, <2>4
<1> QED
  BY <1>2, <1>3

\* Reset gives a slot.
LEMMA ResetType == Reset \in SlotStates
  BY DEF Reset, SlotStates

\* Taking an empty slot for a packet.
LEMMA ClaimType ==
  ASSUME NEW slot \in SlotStates, NEW p \in DataPackets
  PROVE  /\ Claim(slot, p) \in SlotStates
         /\ Claim(slot, p).m_seqNum = p.seqNum
         /\ Claim(slot, p).m_bitmap = slot.m_bitmap
         /\ Claim(slot, p).m_count = slot.m_count
         /\ Claim(slot, p).data = slot.data
<1> DEFINE j == p.jobId
           s == p.seqNum
           c == Claim(slot, p)
<1>1. j \in {0, Job} /\ s \in SeqNums \cup {0}
  BY PacketFields
<1>2. c = [slot EXCEPT !.m_jobId = j, !.m_seqNum = s]
  BY DEF Claim
<1> HIDE DEF j, s, c
<1>3. /\ c \in SlotStates /\ c.m_seqNum = s /\ c.m_bitmap = slot.m_bitmap
      /\ c.m_count = slot.m_count /\ c.data = slot.data
  BY <1>1, <1>2 DEF SlotStates
<1> QED
  BY <1>3 DEF c, s

\* The branches FilterPacket can take on a data packet, which it lets pass
\* when it was in a collision, or aggregated once and that is all there is.
LEMMA FilterBranches ==
  ASSUME NEW slot, NEW p \in DataPackets, NEW h \in BOOLEAN
  PROVE  LET r == FilterPacket(slot, p, h)
             passes == p.collision \/ (~h /\ p.edge = 1)
         IN
         \/ /\ passes \/ (p.resend /\ ~Matches(slot, p))
            /\ r = Outcome(slot, <<p>>, "none")
         \/ /\ ~passes /\ p.resend /\ Matches(slot, p)
            /\ r = ResendPacket(slot, p)
         \/ /\ ~passes /\ ~p.resend /\ IsEmpty(slot)
            /\ r = ProcessPacket(Claim(slot, p), p, "acquire")
         \/ /\ ~passes /\ ~p.resend /\ ~IsEmpty(slot) /\ Matches(slot, p)
            /\ r = ProcessPacket(slot, p, "none")
         \/ /\ ~passes /\ ~p.resend
            /\ r = Outcome(slot, <<[p EXCEPT !.resend = TRUE, !.collision = TRUE]>>,
                           "collision")
<1>1. ~p.isAck /\ p.resend \in BOOLEAN /\ p.collision \in BOOLEAN
  BY PacketFields
<1>2. CASE p.collision \/ (~h /\ p.edge = 1)
  BY <1>1, <1>2, Zenon DEF FilterPacket
<1>3. CASE ~(p.collision \/ (~h /\ p.edge = 1))
  <2>1. FilterPacket(slot, p, h) = AggregatePacket(slot, p)
    BY <1>1, <1>3, Zenon DEF FilterPacket
  <2>2. CASE p.resend /\ Matches(slot, p)
    BY <1>1, <1>3, <2>1, <2>2, Zenon DEF AggregatePacket
  <2>3. CASE p.resend /\ ~Matches(slot, p)
    BY <1>1, <1>3, <2>1, <2>3, Zenon DEF AggregatePacket
  <2>4. CASE ~p.resend /\ IsEmpty(slot)
    BY <1>1, <1>3, <2>1, <2>4, Zenon DEF AggregatePacket
  <2>5. CASE ~p.resend /\ ~IsEmpty(slot) /\ Matches(slot, p)
    BY <1>1, <1>3, <2>1, <2>5, Zenon DEF AggregatePacket
  <2>6. CASE ~p.resend /\ ~IsEmpty(slot) /\ ~Matches(slot, p)
    BY <1>1, <1>3, <2>1, <2>6, Zenon DEF AggregatePacket
  <2> QED
    BY <1>1, <2>2, <2>3, <2>4, <2>5, <2>6
<1> QED
  BY <1>2, <1>3

\* A switch keeps slots slots and sends on packets.
LEMMA FilterTypes ==
  ASSUME NEW slot \in SlotStates, NEW p \in DataPackets, NEW h \in BOOLEAN
  PROVE  /\ FilterPacket(slot, p, h).slot \in SlotStates
         /\ FilterPacket(slot, p, h).out \in Seq(DataPackets)
<1> DEFINE r == FilterPacket(slot, p, h)
           Goal == r.slot \in SlotStates /\ r.out \in Seq(DataPackets)
<1>1. ASSUME NEW s \in SlotStates, NEW q \in DataPackets, NEW e, r = Outcome(s, <<q>>, e)
      PROVE  Goal
  <2>1. r.slot = s /\ r.out = <<q>>
    BY <1>1 DEF Outcome
  <2> HIDE DEF r
  <2> QED
    BY <2>1
<1>2. CASE r = ResendPacket(slot, p)
  <2> DEFINE bits == slot.m_bitmap \cup p.bitmap0
             d == slot.data \cup p.data
             q == [p EXCEPT !.edge = 1, !.bitmap0 = bits, !.data = d]
  <2>1. bits \in SUBSET Bits /\ d \in SUBSET (Bits \X SeqNums)
    BY PacketFields DEF SlotStates
  <2>2. r \in {Outcome(Reset, <<q>>, "release"), Outcome(Reset, <<p>>, "release")}
    BY <1>2 DEF ResendPacket
  <2> HIDE DEF bits, d
  <2>3. q \in DataPackets
    BY <2>1, Rewritten
  <2> HIDE DEF q
  <2>4. CASE r = Outcome(Reset, <<q>>, "release")
    BY <1>1, <2>3, <2>4, ResetType
  <2>5. CASE r = Outcome(Reset, <<p>>, "release")
    BY <1>1, <2>5, ResetType
  <2> QED
    BY <2>2, <2>4, <2>5
<1>3. CASE r = ProcessPacket(Claim(slot, p), p, "acquire")
  BY <1>3, ClaimType, ProcessTypes
<1>4. CASE r = ProcessPacket(slot, p, "none")
  BY <1>4, ProcessTypes
<1>5. CASE r = Outcome(slot, <<[p EXCEPT !.resend = TRUE, !.collision = TRUE]>>,
                       "collision")
  <2>1. [p EXCEPT !.resend = TRUE, !.collision = TRUE] \in DataPackets
    BY Rewritten
  <2> QED
    BY <1>1, <1>5, <2>1
<1>6. CASE r = Outcome(slot, <<p>>, "none")
  BY <1>1, <1>6
<1> QED
  BY <1>2, <1>3, <1>4, <1>5, <1>6, FilterBranches

\* An ACK resets the slot of its sequence number and touches no other.
LEMMA FilterAck ==
  ASSUME NEW slot, NEW s, NEW h
  PROVE  \/ FilterPacket(slot, AckTag(s), h).slot = slot
         \/ /\ FilterPacket(slot, AckTag(s), h).slot = Reset
            /\ slot.m_jobId = Job
<1> DEFINE p == AckTag(s)
<1>1. p.isAck = TRUE /\ p.jobId = Job
  BY DEF AckTag
<1> HIDE DEF p
<1>2. CASE Matches(slot, p)
  <2>1. FilterPacket(slot, p, h) = Outcome(Reset, <<p>>, "release")
    BY <1>1, <1>2, Zenon DEF FilterPacket
  <2> QED
    BY <1>1, <1>2, <2>1 DEF Outcome, Matches, p
<1>3. CASE ~Matches(slot, p)
  <2>1. FilterPacket(slot, p, h) = Outcome(slot, <<p>>, "none")
    BY <1>1, <1>3, Zenon DEF FilterPacket
  <2> QED
    BY <2>1 DEF Outcome, p
<1> QED
  BY <1>2, <1>3
-----------------------------------------------------------------------------
(* Links, and the parts of a step.                                         *)

\* Head and tail of a link that is not empty.
LEMMA LinkFacts ==
  ASSUME NEW S, NEW q \in Seq(S), q # <<>>
  PROVE  Head(q) \in S /\ Tail(q) \in Seq(S)
  OBVIOUS

\* A sequence over a set is one over a larger set.
LEMMA SeqMonotone ==
  ASSUME NEW S, NEW T, S \subseteq T, NEW q \in Seq(S)
  PROVE  q \in Seq(T)
  OBVIOUS

\* Every sequence number has a slot.
LEMMA IndexType == \A s \in SeqNums : s \in Nat /\ HashToIndex(s) \in Indices
  BY SystemAssumption DEF SeqNums, HashToIndex, Indices

\* A step that leaves the server alone.
LEMMA ServerStays ==
  ASSUME R!IInv, UNCHANGED server
  PROVE  R!IInv' /\ Done' = Done
<1>1. UNCHANGED R!vars
  BY DEF server, R!vars
<1>2. R!IInv'
  BY <1>1, ServerAssumption, R!NextIInv
<1>3. delivered' = delivered
  BY DEF server
<1> QED
  BY <1>2, <1>3 DEF Done, R!IsDelivered

\* A worker's handler hands its packets to DoSend: all of them are fresh.
LEMMA TransmitTypes ==
  ASSUME FlatNumbering, NetworkTypes, NEW w \in Workers, NEW r,
         r.tx \in BuffersOf(SeqNums), r.out \in Seq(OutOf(SeqNums)),
         Transmit(w, r)
  PROVE  /\ tx' \in [Workers -> BuffersOf(SeqNums)]
         /\ tx'[w] = r.tx /\ \A v \in Workers : v # w => tx'[v] = tx[v]
         /\ up' \in [Workers -> Seq(DataPackets)]
         /\ \E q \in Seq(Fresh(LeafOf(w))) : up' = [up EXCEPT ![w] = @ \o q]
<1> DEFINE q == [k \in DOMAIN r.out |-> Tagged(w, r.out[k])]
<1>1. tx' = [tx EXCEPT ![w] = r.tx] /\ up' = [up EXCEPT ![w] = @ \o q]
  BY DEF Transmit
<1>2. tx \in [Workers -> BuffersOf(SeqNums)] /\ up \in [Workers -> Seq(DataPackets)]
  BY DEF NetworkTypes
<1>3. q \in Seq(Fresh(LeafOf(w)))
  <2> DEFINE out == r.out
  <2>1. Len(out) \in Nat /\ DOMAIN out = 1..Len(out)
        /\ \A k \in 1..Len(out) : out[k] \in OutOf(SeqNums)
    BY QueueFacts
  <2> HIDE DEF out
  <2>2. \A k \in 1..Len(out) : Tagged(w, out[k]) \in Fresh(LeafOf(w))
    BY <2>1, TaggedIsFresh
  <2>3. [k \in 1..Len(out) |-> Tagged(w, out[k])] \in Seq(Fresh(LeafOf(w)))
    BY <2>1, <2>2
  <2> QED
    BY <2>1, <2>3 DEF out
<1> HIDE DEF q
<1>4. q \in Seq(DataPackets)
  <2>1. Fresh(LeafOf(w)) \subseteq DataPackets
    BY DEF Fresh, FromLeaf
  <2> QED
    BY <1>3, <2>1, SeqMonotone
<1>5. up[w] \o q \in Seq(DataPackets)
  BY <1>2, <1>4, ConcatFacts
<1>6. up' \in [Workers -> Seq(DataPackets)]
  BY <1>1, <1>2, <1>5
<1>7. /\ tx' \in [Workers -> BuffersOf(SeqNums)]
      /\ tx'[w] = r.tx /\ \A v \in Workers : v # w => tx'[v] = tx[v]
  BY <1>1, <1>2
<1> QED
  BY <1>1, <1>3, <1>6, <1>7

\* After a worker's step that moves no left bound, or moves it to an ACK that
\* was under way.
LEMMA WorkerKeepsIInv ==
  ASSUME FlatNumbering, IInv, NEW w \in Workers, NEW r,
         r.tx \in BuffersOf(SeqNums), r.out \in Seq(OutOf(SeqNums)),
         Transmit(w, r), r.tx.m_leftBound \in Done \cup {0},
         UNCHANGED <<slots, coreSlots, ackCore, ackLeaf, server>>,
         ackWorker' \in [Workers -> Seq(Done)]
  PROVE  IInv'
<1>1. R!IInv' /\ Done' = Done
  BY ServerStays DEF IInv
<1>2. /\ tx' \in [Workers -> BuffersOf(SeqNums)]
      /\ tx'[w] = r.tx /\ \A v \in Workers : v # w => tx'[v] = tx[v]
      /\ up' \in [Workers -> Seq(DataPackets)]
  BY TransmitTypes DEF IInv
<1>3. NetworkTypes'
  BY <1>2 DEF IInv, NetworkTypes, Transmit
<1>4. \A v \in Workers : tx'[v].m_leftBound \in Done \cup {0}
  BY <1>2 DEF IInv, AcksDone
<1>5. AcksDone'
  BY <1>1, <1>4 DEF IInv, AcksDone
<1> QED
  BY <1>1, <1>3, <1>5 DEF IInv
-----------------------------------------------------------------------------
(* The inductive invariant, action by action.                              *)

\* Nothing is on its way at the beginning.
LEMMA InitIInv ==
  ASSUME FlatNumbering, Init
  PROVE  IInv
<1>1. R!NewSocket /\ reading \in BOOLEAN
  BY SameServer DEF Init
<1>2. R!IInv
  BY <1>1, ServerAssumption, R!NewSocketIInv
<1>3. PICK c \in Windows :
        tx = [w \in Workers |-> AddPackets(NewBuffer(c), NumPackets)]
  BY DEF Init
<1>4. c \in Nat /\ NumPackets \in Nat
  BY SystemAssumption
<1>5. /\ AddPackets(NewBuffer(c), NumPackets) \in BuffersOf(SeqNums)
      /\ AddPackets(NewBuffer(c), NumPackets).m_leftBound = 0
  BY <1>4, FilledBuffer DEF SeqNums
<1>6. /\ tx \in [Workers -> BuffersOf(SeqNums)]
      /\ \A w \in Workers : tx[w].m_leftBound = 0
  BY <1>3, <1>5
<1>7. /\ slots \in [Leaves -> [Indices -> SlotStates]]
      /\ coreSlots \in [Indices -> SlotStates]
  BY ResetType DEF Init, Indices
<1>8. /\ up \in [Workers -> Seq(DataPackets)]
      /\ leafUp \in [Leaves -> Seq(DataPackets)]
      /\ coreUp \in Seq(DataPackets)
  BY DEF Init
<1>9. /\ ackCore \in Seq(Done) /\ ackLeaf \in [Leaves -> Seq(Done)]
      /\ ackWorker \in [Workers -> Seq(Done)]
  BY DEF Init
<1> QED
  BY <1>2, <1>6, <1>7, <1>8, <1>9 DEF IInv, NetworkTypes, AcksDone

\* SendWindowData.
LEMMA SendWindowIInv ==
  ASSUME FlatNumbering, IInv, NEW w \in Workers, SendWindow(w)
  PROVE  IInv'
<1> DEFINE r == SendWindowData(tx[w])
<1>1. SeqNums \subseteq Nat /\ tx[w] \in BuffersOf(SeqNums)
  BY IndexType DEF IInv, NetworkTypes
<1>2. /\ r.tx \in BuffersOf(SeqNums) /\ r.tx.m_leftBound = tx[w].m_leftBound
      /\ r.out \in Seq(OutOf(SeqNums))
  BY <1>1, SendWindowOf
<1>3. Transmit(w, r) /\ UNCHANGED <<slots, coreSlots, ackCore, ackLeaf, ackWorker, server>>
  BY DEF SendWindow, acks
<1> HIDE DEF r
<1>4. r.tx.m_leftBound \in Done \cup {0} /\ ackWorker' \in [Workers -> Seq(Done)]
  BY <1>2, <1>3 DEF IInv, AcksDone
<1> QED
  BY <1>2, <1>3, <1>4, WorkerKeepsIInv

\* CheckRetransmitTimeout.
LEMMA TimeoutIInv ==
  ASSUME FlatNumbering, IInv, NEW w \in Workers, Timeout(w)
  PROVE  IInv'
<1>1. PICK n \in 1..Len(tx[w].m_sentQueue) : CheckRetransmitTimeout(w, n)
  BY DEF Timeout
<1> DEFINE r == CheckAndMoveTimeoutPackets(tx[w], n)
<1>2. tx[w] \in BuffersOf(SeqNums)
  BY DEF IInv, NetworkTypes
<1>3. n \in 0..Len(tx[w].m_sentQueue)
  BY <1>1
<1>4. /\ r.tx \in BuffersOf(SeqNums) /\ r.tx.m_leftBound = tx[w].m_leftBound
      /\ r.out \in Seq(OutOf(SeqNums))
  BY <1>2, <1>3, TimeoutOf
<1>5. Transmit(w, r) /\ UNCHANGED <<slots, coreSlots, ackCore, ackLeaf, ackWorker, server>>
  BY <1>1 DEF CheckRetransmitTimeout, acks
<1> HIDE DEF r
<1>6. r.tx.m_leftBound \in Done \cup {0} /\ ackWorker' \in [Workers -> Seq(Done)]
  BY <1>4, <1>5 DEF IInv, AcksDone
<1> QED
  BY <1>4, <1>5, <1>6, WorkerKeepsIInv

\* ReceiveAck: the left bound moves to a delivered packet only.
LEMMA AckArrivesIInv ==
  ASSUME FlatNumbering, IInv, NEW w \in Workers, AckArrives(w)
  PROVE  IInv'
<1>1. PICK cwnd \in Windows : WorkerAck(w, cwnd)
  BY DEF AckArrives
<1> DEFINE s == Head(ackWorker[w])
           t == tx[w]
           a == ProcessCongestion(ProcessOrderedAck(t, s), s, cwnd)
           r1 == [tx |-> a, out |-> <<>>]
           r2 == ProcessUnorderedAck(t, s)
<1>2. /\ SeqNums \subseteq Nat /\ t \in BuffersOf(SeqNums) /\ cwnd \in Nat
      /\ t.m_leftBound \in Done \cup {0} /\ Done \subseteq SeqNums
  BY SystemAssumption, IndexType DEF IInv, NetworkTypes, AcksDone, Done
<1>3. ackWorker \in [Workers -> Seq(Done)] /\ ackWorker[w] # <<>>
      /\ ackWorker' = [ackWorker EXCEPT ![w] = Tail(@)]
  BY <1>1 DEF IInv, AcksDone, WorkerAck
<1>4. s \in Done /\ Tail(ackWorker[w]) \in Seq(Done)
  BY <1>3, LinkFacts
<1>5. s \in Nat
  BY <1>2, <1>4
<1>6. ackWorker' \in [Workers -> Seq(Done)]
  BY <1>3, <1>4
<1>7. UNCHANGED <<slots, coreSlots, ackCore, ackLeaf, server>>
  BY <1>1 DEF WorkerAck
<1>8. \/ IsOrderedAck(t, s) /\ Transmit(w, r1)
      \/ Transmit(w, r2)
  BY <1>1 DEF WorkerAck
<1> HIDE DEF s, t
<1>9. CASE IsOrderedAck(t, s) /\ Transmit(w, r1)
  <2>1. a \in BuffersOf(SeqNums) /\ a.m_leftBound = s
    BY <1>2, <1>5, <1>9, OrderedAckOf
  <2> HIDE DEF a
  <2>2. r1.tx = a /\ r1.out = <<>>
    OBVIOUS
  <2> HIDE DEF r1
  <2>3. r1.tx \in BuffersOf(SeqNums) /\ r1.tx.m_leftBound \in Done \cup {0}
    BY <1>4, <2>1, <2>2
  <2>4. r1.out \in Seq(OutOf(SeqNums))
    BY <2>2
  <2> QED
    BY <1>6, <1>7, <1>9, <2>3, <2>4, WorkerKeepsIInv
<1>10. CASE Transmit(w, r2)
  <2>1. /\ r2.tx \in BuffersOf(SeqNums) /\ r2.tx.m_leftBound = t.m_leftBound
        /\ r2.out \in Seq(OutOf(SeqNums))
    BY <1>2, <1>5, UnorderedAckOf
  <2> HIDE DEF r2
  <2> QED
    BY <1>2, <1>6, <1>7, <1>10, <2>1, WorkerKeepsIInv
<1> QED
  BY <1>8, <1>9, <1>10

\* A step of the network that leaves the ends and the ACKs alone.
LEMMA NetworkKeepsIInv ==
  ASSUME IInv, UNCHANGED <<tx, ackCore, ackLeaf, ackWorker, server>>,
         slots' \in [Leaves -> [Indices -> SlotStates]],
         coreSlots' \in [Indices -> SlotStates],
         up' \in [Workers -> Seq(DataPackets)],
         leafUp' \in [Leaves -> Seq(DataPackets)],
         coreUp' \in Seq(DataPackets)
  PROVE  IInv'
<1>1. R!IInv' /\ Done' = Done
  BY ServerStays DEF IInv
<1>2. NetworkTypes'
  BY DEF IInv, NetworkTypes
<1>3. AcksDone'
  BY <1>1 DEF IInv, AcksDone
<1> QED
  BY <1>1, <1>2, <1>3 DEF IInv

\* What LeafForward does, with the types of its parts.
LEMMA LeafForwardTypes ==
  ASSUME IInv, NEW w \in Workers, LeafForward(w)
  PROVE  LET l == LeafOf(w)
             p == Head(up[w])
             i == HashToIndex(p.seqNum)
             r == FilterPacket(slots[l][i], p, Hierarchical)
         IN  /\ l \in Leaves /\ p \in DataPackets /\ i \in Indices
             /\ up[w] # <<>>
             /\ slots[l][i] \in SlotStates
             /\ r.slot \in SlotStates /\ r.out \in Seq(DataPackets)
             /\ up' = [up EXCEPT ![w] = Tail(@)]
             /\ up' \in [Workers -> Seq(DataPackets)]
             /\ slots' = [slots EXCEPT ![l][i] = r.slot]
             /\ leafUp' = [leafUp EXCEPT ![l] = @ \o r.out]
<1> DEFINE l == LeafOf(w)
           p == Head(up[w])
           i == HashToIndex(p.seqNum)
           r == FilterPacket(slots[l][i], p, Hierarchical)
<1>1. /\ up[w] # <<>>
      /\ up' = [up EXCEPT ![w] = Tail(@)]
      /\ slots' = [slots EXCEPT ![l][i] = r.slot]
      /\ leafUp' = [leafUp EXCEPT ![l] = @ \o r.out]
  BY DEF LeafForward
<1>2. /\ up \in [Workers -> Seq(DataPackets)]
      /\ slots \in [Leaves -> [Indices -> SlotStates]]
      /\ Hierarchical \in BOOLEAN
  BY SystemAssumption DEF IInv, NetworkTypes
<1>3. l \in Leaves
  BY LeafOfWorker
<1>4. p \in DataPackets /\ Tail(up[w]) \in Seq(DataPackets)
  BY <1>1, <1>2, LinkFacts
<1>5. i \in Indices
  BY <1>4, PacketFields, IndexType
<1> HIDE DEF l, p, i
<1>6. slots[l][i] \in SlotStates
  BY <1>2, <1>3, <1>5
<1>7. r.slot \in SlotStates /\ r.out \in Seq(DataPackets)
  BY <1>2, <1>4, <1>6, FilterTypes
<1>8. up' \in [Workers -> Seq(DataPackets)]
  BY <1>1, <1>2, <1>4
<1> QED
  BY <1>1, <1>3, <1>4, <1>5, <1>6, <1>7, <1>8 DEF l, p, i

\* The leaf switch.
LEMMA LeafForwardIInv ==
  ASSUME IInv, NEW w \in Workers, LeafForward(w)
  PROVE  IInv'
<1> DEFINE l == LeafOf(w)
           p == Head(up[w])
           i == HashToIndex(p.seqNum)
           r == FilterPacket(slots[l][i], p, Hierarchical)
<1>1. /\ l \in Leaves /\ i \in Indices
      /\ r.slot \in SlotStates /\ r.out \in Seq(DataPackets)
      /\ up' \in [Workers -> Seq(DataPackets)]
      /\ slots' = [slots EXCEPT ![l][i] = r.slot]
      /\ leafUp' = [leafUp EXCEPT ![l] = @ \o r.out]
  BY LeafForwardTypes
<1>2. UNCHANGED <<tx, coreSlots, coreUp, ackCore, ackLeaf, ackWorker, server>>
  BY DEF LeafForward, acks
<1> HIDE DEF l, i, r
<1>3. /\ slots \in [Leaves -> [Indices -> SlotStates]]
      /\ leafUp \in [Leaves -> Seq(DataPackets)]
      /\ coreSlots \in [Indices -> SlotStates] /\ coreUp \in Seq(DataPackets)
  BY DEF IInv, NetworkTypes
<1>4. slots' \in [Leaves -> [Indices -> SlotStates]]
  BY <1>1, <1>3
<1>5. leafUp[l] \o r.out \in Seq(DataPackets)
  BY <1>1, <1>3, ConcatFacts
<1>6. leafUp' \in [Leaves -> Seq(DataPackets)]
  BY <1>1, <1>3, <1>5
<1> QED
  BY <1>1, <1>2, <1>3, <1>4, <1>6, NetworkKeepsIInv

\* The second switch.
LEMMA CoreForwardIInv ==
  ASSUME IInv, NEW l \in Leaves, CoreForward(l)
  PROVE  IInv'
<1> DEFINE p == Head(leafUp[l])
           i == HashToIndex(p.seqNum)
           r == FilterPacket(coreSlots[i], p, Hierarchical)
<1>1. /\ leafUp[l] # <<>>
      /\ leafUp' = [leafUp EXCEPT ![l] = Tail(@)]
      /\ coreSlots' = [coreSlots EXCEPT ![i] = r.slot]
      /\ coreUp' = coreUp \o r.out
      /\ UNCHANGED <<tx, slots, up, ackCore, ackLeaf, ackWorker, server>>
  BY DEF CoreForward, acks
<1>2. /\ leafUp \in [Leaves -> Seq(DataPackets)]
      /\ coreSlots \in [Indices -> SlotStates] /\ coreUp \in Seq(DataPackets)
      /\ slots \in [Leaves -> [Indices -> SlotStates]]
      /\ up \in [Workers -> Seq(DataPackets)]
      /\ Hierarchical \in BOOLEAN
  BY SystemAssumption DEF IInv, NetworkTypes
<1>3. p \in DataPackets /\ Tail(leafUp[l]) \in Seq(DataPackets)
  BY <1>1, <1>2, LinkFacts
<1>4. i \in Indices
  BY <1>3, PacketFields, IndexType
<1> HIDE DEF p, i
<1>5. r.slot \in SlotStates /\ r.out \in Seq(DataPackets)
  BY <1>2, <1>3, <1>4, FilterTypes
<1> HIDE DEF r
<1>6. leafUp' \in [Leaves -> Seq(DataPackets)]
  BY <1>1, <1>2, <1>3
<1>7. coreSlots' \in [Indices -> SlotStates]
  BY <1>1, <1>2, <1>5
<1>8. coreUp' \in Seq(DataPackets)
  BY <1>1, <1>2, <1>5, ConcatFacts
<1> QED
  BY <1>1, <1>2, <1>6, <1>7, <1>8, NetworkKeepsIInv

\* The server sees packets of the type its lemmas are about.
LEMMA ReceivedType ==
  ASSUME NEW p \in DataPackets
  PROVE  Received(p) \in R!Packet
<1>1. /\ p.jobId \in {Job} /\ p.seqNum \in SeqNums
      /\ p.bitmap0 \in SUBSET Bits /\ p.bitmap1 \in SUBSET Bits
      /\ p.data \in SUBSET (Bits \X SeqNums)
  BY PacketFields
<1> QED
  BY <1>1 DEF Received, R!Packet, R!Contribution, R!Uint32Bits, Bits

\* ForwardUp: what was delivered stays delivered, so no ACK on its way and no
\* left bound is affected.
LEMMA ServerReceiveIInv ==
  ASSUME IInv, ServerReceive
  PROVE  IInv'
<1> DEFINE p == Head(coreUp)
<1>1. /\ coreUp # <<>> /\ coreUp' = Tail(coreUp)
      /\ R!ForwardUp(Received(p))
      /\ UNCHANGED <<tx, slots, coreSlots, up, leafUp, ackCore, ackLeaf, ackWorker>>
  BY SameForwardUp DEF ServerReceive, acks
<1>2. coreUp \in Seq(DataPackets)
  BY DEF IInv, NetworkTypes
<1>3. p \in DataPackets /\ coreUp' \in Seq(DataPackets)
  BY <1>1, <1>2, LinkFacts
<1> HIDE DEF p
<1>4. Received(p) \in R!Packet /\ R!IInv
  BY <1>3, ReceivedType DEF IInv
<1>5. R!IInv' /\ \A k : R!IsDelivered(k) => R!IsDelivered(k)'
  BY <1>1, <1>4, ServerAssumption, R!ForwardUpIInv
<1>6. Done \subseteq Done'
  BY <1>5 DEF Done
<1> DEFINE D == Done
           E == Done'
<1>7. /\ ackCore \in Seq(D) /\ ackLeaf \in [Leaves -> Seq(D)]
      /\ ackWorker \in [Workers -> Seq(D)]
      /\ \A w \in Workers : tx[w].m_leftBound \in D \cup {0}
  BY DEF IInv, AcksDone
<1>8. D \subseteq E
  BY <1>6
<1> HIDE DEF D, E
<1>9. /\ ackCore \in Seq(E) /\ ackLeaf \in [Leaves -> Seq(E)]
      /\ ackWorker \in [Workers -> Seq(E)]
      /\ \A w \in Workers : tx[w].m_leftBound \in E \cup {0}
  <2>1. \A q \in Seq(D) : q \in Seq(E)
    BY <1>8, SeqMonotone
  <2> QED
    BY <1>7, <1>8, <2>1
<1>10. AcksDone'
  BY <1>1, <1>9 DEF AcksDone, E
<1>11. NetworkTypes'
  BY <1>1, <1>3 DEF IInv, NetworkTypes
<1> QED
  BY <1>5, <1>10, <1>11 DEF IInv

\* SendMultiAck: only what was delivered has an event.
LEMMA ServerAckIInv ==
  ASSUME IInv, ServerAck
  PROVE  IInv'
<1> DEFINE e == Head(ackEvents)
<1>1. /\ R!SendMultiAck /\ ackCore' = Append(ackCore, e[2])
      /\ UNCHANGED <<tx, slots, coreSlots, up, leafUp, coreUp, ackLeaf, ackWorker>>
  BY SameServer DEF ServerAck, data
<1>2. R!IInv'
  BY <1>1, ServerAssumption, R!SendMultiAckIInv DEF IInv
<1>3. delivered' = delivered /\ ackEvents # <<>>
  BY <1>1 DEF R!SendMultiAck
<1>4. Done' = Done
  BY <1>3 DEF Done, R!IsDelivered
<1>5. /\ ackEvents \in Seq({Job} \X SeqNums)
      /\ \A k \in DOMAIN ackEvents : R!IsDelivered(ackEvents[k])
  BY DEF IInv, R!IInv, R!TypeOK, R!Key, R!AckImpliesDelivered
<1>6. e \in {Job} \X SeqNums /\ R!IsDelivered(e)
  BY <1>3, <1>5
<1> HIDE DEF e
<1>7. e = <<Job, e[2]>> /\ e[2] \in SeqNums
  BY <1>6
<1>8. e[2] \in Done
  BY <1>6, <1>7 DEF Done
<1>9. ackCore' \in Seq(Done)
  BY <1>1, <1>8 DEF IInv, AcksDone
<1>10. AcksDone'
  BY <1>1, <1>4, <1>9 DEF IInv, AcksDone
<1>11. NetworkTypes'
  BY <1>1 DEF IInv, NetworkTypes
<1> QED
  BY <1>2, <1>10, <1>11 DEF IInv

\* An ACK passes the second switch.
LEMMA CoreAckIInv ==
  ASSUME IInv, CoreAck
  PROVE  IInv'
<1> DEFINE s == Head(ackCore)
           i == HashToIndex(s)
           slot == FilterPacket(coreSlots[i], AckTag(s), Hierarchical).slot
<1>1. /\ ackCore # <<>> /\ ackCore' = Tail(ackCore)
      /\ coreSlots' = [coreSlots EXCEPT ![i] = slot]
      /\ ackLeaf' = [l \in Leaves |-> Append(ackLeaf[l], s)]
      /\ UNCHANGED <<tx, slots, up, leafUp, coreUp, ackWorker, server>>
  BY DEF CoreAck, data
<1>2. R!IInv' /\ Done' = Done
  BY <1>1, ServerStays DEF IInv
<1>3. /\ ackCore \in Seq(Done) /\ ackLeaf \in [Leaves -> Seq(Done)]
      /\ coreSlots \in [Indices -> SlotStates]
  BY DEF IInv, AcksDone, NetworkTypes
<1>4. s \in Done /\ ackCore' \in Seq(Done)
  BY <1>1, <1>3, LinkFacts
<1>5. i \in Indices
  BY <1>4, IndexType DEF Done
<1> HIDE DEF s, i
<1>6. slot \in SlotStates
  BY <1>3, <1>5, FilterAck, ResetType
<1> HIDE DEF slot
<1>7. coreSlots' \in [Indices -> SlotStates]
  BY <1>1, <1>3, <1>6
<1>8. ackLeaf' \in [Leaves -> Seq(Done)]
  BY <1>1, <1>3, <1>4
<1>9. NetworkTypes'
  BY <1>1, <1>7 DEF IInv, NetworkTypes
<1>10. AcksDone'
  BY <1>1, <1>2, <1>4, <1>8 DEF IInv, AcksDone
<1> QED
  BY <1>2, <1>9, <1>10 DEF IInv

\* An ACK passes a leaf.
LEMMA LeafAckIInv ==
  ASSUME IInv, NEW l \in Leaves, LeafAck(l)
  PROVE  IInv'
<1> DEFINE s == Head(ackLeaf[l])
           i == HashToIndex(s)
           slot == FilterPacket(slots[l][i], AckTag(s), Hierarchical).slot
<1>1. /\ ackLeaf[l] # <<>>
      /\ ackLeaf' = [ackLeaf EXCEPT ![l] = Tail(@)]
      /\ slots' = [slots EXCEPT ![l][i] = slot]
      /\ ackWorker' = [w \in Workers |-> IF w \in Under(l)
                                         THEN Append(ackWorker[w], s)
                                         ELSE ackWorker[w]]
      /\ UNCHANGED <<tx, coreSlots, up, leafUp, coreUp, ackCore, server>>
  BY DEF LeafAck, data
<1>2. R!IInv' /\ Done' = Done
  BY <1>1, ServerStays DEF IInv
<1>3. /\ ackLeaf \in [Leaves -> Seq(Done)] /\ ackWorker \in [Workers -> Seq(Done)]
      /\ slots \in [Leaves -> [Indices -> SlotStates]]
  BY DEF IInv, AcksDone, NetworkTypes
<1>4. s \in Done /\ Tail(ackLeaf[l]) \in Seq(Done)
  BY <1>1, <1>3, LinkFacts
<1>5. i \in Indices
  BY <1>4, IndexType DEF Done
<1> HIDE DEF s, i
<1>6. slot \in SlotStates
  <2>1. slots[l][i] \in SlotStates
    BY <1>3, <1>5
  <2> QED
    BY <2>1, FilterAck, ResetType
<1> HIDE DEF slot
<1>7. slots' \in [Leaves -> [Indices -> SlotStates]]
  BY <1>1, <1>3, <1>5, <1>6
<1>8. ackLeaf' \in [Leaves -> Seq(Done)]
  BY <1>1, <1>3, <1>4
<1>9. ackWorker' \in [Workers -> Seq(Done)]
  BY <1>1, <1>3, <1>4
<1>10. NetworkTypes'
  BY <1>1, <1>7 DEF IInv, NetworkTypes
<1>11. AcksDone'
  BY <1>1, <1>2, <1>8, <1>9 DEF IInv, AcksDone
<1> QED
  BY <1>2, <1>10, <1>11 DEF IInv

\* A link, or one of several, that lost its head carries what it carried.
LEMMA LoseKeeps ==
  ASSUME NEW S, NEW X, NEW q \in [X -> Seq(S)], NEW x \in X, q[x] # <<>>
  PROVE  [q EXCEPT ![x] = Tail(@)] \in [X -> Seq(S)]
  BY LinkFacts

\* Losing packets.
LEMMA LoseDataIInv ==
  ASSUME IInv, LoseData
  PROVE  IInv'
<1>1. /\ up \in [Workers -> Seq(DataPackets)]
      /\ leafUp \in [Leaves -> Seq(DataPackets)]
      /\ coreUp \in Seq(DataPackets)
      /\ slots \in [Leaves -> [Indices -> SlotStates]]
      /\ coreSlots \in [Indices -> SlotStates]
  BY DEF IInv, NetworkTypes
<1>2. UNCHANGED <<tx, slots, coreSlots, ackCore, ackLeaf, ackWorker, server>>
  BY DEF LoseData, acks
<1>3. CASE LoseOneOf(up) /\ UNCHANGED <<leafUp, coreUp>>
  <2>1. up' \in [Workers -> Seq(DataPackets)]
    BY <1>1, <1>3, LoseKeeps DEF LoseOneOf
  <2> QED
    BY <1>1, <1>2, <1>3, <2>1, NetworkKeepsIInv
<1>4. CASE LoseOneOf(leafUp) /\ UNCHANGED <<up, coreUp>>
  <2>1. leafUp' \in [Leaves -> Seq(DataPackets)]
    BY <1>1, <1>4, LoseKeeps DEF LoseOneOf
  <2> QED
    BY <1>1, <1>2, <1>4, <2>1, NetworkKeepsIInv
<1>5. CASE Lose(coreUp) /\ UNCHANGED <<up, leafUp>>
  <2>1. coreUp' \in Seq(DataPackets)
    BY <1>1, <1>5, LinkFacts DEF Lose
  <2> QED
    BY <1>1, <1>2, <1>5, <2>1, NetworkKeepsIInv
<1> QED
  BY <1>3, <1>4, <1>5 DEF LoseData

\* Losing ACKs.
LEMMA LoseAckIInv ==
  ASSUME IInv, LoseAck
  PROVE  IInv'
<1>1. /\ ackCore \in Seq(Done) /\ ackLeaf \in [Leaves -> Seq(Done)]
      /\ ackWorker \in [Workers -> Seq(Done)]
  BY DEF IInv, AcksDone
<1>2. UNCHANGED <<tx, slots, coreSlots, up, leafUp, coreUp, server>>
  BY DEF LoseAck, data
<1>3. R!IInv' /\ Done' = Done
  BY <1>2, ServerStays DEF IInv
<1>4. /\ ackCore' \in Seq(Done) /\ ackLeaf' \in [Leaves -> Seq(Done)]
      /\ ackWorker' \in [Workers -> Seq(Done)]
  <2>1. CASE Lose(ackCore) /\ UNCHANGED <<ackLeaf, ackWorker>>
    BY <1>1, <2>1, LinkFacts DEF Lose
  <2>2. CASE LoseOneOf(ackLeaf) /\ UNCHANGED <<ackCore, ackWorker>>
    BY <1>1, <2>2, LoseKeeps DEF LoseOneOf
  <2>3. CASE LoseOneOf(ackWorker) /\ UNCHANGED <<ackCore, ackLeaf>>
    BY <1>1, <2>3, LoseKeeps DEF LoseOneOf
  <2> QED
    BY <2>1, <2>2, <2>3 DEF LoseAck
<1>5. NetworkTypes' /\ AcksDone'
  BY <1>2, <1>3, <1>4 DEF IInv, NetworkTypes, AcksDone
<1> QED
  BY <1>3, <1>5 DEF IInv

\* Every step keeps the invariant.
LEMMA NextIInv ==
  ASSUME FlatNumbering, IInv, [Next]_vars
  PROVE  IInv'
<1>1. CASE UNCHANGED vars
  <2>1. /\ UNCHANGED <<tx, ackCore, ackLeaf, ackWorker, server>>
        /\ UNCHANGED <<slots, coreSlots, up, leafUp, coreUp>>
    BY <1>1 DEF vars, acks, data
  <2> QED
    BY <2>1, NetworkKeepsIInv DEF IInv, NetworkTypes
<1>2. CASE Next
  BY <1>2, SendWindowIInv, TimeoutIInv, LeafForwardIInv, AckArrivesIInv,
     CoreForwardIInv, LeafAckIInv, ServerReceiveIInv, ServerAckIInv,
     CoreAckIInv, LoseDataIInv, LoseAckIInv DEF Next
<1> QED
  BY <1>1, <1>2
-----------------------------------------------------------------------------
(***************************************************************************)
(* An ACK on a worker's link, and the left bound ReceiveAck moved to one,  *)
(* are of packets the server has put into its receive buffer, with or      *)
(* without aggregation at the second switch, whatever is lost, duplicated  *)
(* or retransmitted: a worker that forgets a packet loses nothing.         *)
(***************************************************************************)
THEOREM AcksAreDelivered ==
  ASSUME WorkersFit
  PROVE  Spec => []AckedIsDelivered
<1> FlatNumbering
  BY NumberingIsFlat
<1>1. Init => IInv
  BY InitIInv
<1>2. IInv /\ [Next]_vars => IInv'
  BY NextIInv
<1>3. IInv => AckedIsDelivered
  <2> SUFFICES ASSUME IInv PROVE AckedIsDelivered
    OBVIOUS
  <2>1. \A s \in Done : PS!IsDelivered(<<Job, s>>)
    BY SameServer DEF Done
  <2>2. ASSUME NEW w \in Workers, tx[w].m_leftBound > 0
        PROVE  PS!IsDelivered(<<Job, tx[w].m_leftBound>>)
    <3>1. tx[w].m_leftBound \in Done
      BY <2>2 DEF IInv, AcksDone
    <3> QED
      BY <2>1, <3>1
  <2>3. ASSUME NEW w \in Workers, NEW s \in InFlight(ackWorker[w])
        PROVE  PS!IsDelivered(<<Job, s>>)
    <3>1. ackWorker[w] \in Seq(Done)
      BY DEF IInv, AcksDone
    <3>2. s \in Done
      BY <2>3, <3>1 DEF InFlight
    <3> QED
      BY <2>1, <3>2
  <2> QED
    BY <2>2, <2>3 DEF AckedIsDelivered
<1> QED
  BY <1>1, <1>2, <1>3, PTL DEF Spec

(***************************************************************************)
(* IsDuplicatePacket keeps its promise in the whole system too: the        *)
(* server's application gets no sequence number twice, whichever copies    *)
(* retransmissions, collisions and partial aggregates bring.               *)
(***************************************************************************)
THEOREM ServerDeliversOnce ==
  ASSUME WorkersFit
  PROVE  Spec => []PS!AtMostOnce
<1> FlatNumbering
  BY NumberingIsFlat
<1>1. Init => IInv
  BY InitIInv
<1>2. IInv /\ [Next]_vars => IInv'
  BY NextIInv
<1>3. IInv => PS!AtMostOnce
  BY SameServer DEF IInv, R!IInv
<1> QED
  BY <1>1, <1>2, <1>3, PTL DEF Spec
-----------------------------------------------------------------------------
(* Honest packets and slots, when the second switch does not aggregate.    *)

\* The data of two groups of workers, taken together.
LEMMA PartsUnion ==
  ASSUME NEW l, NEW a, NEW b, NEW s
  PROVE  Parts(l, a, s) \cup Parts(l, b, s) = Parts(l, a \cup b, s)
  BY DEF Parts

\* A packet rewritten to speak for more workers of its leaf, and to carry
\* their data, may pass the second switch.
LEMMA RewrittenPasses ==
  ASSUME FlatNumbering, NEW l \in Leaves, NEW p \in FromLeaf(l),
         NEW bits, bits \subseteq 0..(FanIns[l] - 1)
  PROVE  LET d == Parts(l, bits, p.seqNum) IN
         /\ [p EXCEPT !.bitmap0 = bits, !.edge = 1, !.data = d] \in Passing(l)
         /\ [p EXCEPT !.edge = 1, !.bitmap0 = bits, !.data = d] \in Passing(l)
<1> DEFINE d == Parts(l, bits, p.seqNum)
           q1 == [p EXCEPT !.bitmap0 = bits, !.edge = 1, !.data = d]
           q2 == [p EXCEPT !.edge = 1, !.bitmap0 = bits, !.data = d]
<1>1. p \in DataPackets /\ p.bitmap1 = {l - 1} /\ p.seqNum \in SeqNums
  BY PacketFields DEF FromLeaf
<1>2. d \in SUBSET (Bits \X SeqNums)
  BY <1>1, PartsType
<1>3. bits \in SUBSET Bits
  BY Positions
<1> HIDE DEF d
<1>4. q1 \in DataPackets /\ q2 \in DataPackets
  BY <1>1, <1>2, <1>3, Rewritten
<1>5. /\ q1.bitmap1 = {l - 1} /\ q1.bitmap0 = bits /\ q1.data = d
      /\ q1.edge = 1 /\ q1.seqNum = p.seqNum
      /\ q2.bitmap1 = {l - 1} /\ q2.bitmap0 = bits /\ q2.data = d
      /\ q2.edge = 1 /\ q2.seqNum = p.seqNum
  BY <1>1 DEF DataPackets
<1> HIDE DEF q1, q2
<1>6. q1 \in FromLeaf(l) /\ q2 \in FromLeaf(l)
  BY <1>4, <1>5 DEF FromLeaf, d
<1>7. q1 \in Passing(l) /\ q2 \in Passing(l)
  BY <1>5, <1>6 DEF Passing
<1> QED
  BY <1>7 DEF q1, q2, d

\* A slot of a leaf that took in data of its workers.
LEMMA AddedHonest ==
  ASSUME NEW l \in Leaves, NEW slot \in SlotStates, NEW bits \in SUBSET Bits,
         NEW d \in SUBSET (Bits \X SeqNums)
  PROVE  LET a == AddedTo(slot, bits, d) IN
         /\ HonestSlot(slot, l)
         /\ bits \subseteq 0..(FanIns[l] - 1)
         /\ d = Parts(l, bits, slot.m_seqNum)
         => /\ HonestSlot(a, l)
            /\ a.m_seqNum = slot.m_seqNum
            /\ a.m_bitmap \subseteq 0..(FanIns[l] - 1)
            /\ a.data = Parts(l, a.m_bitmap, slot.m_seqNum)
<1> DEFINE a == AddedTo(slot, bits, d)
<1>1. /\ a.m_bitmap = slot.m_bitmap \cup bits
      /\ a.m_count = slot.m_count + 1
      /\ a.m_seqNum = slot.m_seqNum
      /\ a.data = slot.data \cup d
  BY AddedFields
<1> HIDE DEF a
<1>2. slot.m_count \in Nat
  BY DEF SlotStates
<1> SUFFICES ASSUME HonestSlot(slot, l), bits \subseteq 0..(FanIns[l] - 1),
                    d = Parts(l, bits, slot.m_seqNum)
             PROVE  /\ HonestSlot(a, l)
                    /\ a.m_seqNum = slot.m_seqNum
                    /\ a.m_bitmap \subseteq 0..(FanIns[l] - 1)
                    /\ a.data = Parts(l, a.m_bitmap, slot.m_seqNum)
  BY DEF a
<1>3. a.m_count # 0
  BY <1>1, <1>2
<1>4. a.m_bitmap \subseteq 0..(FanIns[l] - 1)
  BY <1>1, Zenon DEF HonestSlot
<1>5. a.data = Parts(l, a.m_bitmap, slot.m_seqNum)
  BY <1>1, PartsUnion DEF HonestSlot
<1>6. HonestSlot(a, l)
  BY <1>1, <1>3, <1>4, <1>5 DEF HonestSlot
<1> QED
  BY <1>1, <1>4, <1>5, <1>6

\* A slot of a leaf that takes in a packet of one of its workers stays honest,
\* and so is the result it sends.
LEMMA ProcessHonest ==
  ASSUME FlatNumbering, NEW l \in Leaves, NEW slot \in SlotStates,
         HonestSlot(slot, l), NEW p \in Fresh(l), slot.m_seqNum = p.seqNum,
         NEW event
  PROVE  /\ HonestSlot(ProcessPacket(slot, p, event).slot, l)
         /\ ProcessPacket(slot, p, event).out \in Seq(Passing(l))
<1> DEFINE bits == p.bitmap0
           d == p.data
           a == [slot EXCEPT !.m_bitmap = @ \cup bits, !.m_count = @ + 1,
                             !.data = @ \cup d]
           r == ProcessPacket(slot, p, event)
<1>1. /\ p \in FromLeaf(l) /\ p \in DataPackets /\ p.edge = 0
      /\ bits \subseteq 0..(FanIns[l] - 1)
      /\ p.data = Parts(l, bits, p.seqNum)
  BY DEF Fresh, FromLeaf
<1>2. LevelBitmap(p) = bits
  BY <1>1 DEF LevelBitmap
<1>3. CASE bits \subseteq slot.m_bitmap
  <2>1. r.slot = slot /\ r.out = <<>>
    BY <1>2, <1>3 DEF ProcessPacket, Outcome
  <2> HIDE DEF r
  <2> QED
    BY <2>1 DEF r
<1>4. CASE ~(bits \subseteq slot.m_bitmap)
  <2>1. /\ r.slot = a
        /\ r.out = IF a.m_count = LevelFanin(p)
                   THEN <<GetResultPacket(a, p)>> ELSE <<>>
    BY <1>2, <1>4 DEF ProcessPacket, Outcome
  <2>2. bits \in SUBSET Bits /\ d \in SUBSET (Bits \X SeqNums)
    BY <1>1, PacketFields
  <2> HIDE DEF bits, d
  <2>3. d = Parts(l, bits, slot.m_seqNum) /\ bits \subseteq 0..(FanIns[l] - 1)
    BY <1>1 DEF d, bits
  <2>4. a = AddedTo(slot, bits, d)
    BY Zenon DEF AddedTo
  <2> HIDE DEF a
  <2>5. /\ HonestSlot(a, l)
        /\ a.m_bitmap \subseteq 0..(FanIns[l] - 1)
        /\ a.data = Parts(l, a.m_bitmap, slot.m_seqNum)
    BY <2>2, <2>3, <2>4, AddedHonest
  <2>6. a.data = Parts(l, a.m_bitmap, p.seqNum)
    BY <2>5
  <2>7. GetResultPacket(a, p) \in Passing(l)
    <3>1. GetResultPacket(a, p) =
            [p EXCEPT !.bitmap0 = a.m_bitmap, !.edge = 1, !.data = a.data]
      BY <1>1 DEF GetResultPacket
    <3> DEFINE b == a.m_bitmap
               all == Parts(l, b, p.seqNum)
    <3>2. [p EXCEPT !.bitmap0 = b, !.edge = 1, !.data = all] \in Passing(l)
      BY <1>1, <2>5, RewrittenPasses
    <3> QED
      BY <2>6, <3>1, <3>2, Zenon
  <2> QED
    BY <2>1, <2>5, <2>7
<1> QED
  BY <1>3, <1>4

\* A reset slot, and one just claimed, is honest.
LEMMA EmptyHonest ==
  /\ \A l \in Leaves : HonestSlot(Reset, l)
  /\ \A slot \in SlotStates, l \in Leaves, p \in DataPackets :
       HonestSlot(slot, l) /\ IsEmpty(slot) => HonestSlot(Claim(slot, p), l)
<1>1. \A l, s : Parts(l, {}, s) = {}
  BY DEF Parts
<1>2. ASSUME NEW l \in Leaves PROVE HonestSlot(Reset, l)
  BY <1>1 DEF HonestSlot, Reset
<1>3. ASSUME NEW slot \in SlotStates, NEW l \in Leaves, NEW p \in DataPackets,
             HonestSlot(slot, l), IsEmpty(slot)
      PROVE  HonestSlot(Claim(slot, p), l)
  BY <1>1, <1>3, ClaimType DEF HonestSlot, IsEmpty
<1> QED
  BY <1>2, <1>3

\* A leaf keeps its slots honest and sends honest packets.
LEMMA LeafFilterHonest ==
  ASSUME FlatNumbering, NEW l \in Leaves, NEW slot \in SlotStates,
         HonestSlot(slot, l), NEW p \in Fresh(l), NEW h \in BOOLEAN
  PROVE  /\ HonestSlot(FilterPacket(slot, p, h).slot, l)
         /\ FilterPacket(slot, p, h).out \in Seq(Passing(l))
<1> DEFINE r == FilterPacket(slot, p, h)
           Goal == HonestSlot(r.slot, l) /\ r.out \in Seq(Passing(l))
<1>0. /\ p \in FromLeaf(l) /\ p \in DataPackets /\ p.edge = 0 /\ ~p.collision
      /\ p.bitmap0 \subseteq 0..(FanIns[l] - 1)
      /\ p.data = Parts(l, p.bitmap0, p.seqNum)
  BY DEF Fresh, FromLeaf
<1>1. ASSUME NEW s, HonestSlot(s, l), NEW q \in Passing(l), NEW e,
             r = Outcome(s, <<q>>, e)
      PROVE  Goal
  <2>1. r.slot = s /\ r.out = <<q>>
    BY <1>1 DEF Outcome
  <2>2. <<q>> \in Seq(Passing(l))
    BY <1>1
  <2> QED
    BY <1>1, <2>1, <2>2, Zenon
<1>2. CASE p.resend /\ Matches(slot, p) /\ r = ResendPacket(slot, p)
  <2> DEFINE bits == slot.m_bitmap \cup p.bitmap0
             d == slot.data \cup p.data
             q == [p EXCEPT !.edge = 1, !.bitmap0 = bits, !.data = d]
  <2>1. bits \subseteq 0..(FanIns[l] - 1) /\ d = Parts(l, bits, p.seqNum)
    BY <1>0, <1>2, PartsUnion DEF HonestSlot, Matches
  <2>2. r \in {Outcome(Reset, <<q>>, "release"), Outcome(Reset, <<p>>, "release")}
    BY <1>2 DEF ResendPacket
  <2> HIDE DEF bits, d
  <2>3. q \in Passing(l)
    <3>1. [p EXCEPT !.edge = 1, !.bitmap0 = bits, !.data = Parts(l, bits, p.seqNum)]
            \in Passing(l)
      BY <1>0, <2>1, RewrittenPasses
    <3> QED
      BY <2>1, <3>1, Zenon
  <2>4. p \in Passing(l)
    BY <1>0, <1>2 DEF Passing
  <2> HIDE DEF q
  <2>5. CASE r = Outcome(Reset, <<q>>, "release")
    BY <1>1, <2>3, <2>5, EmptyHonest
  <2>6. CASE r = Outcome(Reset, <<p>>, "release")
    BY <1>1, <2>4, <2>6, EmptyHonest
  <2> QED
    BY <2>2, <2>5, <2>6
<1>3. CASE IsEmpty(slot) /\ r = ProcessPacket(Claim(slot, p), p, "acquire")
  <2> DEFINE c == Claim(slot, p)
  <2>1. c \in SlotStates /\ c.m_seqNum = p.seqNum /\ HonestSlot(c, l)
    BY <1>0, <1>3, ClaimType, EmptyHonest
  <2> HIDE DEF c
  <2>2. r = ProcessPacket(c, p, "acquire")
    BY <1>3 DEF c
  <2> QED
    BY <2>1, <2>2, ProcessHonest
<1>4. CASE Matches(slot, p) /\ r = ProcessPacket(slot, p, "none")
  <2>1. slot.m_seqNum = p.seqNum
    BY <1>4 DEF Matches
  <2> QED
    BY <1>4, <2>1, ProcessHonest
<1>5. CASE r = Outcome(slot, <<[p EXCEPT !.resend = TRUE, !.collision = TRUE]>>,
                       "collision")
  <2> DEFINE q == [p EXCEPT !.resend = TRUE, !.collision = TRUE]
  <2>1. q \in DataPackets
    BY <1>0, Rewritten
  <2>2. /\ q.bitmap1 = p.bitmap1 /\ q.bitmap0 = p.bitmap0 /\ q.data = p.data
        /\ q.seqNum = p.seqNum
    BY <1>0 DEF DataPackets
  <2>3. q.resend = TRUE
    BY <1>0 DEF DataPackets
  <2> HIDE DEF q
  <2>4. q \in FromLeaf(l)
    BY <1>0, <2>1, <2>2 DEF FromLeaf
  <2>5. q \in Passing(l)
    BY <2>3, <2>4 DEF Passing
  <2>6. r = Outcome(slot, <<q>>, "collision")
    BY <1>5 DEF q
  <2> QED
    BY <1>1, <2>5, <2>6
<1>6. CASE p.resend /\ r = Outcome(slot, <<p>>, "none")
  <2>1. p \in Passing(l)
    BY <1>0, <1>6 DEF Passing
  <2> QED
    BY <1>1, <1>6, <2>1
<1>7. ~(p.collision \/ (~h /\ p.edge = 1))
  BY <1>0
<1> QED
  BY <1>0, <1>2, <1>3, <1>4, <1>5, <1>6, <1>7, FilterBranches

\* The second switch has empty slots only, and what passed a leaf passes it.
LEMMA CoreFilterPasses ==
  ASSUME NEW l \in Leaves, NEW p \in Passing(l)
  PROVE  /\ FilterPacket(Reset, p, FALSE).slot = Reset
         /\ FilterPacket(Reset, p, FALSE).out = <<p>>
<1>1. p \in DataPackets /\ (p.edge = 1 \/ p.collision \/ p.resend)
  BY DEF Passing, FromLeaf
<1>2. ~Matches(Reset, p)
  BY <1>1, PacketFields DEF Matches, Reset, Job
<1>3. p.resend \in BOOLEAN /\ p.collision \in BOOLEAN
  BY <1>1, PacketFields
<1> DEFINE r == FilterPacket(Reset, p, FALSE)
<1>4. r = Outcome(Reset, <<p>>, "none")
  BY <1>1, <1>2, <1>3, FilterBranches
<1> HIDE DEF r
<1>5. r.slot = Reset /\ r.out = <<p>>
  BY <1>4 DEF Outcome
<1> QED
  BY <1>5 DEF r

\* What ConvertToFlatBitmap makes of the bitmaps of a packet of one leaf of
\* several: the positions of the workers it speaks for.
LEMMA FlatOfLeaf ==
  ASSUME FlatNumbering, Len(FanIns) >= 2, NEW l \in Leaves, NEW bits,
         bits \subseteq 0..(FanIns[l] - 1)
  PROVE  JobTree!ConvertToFlatBitmap(Tree, bits, {l - 1})
           = {Offset(l) + k : k \in bits}
<1> DEFINE br == Tree.branches
           n == Len(FanIns)
           flat == {Offset(l) + k : k \in bits}
<1>1. /\ l \in 1..n /\ n \in Nat /\ Offset(l) \in Nat
      /\ \A k \in bits : Offset(l) + k \in Bits
  BY Positions
<1>2. /\ Tree.fullBitmap1 = 0..(n - 1)
      /\ br = [b \in 0..(n - 1) |->
                 [fanInDegree0 |-> FanIns[b + 1],
                  fullBitmap0 |-> 0..(FanIns[b + 1] - 1)]]
  BY DEF Tree, JobTree!InstallJobTree
<1>3. JobTree!WorkerOffset(br, l - 1) = Offset(l)
  BY DEF FlatNumbering
<1> DEFINE c == l - 1
<1>4. c \in 0..(n - 1) /\ c + 1 = l
  BY <1>1
<1> HIDE DEF br, c
<1>5. DOMAIN br = 0..(n - 1) /\ br[c].fullBitmap0 = 0..(FanIns[l] - 1)
  BY <1>2, <1>4
<1>6. {c} # Tree.fullBitmap1
  <2>1. 0 \in 0..(n - 1) /\ 1 \in 0..(n - 1)
    BY <1>1
  <2>2. ~(0 \in {c} /\ 1 \in {c})
    OBVIOUS
  <2> QED
    BY <1>2, <2>1, <2>2
<1>7. JobTree!BranchBits(br, c, bits) = flat
  <2>1. bits \cap br[c].fullBitmap0 = bits
    BY <1>5
  <2>2. flat \cap JobTree!Uint32Bits = flat
    BY <1>1 DEF JobTree!Uint32Bits, Bits
  <2> QED
    BY <1>3, <2>1, <2>2 DEF JobTree!BranchBits, c
<1>8. {JobTree!BranchBits(br, b, bits) : b \in DOMAIN br \cap {c}} = {flat}
  BY <1>4, <1>5, <1>7
<1>9. JobTree!ConvertToFlatBitmap(Tree, bits, {c})
        = UNION {JobTree!BranchBits(br, b, bits) : b \in DOMAIN br \cap {c}}
  BY <1>6 DEF JobTree!ConvertToFlatBitmap, br
<1>10. UNION {flat} = flat
  OBVIOUS
<1> QED
  BY <1>8, <1>9, <1>10 DEF c

\* The server finds in an honest packet the data of the workers it names.
LEMMA HonestFlat ==
  ASSUME FlatNumbering, Len(FanIns) >= 2, NEW p \in FromSomeLeaf
  PROVE  /\ p.data = JobTree!ConvertToFlatBitmap(Tree, p.bitmap0, p.bitmap1)
                       \X {p.seqNum}
         /\ R!GetFlatBitmap(Received(p))
              = JobTree!ConvertToFlatBitmap(Tree, p.bitmap0, p.bitmap1)
<1>1. PICK l \in Leaves : p \in FromLeaf(l)
  BY DEF FromSomeLeaf
<1>2. /\ p \in DataPackets /\ p.bitmap1 = {l - 1}
      /\ p.bitmap0 \subseteq 0..(FanIns[l] - 1)
      /\ p.data = Parts(l, p.bitmap0, p.seqNum)
  BY <1>1 DEF FromLeaf
<1>3. JobTree!ConvertToFlatBitmap(Tree, p.bitmap0, p.bitmap1)
        = {Offset(l) + k : k \in p.bitmap0}
  BY <1>2, FlatOfLeaf
<1>4. Parts(l, p.bitmap0, p.seqNum)
        = {Offset(l) + k : k \in p.bitmap0} \X {p.seqNum}
  BY DEF Parts
<1>5. R!GetFlatBitmap(Received(p))
        = JobTree!ConvertToFlatBitmap(Tree, p.bitmap0, p.bitmap1)
  <2> DEFINE q == Received(p)
             f == [j \in {Job} |-> Tree]
  <2>1. q.jobId = Job /\ q.bitmap0 = p.bitmap0 /\ q.bitmap1 = p.bitmap1
    BY <1>2, PacketFields DEF Received
  <2>2. f[Job] = Tree
    OBVIOUS
  <2> HIDE DEF q, f
  <2>3. R!GetFlatBitmap(q)
          = R!ConvertToFlatBitmap(f[q.jobId], q.bitmap0, q.bitmap1)
    BY DEF R!GetFlatBitmap, f
  <2>4. \A t, a, b : R!ConvertToFlatBitmap(t, a, b) = JobTree!ConvertToFlatBitmap(t, a, b)
    BY DEF R!ConvertToFlatBitmap, R!BranchBits, R!WorkerOffset, R!Uint32Bits,
           R!MapThenSumSet, R!MapThenFoldSet, JobTree!ConvertToFlatBitmap,
           JobTree!BranchBits, JobTree!WorkerOffset, JobTree!Uint32Bits,
           JobTree!MapThenSumSet, JobTree!MapThenFoldSet
  <2> QED
    BY <2>1, <2>2, <2>3, <2>4 DEF q
<1> QED
  BY <1>2, <1>3, <1>4, <1>5
-----------------------------------------------------------------------------
(* Honesty, action by action.                                              *)

\* The server part of it, in a step that brings no packet.
LEMMA ServerStaysTruthful ==
  ASSUME R!IInv, R!Truthful, R!SendMultiAck \/ UNCHANGED server
  PROVE  R!Truthful'
<1>1. R!TruthfulArrivals
  BY DEF R!TruthfulArrivals
<1>2. [R!Next]_(R!vars)
  BY DEF R!Next, server, R!vars
<1> QED
  BY <1>1, <1>2, ServerAssumption, R!NextTruthful

\* The parts of Honesty about the network.
HonestNetwork ==
  /\ \A w \in Workers : up[w] \in Seq(Fresh(LeafOf(w)))
  /\ \A l \in Leaves : leafUp[l] \in Seq(Passing(l))
  /\ coreUp \in Seq(FromSomeLeaf)
  /\ \A l \in Leaves : \A i \in Indices : HonestSlot(slots[l][i], l)
  /\ \A i \in Indices : coreSlots[i] = Reset

\* Nothing is on its way at the beginning.
LEMMA InitHonesty ==
  ASSUME Init
  PROVE  Honesty
<1>1. R!Truthful
  BY SameServer, ServerAssumption, R!NewSocketTruthful DEF Init
<1>2. /\ \A w \in Workers : up[w] = <<>>
      /\ \A l \in Leaves : leafUp[l] = <<>>
      /\ coreUp = <<>>
      /\ \A l \in Leaves : \A i \in Indices : slots[l][i] = Reset
      /\ \A i \in Indices : coreSlots[i] = Reset
  BY DEF Init, Indices
<1>3. \A S : <<>> \in Seq(S)
  OBVIOUS
<1> QED
  BY <1>1, <1>2, <1>3, EmptyHonest DEF Honesty

\* Packets a worker sends.
LEMMA TransmitHonest ==
  ASSUME IInv, HonestNetwork, NEW w \in Workers,
         NEW q \in Seq(Fresh(LeafOf(w))), up' = [up EXCEPT ![w] = @ \o q],
         UNCHANGED <<leafUp, coreUp, slots, coreSlots>>
  PROVE  HonestNetwork'
<1>1. up \in [Workers -> Seq(DataPackets)] /\ up[w] \in Seq(Fresh(LeafOf(w)))
  BY DEF IInv, NetworkTypes, HonestNetwork
<1>2. up[w] \o q \in Seq(Fresh(LeafOf(w)))
  BY <1>1, ConcatFacts
<1>3. \A v \in Workers : up'[v] = IF v = w THEN up[w] \o q ELSE up[v]
  BY <1>1
<1>4. \A v \in Workers : up'[v] \in Seq(Fresh(LeafOf(v)))
  BY <1>2, <1>3 DEF HonestNetwork
<1> QED
  BY <1>4 DEF HonestNetwork

\* The three handlers of a worker.
LEMMA WorkerHonest ==
  ASSUME FlatNumbering, IInv, HonestNetwork, NEW w \in Workers,
         SendWindow(w) \/ Timeout(w) \/ AckArrives(w)
  PROVE  HonestNetwork'
<1>0. /\ SeqNums \subseteq Nat /\ tx[w] \in BuffersOf(SeqNums) /\ NetworkTypes
  BY IndexType DEF IInv, NetworkTypes
<1>1. ASSUME NEW r, r.tx \in BuffersOf(SeqNums), r.out \in Seq(OutOf(SeqNums)),
             Transmit(w, r), UNCHANGED <<slots, coreSlots>>
      PROVE  HonestNetwork'
  <2>1. \E q \in Seq(Fresh(LeafOf(w))) : up' = [up EXCEPT ![w] = @ \o q]
    BY <1>0, <1>1, TransmitTypes
  <2>2. UNCHANGED <<leafUp, coreUp>>
    BY <1>1 DEF Transmit
  <2> QED
    BY <1>1, <2>1, <2>2, TransmitHonest
<1>2. CASE SendWindow(w)
  <2>1. /\ Transmit(w, SendWindowData(tx[w])) /\ UNCHANGED <<slots, coreSlots>>
    BY <1>2 DEF SendWindow
  <2>2. /\ SendWindowData(tx[w]).tx \in BuffersOf(SeqNums)
        /\ SendWindowData(tx[w]).out \in Seq(OutOf(SeqNums))
    BY <1>0, SendWindowOf
  <2> QED
    BY <1>1, <2>1, <2>2
<1>3. CASE Timeout(w)
  <2>1. PICK n \in 1..Len(tx[w].m_sentQueue) : CheckRetransmitTimeout(w, n)
    BY <1>3 DEF Timeout
  <2> DEFINE r == CheckAndMoveTimeoutPackets(tx[w], n)
  <2>2. Transmit(w, r) /\ UNCHANGED <<slots, coreSlots>>
    BY <2>1 DEF CheckRetransmitTimeout
  <2>3. n \in 0..Len(tx[w].m_sentQueue)
    BY <2>1
  <2>4. r.tx \in BuffersOf(SeqNums) /\ r.out \in Seq(OutOf(SeqNums))
    BY <1>0, <2>3, TimeoutOf
  <2> HIDE DEF r
  <2> QED
    BY <1>1, <2>2, <2>4
<1>4. CASE AckArrives(w)
  <2>1. PICK cwnd \in Windows : WorkerAck(w, cwnd)
    BY <1>4 DEF AckArrives
  <2> DEFINE s == Head(ackWorker[w])
             t == tx[w]
             a == ProcessCongestion(ProcessOrderedAck(t, s), s, cwnd)
             r1 == [tx |-> a, out |-> <<>>]
             r2 == ProcessUnorderedAck(t, s)
  <2>2. /\ ackWorker[w] # <<>>
        /\ \/ IsOrderedAck(t, s) /\ Transmit(w, r1)
           \/ Transmit(w, r2)
        /\ UNCHANGED <<slots, coreSlots>>
    BY <2>1 DEF WorkerAck
  <2>3. ackWorker[w] \in Seq(Done) /\ Done \subseteq Nat /\ cwnd \in Nat
    BY <1>0, SystemAssumption DEF IInv, AcksDone, Done
  <2>4. s \in Nat
    BY <2>2, <2>3, LinkFacts
  <2> HIDE DEF s, t
  <2>5. t \in BuffersOf(SeqNums)
    BY <1>0 DEF t
  <2>6. CASE IsOrderedAck(t, s) /\ Transmit(w, r1)
    <3>1. a \in BuffersOf(SeqNums)
      BY <2>3, <2>4, <2>5, <2>6, OrderedAckOf
    <3> HIDE DEF a
    <3>2. r1.tx = a /\ r1.out = <<>>
      OBVIOUS
    <3> HIDE DEF r1
    <3>3. r1.out \in Seq(OutOf(SeqNums))
      BY <3>2
    <3> QED
      BY <1>1, <2>2, <2>6, <3>1, <3>2, <3>3
  <2>7. CASE Transmit(w, r2)
    <3>1. r2.tx \in BuffersOf(SeqNums) /\ r2.out \in Seq(OutOf(SeqNums))
      BY <1>0, <2>4, <2>5, UnorderedAckOf
    <3> HIDE DEF r2
    <3> QED
      BY <1>1, <2>2, <2>7, <3>1
  <2> QED
    BY <2>2, <2>6, <2>7
<1> QED
  BY <1>2, <1>3, <1>4

\* The leaf switch.
LEMMA LeafForwardHonest ==
  ASSUME FlatNumbering, IInv, HonestNetwork, NEW w \in Workers, LeafForward(w)
  PROVE  HonestNetwork'
<1> DEFINE l == LeafOf(w)
           p == Head(up[w])
           i == HashToIndex(p.seqNum)
           r == FilterPacket(slots[l][i], p, Hierarchical)
<1>1. /\ l \in Leaves /\ i \in Indices /\ up[w] # <<>>
      /\ slots[l][i] \in SlotStates
      /\ up' = [up EXCEPT ![w] = Tail(@)]
      /\ slots' = [slots EXCEPT ![l][i] = r.slot]
      /\ leafUp' = [leafUp EXCEPT ![l] = @ \o r.out]
  BY LeafForwardTypes
<1>2. UNCHANGED <<coreSlots, coreUp>>
  BY DEF LeafForward
<1>3. /\ up \in [Workers -> Seq(DataPackets)]
      /\ leafUp \in [Leaves -> Seq(DataPackets)]
      /\ slots \in [Leaves -> [Indices -> SlotStates]]
      /\ Hierarchical \in BOOLEAN
  BY SystemAssumption DEF IInv, NetworkTypes
<1>4. up[w] \in Seq(Fresh(l)) /\ leafUp[l] \in Seq(Passing(l))
      /\ HonestSlot(slots[l][i], l)
  BY <1>1 DEF HonestNetwork
<1>5. p \in Fresh(l) /\ Tail(up[w]) \in Seq(Fresh(l))
  BY <1>1, <1>4, LinkFacts
<1> HIDE DEF p, i
<1>6. HonestSlot(r.slot, l) /\ r.out \in Seq(Passing(l))
  BY <1>1, <1>3, <1>4, <1>5, LeafFilterHonest
<1> HIDE DEF r
<1>7. \A v \in Workers : up'[v] \in Seq(Fresh(LeafOf(v)))
  <2>1. \A v \in Workers : up'[v] = IF v = w THEN Tail(up[w]) ELSE up[v]
    BY <1>1, <1>3
  <2> QED
    BY <1>5, <2>1 DEF HonestNetwork
<1> HIDE DEF l
<1>8. leafUp[l] \o r.out \in Seq(Passing(l))
  BY <1>4, <1>6, ConcatFacts
<1>9. \A m \in Leaves : leafUp'[m] \in Seq(Passing(m))
  <2>1. \A m \in Leaves : leafUp'[m] = IF m = l THEN leafUp[l] \o r.out ELSE leafUp[m]
    BY <1>1, <1>3
  <2> QED
    BY <1>8, <2>1 DEF HonestNetwork
<1>10. \A m \in Leaves : \A j \in Indices : HonestSlot(slots'[m][j], m)
  <2>1. \A m \in Leaves : \A j \in Indices :
          slots'[m][j] = IF m = l /\ j = i THEN r.slot ELSE slots[m][j]
    BY <1>1, <1>3
  <2> QED
    BY <1>6, <2>1 DEF HonestNetwork
<1> QED
  BY <1>2, <1>7, <1>9, <1>10 DEF HonestNetwork

\* The second switch.
LEMMA CoreForwardHonest ==
  ASSUME ~Hierarchical, IInv, HonestNetwork, NEW l \in Leaves, CoreForward(l)
  PROVE  HonestNetwork'
<1> DEFINE p == Head(leafUp[l])
           i == HashToIndex(p.seqNum)
           r == FilterPacket(coreSlots[i], p, Hierarchical)
<1>1. /\ leafUp[l] # <<>>
      /\ leafUp' = [leafUp EXCEPT ![l] = Tail(@)]
      /\ coreSlots' = [coreSlots EXCEPT ![i] = r.slot]
      /\ coreUp' = coreUp \o r.out
      /\ UNCHANGED <<slots, up>>
  BY DEF CoreForward
<1>2. /\ leafUp \in [Leaves -> Seq(DataPackets)] /\ leafUp[l] \in Seq(Passing(l))
      /\ coreSlots \in [Indices -> SlotStates]
  BY DEF IInv, NetworkTypes, HonestNetwork
<1>3. p \in Passing(l) /\ Tail(leafUp[l]) \in Seq(Passing(l))
  BY <1>1, <1>2, LinkFacts
<1>4. p \in FromLeaf(l) /\ p \in DataPackets
  BY <1>3 DEF Passing, FromLeaf
<1>5. i \in Indices
  BY <1>4, PacketFields, IndexType
<1> HIDE DEF p, i
<1>6. coreSlots[i] = Reset /\ Hierarchical = FALSE
  BY <1>5, SystemAssumption DEF HonestNetwork
<1>7. r = FilterPacket(Reset, p, FALSE)
  BY <1>6
<1> HIDE DEF r
<1>8. r.slot = Reset /\ r.out = <<p>>
  BY <1>3, <1>7, CoreFilterPasses
<1>9. p \in FromSomeLeaf
  BY <1>4 DEF FromSomeLeaf
<1>10. coreUp' \in Seq(FromSomeLeaf)
  <2>1. coreUp \in Seq(FromSomeLeaf) /\ <<p>> \in Seq(FromSomeLeaf)
    BY <1>9 DEF HonestNetwork
  <2> QED
    BY <1>1, <1>8, <2>1, ConcatFacts
<1>11. \A m \in Leaves : leafUp'[m] \in Seq(Passing(m))
  <2>1. \A m \in Leaves : leafUp'[m] = IF m = l THEN Tail(leafUp[l]) ELSE leafUp[m]
    BY <1>1, <1>2
  <2> QED
    BY <1>3, <2>1 DEF HonestNetwork
<1>12. \A j \in Indices : coreSlots'[j] = Reset
  BY <1>1, <1>2, <1>8 DEF HonestNetwork
<1> QED
  BY <1>1, <1>10, <1>11, <1>12 DEF HonestNetwork

\* An ACK leaves the slots it does not free as they were.
LEMMA AckHonest ==
  ASSUME IInv, HonestNetwork, CoreAck \/ \E l \in Leaves : LeafAck(l)
  PROVE  HonestNetwork'
<1>1. CASE CoreAck
  <2> DEFINE s == Head(ackCore)
             i == HashToIndex(s)
             slot == FilterPacket(coreSlots[i], AckTag(s), Hierarchical).slot
  <2>1. /\ coreSlots' = [coreSlots EXCEPT ![i] = slot] /\ ackCore # <<>>
        /\ UNCHANGED <<slots, up, leafUp, coreUp>>
    BY <1>1 DEF CoreAck, data
  <2>2. ackCore \in Seq(Done) /\ coreSlots \in [Indices -> SlotStates]
    BY DEF IInv, AcksDone, NetworkTypes
  <2>3. s \in SeqNums
    BY <2>1, <2>2, LinkFacts DEF Done
  <2>4. i \in Indices
    BY <2>3, IndexType
  <2> HIDE DEF s, i
  <2>5. slot = Reset
    BY <2>4, FilterAck DEF HonestNetwork
  <2> HIDE DEF slot
  <2>6. \A j \in Indices : coreSlots'[j] = Reset
    BY <2>1, <2>2, <2>5 DEF HonestNetwork
  <2> QED
    BY <2>1, <2>6 DEF HonestNetwork
<1>2. ASSUME NEW l \in Leaves, LeafAck(l) PROVE HonestNetwork'
  <2> DEFINE s == Head(ackLeaf[l])
             i == HashToIndex(s)
             slot == FilterPacket(slots[l][i], AckTag(s), Hierarchical).slot
  <2>1. /\ slots' = [slots EXCEPT ![l][i] = slot] /\ ackLeaf[l] # <<>>
        /\ UNCHANGED <<coreSlots, up, leafUp, coreUp>>
    BY <1>2 DEF LeafAck, data
  <2>2. ackLeaf[l] \in Seq(Done) /\ slots \in [Leaves -> [Indices -> SlotStates]]
    BY DEF IInv, AcksDone, NetworkTypes
  <2>3. s \in SeqNums
    BY <2>1, <2>2, LinkFacts DEF Done
  <2>4. i \in Indices
    BY <2>3, IndexType
  <2> HIDE DEF s, i
  <2>5. HonestSlot(slot, l)
    BY <2>4, FilterAck, EmptyHonest DEF HonestNetwork
  <2> HIDE DEF slot
  <2>6. \A m \in Leaves : \A j \in Indices :
          slots'[m][j] = IF m = l /\ j = i THEN slot ELSE slots[m][j]
    BY <2>1, <2>2
  <2>7. \A m \in Leaves : \A j \in Indices : HonestSlot(slots'[m][j], m)
    BY <2>5, <2>6 DEF HonestNetwork
  <2> QED
    BY <2>1, <2>7 DEF HonestNetwork
<1> QED
  BY <1>1, <1>2

\* Losing packets.
LEMMA LoseHonest ==
  ASSUME IInv, HonestNetwork, LoseData
  PROVE  HonestNetwork'
<1>1. UNCHANGED <<slots, coreSlots>>
  BY DEF LoseData
<1>2. CASE LoseOneOf(up) /\ UNCHANGED <<leafUp, coreUp>>
  <2>1. up \in [Workers -> Seq(DataPackets)]
    BY DEF IInv, NetworkTypes
  <2>2. PICK w \in Workers : up[w] # <<>> /\ up' = [up EXCEPT ![w] = Tail(@)]
    BY <1>2, <2>1 DEF LoseOneOf
  <2>3. Tail(up[w]) \in Seq(Fresh(LeafOf(w)))
    BY <2>2, LinkFacts DEF HonestNetwork
  <2>4. \A v \in Workers : up'[v] = IF v = w THEN Tail(up[w]) ELSE up[v]
    BY <2>1, <2>2
  <2>5. \A v \in Workers : up'[v] \in Seq(Fresh(LeafOf(v)))
    BY <2>3, <2>4 DEF HonestNetwork
  <2> QED
    BY <1>1, <1>2, <2>5 DEF HonestNetwork
<1>3. CASE LoseOneOf(leafUp) /\ UNCHANGED <<up, coreUp>>
  <2>1. leafUp \in [Leaves -> Seq(DataPackets)]
    BY DEF IInv, NetworkTypes
  <2>2. PICK l \in Leaves : leafUp[l] # <<>> /\ leafUp' = [leafUp EXCEPT ![l] = Tail(@)]
    BY <1>3, <2>1 DEF LoseOneOf
  <2>3. Tail(leafUp[l]) \in Seq(Passing(l))
    BY <2>2, LinkFacts DEF HonestNetwork
  <2>4. \A m \in Leaves : leafUp'[m] = IF m = l THEN Tail(leafUp[l]) ELSE leafUp[m]
    BY <2>1, <2>2
  <2>5. \A m \in Leaves : leafUp'[m] \in Seq(Passing(m))
    BY <2>3, <2>4 DEF HonestNetwork
  <2> QED
    BY <1>1, <1>3, <2>5 DEF HonestNetwork
<1>4. CASE Lose(coreUp) /\ UNCHANGED <<up, leafUp>>
  <2>1. coreUp' \in Seq(FromSomeLeaf)
    BY <1>4, LinkFacts DEF HonestNetwork, Lose
  <2> QED
    BY <1>1, <1>4, <2>1 DEF HonestNetwork
<1> QED
  BY <1>2, <1>3, <1>4 DEF LoseData

\* The arrival of an honest packet at the server.
LEMMA ServerReceiveHonest ==
  ASSUME FlatNumbering, Len(FanIns) >= 2, IInv, Honesty, ServerReceive
  PROVE  Honesty'
<1> DEFINE p == Head(coreUp)
           q == Received(p)
<1>1. /\ coreUp # <<>> /\ coreUp' = Tail(coreUp)
      /\ R!ForwardUp(q)
      /\ UNCHANGED <<slots, coreSlots, up, leafUp>>
  BY SameForwardUp DEF ServerReceive
<1>2. coreUp \in Seq(FromSomeLeaf) /\ R!Truthful /\ R!IInv
  BY DEF Honesty, IInv
<1>3. p \in FromSomeLeaf /\ coreUp' \in Seq(FromSomeLeaf)
  BY <1>1, <1>2, LinkFacts
<1>4. p \in DataPackets
  BY <1>3 DEF FromSomeLeaf
<1>5. q \in R!Packet
  BY <1>4, ReceivedType
<1>6. q.data = R!GetFlatBitmap(q) \X {q.seqNum}
  <2>1. q.data = p.data /\ q.seqNum = p.seqNum
    BY DEF Received
  <2>2. p.data = R!GetFlatBitmap(q) \X {p.seqNum}
    BY <1>3, HonestFlat
  <2> QED
    BY <2>1, <2>2
<1> HIDE DEF p, q
<1>7. R!Truthful'
  BY <1>1, <1>2, <1>5, <1>6, ServerAssumption, R!ForwardUpTruthful
<1> QED
  BY <1>1, <1>3, <1>7 DEF Honesty

\* Every step keeps Honesty.
LEMMA NextHonesty ==
  ASSUME FlatNumbering, Len(FanIns) >= 2, ~Hierarchical,
         IInv, Honesty, [Next]_vars
  PROVE  Honesty'
<1>1. HonestNetwork /\ R!Truthful /\ R!IInv
  BY DEF Honesty, HonestNetwork, IInv
<1>2. ASSUME HonestNetwork', R!SendMultiAck \/ UNCHANGED server PROVE Honesty'
  BY <1>1, <1>2, ServerStaysTruthful DEF Honesty, HonestNetwork
<1>3. ASSUME UNCHANGED <<up, leafUp, coreUp, slots, coreSlots>> PROVE HonestNetwork'
  BY <1>1, <1>3 DEF HonestNetwork
<1>4. CASE UNCHANGED vars
  BY <1>2, <1>3, <1>4 DEF vars, data
<1>5. ASSUME NEW w \in Workers, SendWindow(w) \/ Timeout(w) \/ AckArrives(w)
      PROVE  Honesty'
  <2>1. UNCHANGED server
    BY <1>5 DEF SendWindow, Timeout, CheckRetransmitTimeout, AckArrives, WorkerAck
  <2>2. HonestNetwork'
    BY <1>1, <1>5, WorkerHonest
  <2> QED
    BY <1>2, <2>1, <2>2
<1>6. ASSUME NEW w \in Workers, LeafForward(w) PROVE Honesty'
  <2>1. UNCHANGED server
    BY <1>6 DEF LeafForward
  <2>2. HonestNetwork'
    BY <1>1, <1>6, LeafForwardHonest
  <2> QED
    BY <1>2, <2>1, <2>2
<1>7. ASSUME NEW l \in Leaves, CoreForward(l) PROVE Honesty'
  <2>1. UNCHANGED server
    BY <1>7 DEF CoreForward
  <2>2. HonestNetwork'
    BY <1>1, <1>7, CoreForwardHonest
  <2> QED
    BY <1>2, <2>1, <2>2
<1>8. CASE CoreAck \/ \E l \in Leaves : LeafAck(l)
  <2>1. UNCHANGED server
    BY <1>8 DEF CoreAck, LeafAck
  <2>2. HonestNetwork'
    BY <1>1, <1>8, AckHonest
  <2> QED
    BY <1>2, <2>1, <2>2
<1>9. CASE ServerReceive
  BY <1>9, ServerReceiveHonest
<1>10. CASE ServerAck
  <2>1. R!SendMultiAck /\ UNCHANGED <<up, leafUp, coreUp, slots, coreSlots>>
    BY <1>10, SameServer DEF ServerAck, data
  <2> QED
    BY <1>2, <1>3, <2>1
<1>11. CASE LoseData
  <2>1. UNCHANGED server
    BY <1>11 DEF LoseData
  <2>2. HonestNetwork'
    BY <1>1, <1>11, LoseHonest
  <2> QED
    BY <1>2, <2>1, <2>2
<1>12. CASE LoseAck
  <2>1. UNCHANGED server /\ UNCHANGED <<up, leafUp, coreUp, slots, coreSlots>>
    BY <1>12 DEF LoseAck, data
  <2> QED
    BY <1>2, <1>3, <2>1
<1> QED
  BY <1>4, <1>5, <1>6, <1>7, <1>8, <1>9, <1>10, <1>11, <1>12 DEF Next
-----------------------------------------------------------------------------
\* Both invariants together, from the start.
LEMMA HonestInvariance ==
  ASSUME FlatNumbering, Len(FanIns) >= 2, ~Hierarchical
  PROVE  Spec => [](IInv /\ Honesty)
<1>1. Init => IInv /\ Honesty
  BY InitIInv, InitHonesty
<1>2. IInv /\ Honesty /\ [Next]_vars => IInv' /\ Honesty'
  BY NextIInv, NextHonesty
<1> QED
  BY <1>1, <1>2, PTL DEF Spec

(***************************************************************************)
(* When the second switch does not aggregate and the job has workers under *)
(* more than one leaf, no bitmap lies: what ConvertToFlatBitmap reads off  *)
(* a packet, and what a leaf's slot claims to hold, has been contributed,  *)
(* under every order of fresh packets, copies, collisions and ACKs.        *)
(***************************************************************************)
THEOREM BitmapsAreTruthful ==
  ASSUME WorkersFit, Len(FanIns) >= 2, ~Hierarchical
  PROVE  Spec => []TruthfulBitmaps
<1> FlatNumbering
  BY NumberingIsFlat
<1>1. IInv /\ Honesty => TruthfulBitmaps
  <2> SUFFICES ASSUME IInv, Honesty PROVE TruthfulBitmaps
    OBVIOUS
  <2>1. ASSUME NEW l \in Leaves PROVE FromLeaf(l) \subseteq FromSomeLeaf
    BY DEF FromLeaf, FromSomeLeaf
  <2>2. ASSUME NEW p \in DataInFlight PROVE p \in FromSomeLeaf
    <3>1. CASE \E w \in Workers : p \in InFlight(up[w])
      <4>1. PICK w \in Workers : p \in InFlight(up[w])
        BY <3>1
      <4>2. up[w] \in Seq(Fresh(LeafOf(w))) /\ LeafOf(w) \in Leaves
        BY LeafOfWorker DEF Honesty
      <4>3. p \in Fresh(LeafOf(w))
        BY <4>1, <4>2 DEF InFlight
      <4> QED
        BY <2>1, <4>2, <4>3 DEF Fresh
    <3>2. CASE \E l \in Leaves : p \in InFlight(leafUp[l])
      <4>1. PICK l \in Leaves : p \in InFlight(leafUp[l])
        BY <3>2
      <4>2. leafUp[l] \in Seq(Passing(l))
        BY DEF Honesty
      <4>3. p \in Passing(l)
        BY <4>1, <4>2 DEF InFlight
      <4> QED
        BY <2>1, <4>3 DEF Passing
    <3>3. CASE p \in InFlight(coreUp)
      <4>1. coreUp \in Seq(FromSomeLeaf)
        BY DEF Honesty
      <4> QED
        BY <3>3, <4>1 DEF InFlight
    <3>4. \/ p \in UNION {InFlight(up[w]) : w \in Workers}
          \/ p \in UNION {InFlight(leafUp[l]) : l \in Leaves}
          \/ p \in InFlight(coreUp)
      BY Zenon, <2>2 DEF DataInFlight
    <3> QED
      BY Zenon, <3>1, <3>2, <3>3, <3>4
  <2>3. PacketsTruthful
    <3> SUFFICES ASSUME NEW p \in DataInFlight,
                        NEW w \in JobTree!ConvertToFlatBitmap(Tree, p.bitmap0, p.bitmap1)
                 PROVE  <<w, p.seqNum>> \in p.data
      BY DEF PacketsTruthful
    <3>1. p.data = JobTree!ConvertToFlatBitmap(Tree, p.bitmap0, p.bitmap1)
                     \X {p.seqNum}
      BY <2>2, HonestFlat
    <3> QED
      BY <3>1
  <2>4. LeafSlotsTruthful
    <3> SUFFICES ASSUME NEW l \in Leaves, NEW i \in DOMAIN slots[l]
                 PROVE  slots[l][i].data = Parts(l, slots[l][i].m_bitmap,
                                                 slots[l][i].m_seqNum)
      BY DEF LeafSlotsTruthful, Parts
    <3>1. i \in Indices
      BY DEF IInv, NetworkTypes
    <3> QED
      BY <3>1 DEF Honesty, HonestSlot
  <2> QED
    BY <2>3, <2>4 DEF TruthfulBitmaps
<1> QED
  BY <1>1, HonestInvariance, PTL

(***************************************************************************)
(* Under the same conditions the server delivers each sequence number at   *)
(* most once, and then summed over every worker of the job and nothing     *)
(* else, whatever the network loses, delays or has to send again.          *)
(***************************************************************************)
THEOREM DeliveriesAreOnceAndComplete ==
  ASSUME WorkersFit, Len(FanIns) >= 2, ~Hierarchical
  PROVE  Spec => []DeliveredOnceAndComplete
<1> FlatNumbering
  BY NumberingIsFlat
<1>1. IInv /\ Honesty => DeliveredOnceAndComplete
  BY SameServer DEF IInv, Honesty, R!IInv, R!Truthful, DeliveredOnceAndComplete
<1> QED
  BY <1>1, HonestInvariance, PTL
-----------------------------------------------------------------------------
(* The workers' windows.                                                   *)

\* The lemmas of ATPSenderProofs about the send buffer, for the windows here
\* and a buffer that takes all packets of a worker.  What ATPSender has around
\* the buffer plays no part in them.
W == INSTANCE ATPSenderProofs WITH
       BufferSize <- NumPackets + 1, InitCwnds <- Windows, MaxCwnd <- MaxWindow,
       Limits <- {}, MaxPackets <- 0, started <- FALSE, m_connected <- FALSE,
       m_maxBytes <- 0, m_totBytes <- 0, m_seqNum <- 0, m_unsentPacket <- 0,
       seqNums <- <<>>, tx <- 0, m_shutdownSend <- FALSE,
       m_sendWindowDataEvent <- FALSE, m_retxTimeoutCheckEvent <- FALSE,
       acks <- {}

\* W's assumption on its constants holds of the ones it is given.
LEMMA WindowAssumption ==
  /\ W!SenderAssumption
  /\ MaxWindow \in Nat \ {0} /\ \A c \in Windows : c \in 1..MaxWindow
<1>1. PICK m \in Windows : \A c \in Windows : c <= m
  BY SystemAssumption
<1>2. MaxWindow \in Windows /\ \A c \in Windows : c <= MaxWindow
  BY <1>1 DEF MaxWindow
<1>3. /\ MaxWindow \in Nat \ {0} /\ NumPackets \in Nat
      /\ \A c \in Windows : c \in Nat \ {0}
  BY <1>2, SystemAssumption
<1>4. \A c \in Windows : c \in 1..MaxWindow
  BY <1>2, <1>3
<1> QED
  BY <1>3, <1>4 DEF W!SenderAssumption

\* W's operators are those of ATPTxBuffer.
LEMMA SameBuffer ==
  /\ \A c : W!NewBuffer(c) = NewBuffer(c)
  /\ \A t, n : W!AddPackets(t, n) = AddPackets(t, n)
  /\ \A t : W!SendWindowData(t) = SendWindowData(t)
  /\ \A t, id : W!IsOrderedAck(t, id) <=> IsOrderedAck(t, id)
  /\ \A t, id : W!ProcessOrderedAck(t, id) = ProcessOrderedAck(t, id)
  /\ \A t, id, c : W!ProcessCongestion(t, id, c) = ProcessCongestion(t, id, c)
  /\ \A t, id : W!ProcessUnorderedAck(t, id) = ProcessUnorderedAck(t, id)
  /\ \A t, n : W!CheckAndMoveTimeoutPackets(t, n) = CheckAndMoveTimeoutPackets(t, n)
<1>1. \A c : W!NewBuffer(c) = NewBuffer(c)
  BY DEF W!NewBuffer, NewBuffer
<1>2. \A t, n : W!AddPackets(t, n) = AddPackets(t, n)
  BY DEF W!AddPackets, AddPackets
<1>3. \A t : W!SendWindowData(t) = SendWindowData(t)
  <2>1. \A ids, b : W!FrontUpTo(ids, b) = FrontUpTo(ids, b)
    BY DEF W!FrontUpTo, FrontUpTo
  <2>2. \A t : W!InWindow(t) = InWindow(t)
    BY <2>1 DEF W!InWindow, InWindow
  <2> QED
    BY <2>2 DEF W!SendWindowData, W!SendPackets, W!SentItem, W!Sent,
                SendWindowData, SendPackets, SentItem, Sent
<1>4. \A t, id : W!IsOrderedAck(t, id) <=> IsOrderedAck(t, id)
  BY DEF W!IsOrderedAck, IsOrderedAck
<1>5. \A t, id : W!ProcessOrderedAck(t, id) = ProcessOrderedAck(t, id)
  BY DEF W!ProcessOrderedAck, ProcessOrderedAck
<1>6. \A t, id, c : W!ProcessCongestion(t, id, c) = ProcessCongestion(t, id, c)
  BY DEF W!ProcessCongestion, W!EndsRound, ProcessCongestion, EndsRound
<1>7. \A t, id : W!ProcessUnorderedAck(t, id) = ProcessUnorderedAck(t, id)
  BY DEF W!ProcessUnorderedAck, W!FrontUpTo, W!Sent,
         ProcessUnorderedAck, FrontUpTo, Sent
<1>8. \A t, n : W!CheckAndMoveTimeoutPackets(t, n) = CheckAndMoveTimeoutPackets(t, n)
  BY DEF W!CheckAndMoveTimeoutPackets, W!Resent, CheckAndMoveTimeoutPackets, Resent
<1> QED
  BY <1>1, <1>2, <1>3, <1>4, <1>5, <1>6, <1>7, <1>8

\* A buffer of a worker here: its queues are in order, it lags no more than a
\* window behind, and it was given all the packets.
Fit(t) == W!Good(t) /\ t.m_packetNum = NumPackets

\* The packets a worker would still retransmit.
IdsOf(t) == {t.m_sentQueue[k].m_packetId : k \in DOMAIN t.m_sentQueue}

\* What this says.
LEMMA FitFacts ==
  ASSUME NEW t \in BuffersOf(SeqNums), Fit(t)
  PROVE  LET H == t.m_highestSentPacketId
             L == t.m_leftBound
             pq == t.m_pendingQueue
             sq == t.m_sentQueue
         IN  /\ NumPackets \in Nat /\ H \in Nat /\ L \in Nat
             /\ L <= H /\ H <= NumPackets /\ H <= L + MaxWindow
             /\ pq \in Seq(SeqNums) /\ sq \in Seq(SentItemsOf(SeqNums))
             /\ Len(pq) \in Nat /\ DOMAIN pq = 1..Len(pq)
             /\ Len(sq) \in Nat /\ DOMAIN sq = 1..Len(sq)
             /\ H + Len(pq) = NumPackets
             /\ \A k \in 1..Len(pq) : pq[k] = H + k
             /\ \A k \in 1..Len(sq) : sq[k].m_packetId \in (L + 1)..H
             /\ \A j, k \in 1..Len(sq) :
                  j < k => sq[j].m_packetId < sq[k].m_packetId
             /\ IdsOf(t) = {sq[k].m_packetId : k \in 1..Len(sq)}
             /\ IdsOf(t) \subseteq (L + 1)..H
<1> DEFINE H == t.m_highestSentPacketId
           L == t.m_leftBound
           pq == t.m_pendingQueue
           sq == t.m_sentQueue
<1>1. /\ H \in Nat /\ L \in Nat /\ NumPackets \in Nat
      /\ pq \in Seq(SeqNums) /\ sq \in Seq(SentItemsOf(SeqNums))
  BY SystemAssumption DEF BuffersOf
<1>2. /\ L <= H /\ t.m_packetNum = H + Len(pq) /\ t.m_packetNum = NumPackets
      /\ H <= L + MaxWindow
      /\ \A k \in DOMAIN pq : pq[k] = H + k
      /\ \A k \in DOMAIN sq : sq[k].m_packetId \in (L + 1)..H
      /\ \A j, k \in DOMAIN sq : j < k => sq[j].m_packetId < sq[k].m_packetId
  BY DEF Fit, W!Good, W!InOrder
<1>3. IdsOf(t) = {sq[k].m_packetId : k \in DOMAIN sq}
  BY DEF IdsOf
<1> HIDE DEF H, L, pq, sq
<1>4. /\ Len(pq) \in Nat /\ DOMAIN pq = 1..Len(pq)
      /\ Len(sq) \in Nat /\ DOMAIN sq = 1..Len(sq)
  BY <1>1
<1>5. H <= NumPackets /\ H + Len(pq) = NumPackets
  BY <1>1, <1>2, <1>4
<1>6. IdsOf(t) \subseteq (L + 1)..H
  BY <1>2, <1>3
<1> QED
  BY <1>1, <1>2, <1>3, <1>4, <1>5, <1>6 DEF H, L, pq, sq

\* A buffer just filled.
LEMMA FilledFit ==
  ASSUME NEW c \in Windows
  PROVE  LET u == AddPackets(NewBuffer(c), NumPackets) IN
         Fit(u) /\ u.m_highestSentPacketId = 0 /\ IdsOf(u) = {}
<1> DEFINE b == NewBuffer(c)
           u == AddPackets(b, NumPackets)
<1>1. W!Good(b) /\ b.m_packetNum = 0
  BY WindowAssumption, SameBuffer, W!NewBufferGood
<1>2. b.m_highestSentPacketId = 0 /\ b.m_sentQueue = <<>> /\ b.m_pendingQueue = <<>>
  BY DEF NewBuffer
<1>3. NumPackets \in Nat /\ NumPackets <= W!Room(b, NumPackets + 1)
  BY <1>2, SystemAssumption DEF W!Room
<1> HIDE DEF b
<1>4. /\ W!Good(u) /\ u.m_packetNum = b.m_packetNum + NumPackets
      /\ u.m_sentQueue = b.m_sentQueue
      /\ u.m_highestSentPacketId = b.m_highestSentPacketId
  BY <1>1, <1>3, WindowAssumption, SameBuffer, W!AddPacketsGood
<1> HIDE DEF u
<1>5. IdsOf(u) = {}
  BY <1>2, <1>4 DEF IdsOf
<1> QED
  BY <1>1, <1>2, <1>3, <1>4, <1>5 DEF Fit, u, b

\* SendWindowData sends the next packets and keeps them.
LEMMA SendWindowFit ==
  ASSUME NEW t \in BuffersOf(SeqNums), Fit(t)
  PROVE  LET r == SendWindowData(t)
             H == t.m_highestSentPacketId
             G == r.tx.m_highestSentPacketId
         IN  /\ Fit(r.tx) /\ H <= G
             /\ IdsOf(r.tx) = IdsOf(t) \cup (H + 1)..G
             /\ \A k \in 1..Len(r.out) : r.out[k].m_packetId <= G
<1> DEFINE q == t.m_pendingQueue
           sq == t.m_sentQueue
           H == t.m_highestSentPacketId
           n == InWindow(t)
           h == IF n > 0 /\ q[n] > H THEN q[n] ELSE H
           rest == SubSeq(q, n + 1, Len(q))
           more == [k \in 1..n |-> SentItem(q[k])]
           u == SendWindowData(t).tx
           out == SendWindowData(t).out
           all == sq \o more
<1>1. W!Good(u) /\ u.m_packetNum = t.m_packetNum
  BY WindowAssumption, SameBuffer, W!SendWindowGood DEF Fit
<1>2. /\ H \in Nat /\ q \in Seq(SeqNums) /\ sq \in Seq(SentItemsOf(SeqNums))
      /\ Len(q) \in Nat /\ Len(sq) \in Nat /\ DOMAIN sq = 1..Len(sq)
      /\ \A k \in 1..Len(q) : q[k] = H + k
  BY FitFacts
<1>3. n \in 0..Len(q)
  BY InWindowWithin, IndexType
<1>4. u = [t EXCEPT !.m_pendingQueue = rest, !.m_sentQueue = all,
                    !.m_highestSentPacketId = h]
  BY DEF SendWindowData, SendPackets
<1>5. out = [k \in 1..n |-> Sent(q[k])]
  BY DEF SendWindowData
<1>6. IdsOf(t) = {sq[k].m_packetId : k \in DOMAIN sq}
  BY DEF IdsOf
<1> HIDE DEF u, n, q, sq, H, out, rest
<1>7. h = H + n
  <2>1. CASE n = 0
    BY <1>2, <2>1
  <2>2. CASE n > 0
    <3>1. q[n] = H + n
      BY <1>2, <1>3, <2>2
    <3> QED
      BY <1>2, <1>3, <2>2, <3>1
  <2> QED
    BY <1>3, <2>1, <2>2
<1> HIDE DEF h
<1>8. \A k \in 1..n : SentItem(q[k]) = SentItem(H + k) /\ q[k] = H + k
  BY <1>2, <1>3
<1>9. /\ Len(more) = n /\ DOMAIN more = 1..n
      /\ \A k \in 1..n : more[k].m_packetId = H + k
  <2>1. \A k \in 1..n : more[k] = SentItem(H + k)
    BY <1>8
  <2>2. DOMAIN more = 1..n /\ n \in Nat
    BY <1>2, <1>3
  <2> HIDE DEF more
  <2>3. Len(more) = n
    BY <2>2, LenDomain
  <2> QED
    BY <2>1, <2>2, <2>3 DEF SentItem
<1>10. more \in Seq(SentItemsOf(SeqNums))
  <2>1. \A k \in 1..n : q[k] \in SeqNums
    BY <1>2, <1>3
  <2>2. \A k \in 1..n : SentItem(q[k]) \in SentItemsOf(SeqNums)
    BY <2>1 DEF SentItem, SentItemsOf
  <2> QED
    BY <1>3, <2>2
<1> HIDE DEF more
<1>11. /\ DOMAIN all = 1..(Len(sq) + n)
       /\ \A k \in 1..Len(sq) : all[k] = sq[k]
       /\ \A k \in 1..n : all[Len(sq) + k] = more[k]
  <2>1. /\ DOMAIN all = 1..(Len(sq) + Len(more))
        /\ \A k \in 1..Len(sq) : all[k] = sq[k]
        /\ \A k \in 1..Len(more) : all[Len(sq) + k] = more[k]
    BY <1>2, <1>10, ConcatFacts
  <2> QED
    BY <1>9, <2>1
<1> HIDE DEF all
<1>12. {all[k].m_packetId : k \in DOMAIN all}
         = {sq[k].m_packetId : k \in DOMAIN sq} \cup (H + 1)..(H + n)
  <2>1. ASSUME NEW k \in DOMAIN all
        PROVE  all[k].m_packetId \in {sq[j].m_packetId : j \in DOMAIN sq}
                                       \cup (H + 1)..(H + n)
    <3>1. CASE k \in 1..Len(sq)
      BY <1>2, <1>11, <3>1
    <3>2. CASE k \notin 1..Len(sq)
      <4>1. k - Len(sq) \in 1..n /\ k = Len(sq) + (k - Len(sq))
        BY <1>2, <1>3, <1>11, <2>1, <3>2
      <4>2. all[k].m_packetId = H + (k - Len(sq))
        BY <1>9, <1>11, <4>1
      <4> QED
        BY <1>2, <1>3, <4>1, <4>2
    <3> QED
      BY <3>1, <3>2
  <2>2. ASSUME NEW j \in DOMAIN sq
        PROVE  sq[j].m_packetId \in {all[k].m_packetId : k \in DOMAIN all}
    <3>1. j \in 1..Len(sq) /\ j \in DOMAIN all
      BY <1>2, <1>3, <1>11, <2>2
    <3> QED
      BY <1>11, <3>1
  <2>3. ASSUME NEW x \in (H + 1)..(H + n)
        PROVE  x \in {all[k].m_packetId : k \in DOMAIN all}
    <3>1. x - H \in 1..n /\ Len(sq) + (x - H) \in DOMAIN all
      BY <1>2, <1>3, <1>11, <2>3
    <3>2. all[Len(sq) + (x - H)].m_packetId = H + (x - H)
      BY <1>9, <1>11, <3>1
    <3>3. H + (x - H) = x
      BY <1>2, <2>3
    <3> QED
      BY <3>1, <3>2, <3>3
  <2> QED
    BY <2>1, <2>2, <2>3
<1>13. u.m_highestSentPacketId = H + n /\ u.m_sentQueue = all
  BY <1>4, <1>7 DEF BuffersOf
<1>14. IdsOf(u) = IdsOf(t) \cup (H + 1)..(H + n)
  BY <1>6, <1>12, <1>13 DEF IdsOf
<1>15. \A k \in 1..Len(out) : out[k].m_packetId <= H + n
  <2>1. Len(out) = n /\ \A k \in 1..n : out[k].m_packetId = H + k
    BY <1>3, <1>5, <1>8 DEF Sent
  <2> QED
    BY <1>2, <1>3, <2>1
<1>16. H <= H + n
  BY <1>2, <1>3
<1>17. Fit(u)
  BY <1>1 DEF Fit
<1> QED
  BY <1>13, <1>14, <1>15, <1>16, <1>17 DEF u, out, H

\* A timeout check forgets nothing.
LEMMA TimeoutFit ==
  ASSUME NEW t \in BuffersOf(SeqNums), Fit(t), NEW n \in 1..Len(t.m_sentQueue)
  PROVE  LET r == CheckAndMoveTimeoutPackets(t, n)
             H == t.m_highestSentPacketId
         IN  /\ Fit(r.tx) /\ r.tx.m_highestSentPacketId = H
             /\ IdsOf(r.tx) = IdsOf(t)
             /\ \A k \in 1..Len(r.out) : r.out[k].m_packetId <= H
<1> DEFINE q == t.m_sentQueue
           H == t.m_highestSentPacketId
           item(k) == [q[k] EXCEPT !.expired = (k <= n)]
           sq == [k \in DOMAIN q |-> item(k)]
           u == CheckAndMoveTimeoutPackets(t, n).tx
           out == CheckAndMoveTimeoutPackets(t, n).out
<1>1. /\ H \in Nat /\ t.m_leftBound \in Nat /\ q \in Seq(SentItemsOf(SeqNums))
      /\ Len(q) \in Nat /\ DOMAIN q = 1..Len(q)
      /\ \A k \in 1..Len(q) : q[k].m_packetId \in (t.m_leftBound + 1)..H
  BY FitFacts
<1>2. n \in Nat /\ n \in 1..Len(q)
  BY <1>1
<1>3. /\ W!Good(u) /\ u.m_packetNum = t.m_packetNum
      /\ u.m_highestSentPacketId = H
  BY <1>2, WindowAssumption, SameBuffer, W!TimeoutGood DEF Fit, W!SameWindow
<1>4. u = [t EXCEPT !.m_sentQueue = sq]
  BY DEF CheckAndMoveTimeoutPackets
<1>5. out = [k \in 1..n |-> Resent(q[k].m_packetId)]
  BY DEF CheckAndMoveTimeoutPackets
<1>6. IdsOf(t) = {q[k].m_packetId : k \in DOMAIN q}
  BY DEF IdsOf
<1> HIDE DEF u, q, H, out
<1>7. \A k \in DOMAIN q : item(k).m_packetId = q[k].m_packetId
  <2>1. \A k \in DOMAIN q : q[k] \in SentItemsOf(SeqNums)
    BY <1>1
  <2> QED
    BY <2>1 DEF SentItemsOf
<1> HIDE DEF item
<1>8. DOMAIN sq = DOMAIN q /\ \A k \in DOMAIN q : sq[k].m_packetId = q[k].m_packetId
  BY <1>7
<1> HIDE DEF sq
<1>9. u.m_sentQueue = sq
  BY <1>4 DEF BuffersOf
<1>10. IdsOf(u) = IdsOf(t)
  BY <1>6, <1>8, <1>9 DEF IdsOf
<1>11. \A k \in 1..Len(out) : out[k].m_packetId <= H
  <2>1. Len(out) = n /\ \A k \in 1..n : out[k].m_packetId = q[k].m_packetId
    BY <1>2, <1>5 DEF Resent
  <2> QED
    BY <1>1, <1>2, <2>1
<1>12. Fit(u)
  BY <1>3 DEF Fit
<1> QED
  BY <1>3, <1>10, <1>11, <1>12 DEF u, out, H

\* The ACK of the oldest packet kept: all others are above it.
LEMMA OrderedAckFit ==
  ASSUME NEW t \in BuffersOf(SeqNums), Fit(t), NEW id, IsOrderedAck(t, id),
         NEW c \in Windows
  PROVE  LET u == ProcessCongestion(ProcessOrderedAck(t, id), id, c) IN
         /\ Fit(u) /\ u.m_highestSentPacketId = t.m_highestSentPacketId
         /\ IdsOf(u) = {x \in IdsOf(t) : x > id}
<1> DEFINE a == ProcessOrderedAck(t, id)
           u == ProcessCongestion(a, id, c)
           q == t.m_sentQueue
           tail == Tail(q)
<1>1. /\ W!Good(a) /\ a.m_packetNum = t.m_packetNum
      /\ a.m_highestSentPacketId = t.m_highestSentPacketId
  BY WindowAssumption, SameBuffer, W!OrderedAckGood DEF Fit
<1>2. a = [t EXCEPT !.m_sentQueue = tail, !.m_leftBound = id]
  BY DEF ProcessOrderedAck
<1>3. /\ q \in Seq(SentItemsOf(SeqNums)) /\ q # <<>> /\ Head(q).m_packetId = id
      /\ Len(q) \in Nat /\ DOMAIN q = 1..Len(q)
      /\ \A j, k \in 1..Len(q) : j < k => q[j].m_packetId < q[k].m_packetId
      /\ IdsOf(t) = {q[k].m_packetId : k \in 1..Len(q)}
  BY FitFacts DEF IsOrderedAck
<1>4. IdsOf(t) \subseteq Int
  BY FitFacts
<1> HIDE DEF a, q
<1>5. c \in 1..MaxWindow
  BY WindowAssumption
<1>6. /\ W!Good(u) /\ u.m_packetNum = a.m_packetNum
      /\ u.m_sentQueue = a.m_sentQueue
      /\ u.m_highestSentPacketId = a.m_highestSentPacketId
  BY <1>1, <1>5, WindowAssumption, SameBuffer, W!CongestionGood
<1> HIDE DEF u
<1>7. /\ q[1].m_packetId = id /\ 1 \in 1..Len(q)
      /\ DOMAIN tail = 1..(Len(q) - 1)
      /\ \A k \in 1..(Len(q) - 1) : tail[k] = q[k + 1]
  BY <1>3
<1>8. a.m_sentQueue = tail
  BY <1>2 DEF BuffersOf
<1> HIDE DEF tail
<1>9. IdsOf(u) = {tail[k].m_packetId : k \in 1..(Len(q) - 1)}
  BY <1>6, <1>7, <1>8 DEF IdsOf
<1>10. ASSUME NEW k \in 1..(Len(q) - 1)
       PROVE  tail[k].m_packetId \in IdsOf(t) /\ tail[k].m_packetId > id
  <2>1. k + 1 \in 1..Len(q) /\ 1 < k + 1
    BY <1>3, <1>10
  <2>2. q[1].m_packetId < q[k + 1].m_packetId
    BY <1>3, <1>7, <2>1
  <2>3. q[k + 1].m_packetId \in IdsOf(t) /\ q[1].m_packetId \in IdsOf(t)
    BY <1>3, <1>7, <2>1
  <2> QED
    BY <1>4, <1>7, <1>10, <2>2, <2>3
<1>11. ASSUME NEW x \in IdsOf(t), x > id
       PROVE  x \in IdsOf(u)
  <2>1. PICK k \in 1..Len(q) : x = q[k].m_packetId
    BY <1>3
  <2>2. k # 1
    <3>1. id \in Int /\ x \in Int
      BY <1>3, <1>4, <1>7
    <3> QED
      BY <1>7, <1>11, <2>1, <3>1
  <2>3. k - 1 \in 1..(Len(q) - 1) /\ (k - 1) + 1 = k
    BY <1>3, <2>2
  <2>4. tail[k - 1].m_packetId = x
    BY <1>7, <2>1, <2>3
  <2> QED
    BY <1>9, <2>3, <2>4
<1>12. IdsOf(u) = {x \in IdsOf(t) : x > id}
  BY <1>9, <1>10, <1>11
<1>13. Fit(u)
  BY <1>1, <1>6 DEF Fit
<1> QED
  BY <1>1, <1>6, <1>12, <1>13 DEF u, a

\* Any other ACK: everything up to it is forgotten, or nothing.
LEMMA UnorderedAckFit ==
  ASSUME NEW t \in BuffersOf(SeqNums), Fit(t), NEW id \in Nat
  PROVE  LET r == ProcessUnorderedAck(t, id)
             H == t.m_highestSentPacketId
         IN  /\ Fit(r.tx) /\ r.tx.m_highestSentPacketId = H
             /\ \/ IdsOf(r.tx) = IdsOf(t)
                \/ IdsOf(r.tx) = {x \in IdsOf(t) : x > id}
             /\ \A k \in 1..Len(r.out) : r.out[k].m_packetId <= H
<1> DEFINE q == t.m_sentQueue
           H == t.m_highestSentPacketId
           L == Len(q)
           ids == [k \in DOMAIN q |-> q[k].m_packetId]
           n == FrontUpTo(ids, id)
           m == FrontUpTo(ids, id - 1)
           sq == SubSeq(q, n + 1, L)
           u == ProcessUnorderedAck(t, id).tx
           out == ProcessUnorderedAck(t, id).out
<1>1. /\ W!Good(u) /\ u.m_packetNum = t.m_packetNum
      /\ u.m_highestSentPacketId = H
  BY WindowAssumption, SameBuffer, W!UnorderedAckGood DEF Fit, W!SameWindow
<1>2. Fit(u)
  BY <1>1 DEF Fit
<1>3. /\ q \in Seq(SentItemsOf(SeqNums)) /\ H \in Nat /\ t.m_leftBound \in Nat
      /\ L \in Nat /\ DOMAIN q = 1..L
      /\ \A k \in 1..L : q[k].m_packetId \in (t.m_leftBound + 1)..H
      /\ \A j, k \in 1..L : j < k => q[j].m_packetId < q[k].m_packetId
      /\ IdsOf(t) = {q[k].m_packetId : k \in 1..L}
  BY FitFacts
<1>4. CASE q # <<>> /\ id > Head(q).m_packetId
  <2>1. u = [t EXCEPT !.m_sentQueue = sq] /\ out = [k \in 1..m |-> Sent(ids[k])]
    BY <1>4 DEF ProcessUnorderedAck
  <2> HIDE DEF u, out, q, L, H
  <2>2. /\ DOMAIN ids = 1..L /\ Len(ids) = L
        /\ \A k \in 1..L : ids[k] = q[k].m_packetId /\ ids[k] \in Int
    BY <1>3
  <2> HIDE DEF ids
  <2>3. /\ n \in 0..L /\ \A k \in 1..n : ids[k] <= id
        /\ n < L => ids[n + 1] > id
    <3>1. L \in Nat /\ id \in Int /\ \A k \in 1..L : ids[k] \in Int
      BY <1>3, <2>2
    <3> QED
      BY <2>2, <3>1, FrontUpToStops
  <2>4. m \in 0..L
    <3>1. L \in Nat /\ id - 1 \in Int /\ \A k \in 1..L : ids[k] \in Int
      BY <1>3, <2>2
    <3> QED
      BY <2>2, <3>1, FrontUpToStops
  <2> HIDE DEF n, m
  <2>5. /\ DOMAIN sq = 1..(L - n)
        /\ \A k \in 1..(L - n) : sq[k] = q[n + k]
    BY <1>3, <2>3, SuffixFacts DEF L
  <2> HIDE DEF sq
  <2>6. u.m_sentQueue = sq
    BY <2>1 DEF BuffersOf
  <2>7. IdsOf(u) = {sq[k].m_packetId : k \in 1..(L - n)}
    BY <2>5, <2>6 DEF IdsOf
  <2>8. ASSUME NEW k \in 1..(L - n)
        PROVE  sq[k].m_packetId \in IdsOf(t) /\ sq[k].m_packetId > id
    <3>1. n + k \in 1..L /\ n + 1 \in 1..L /\ n < L /\ (n + 1 = n + k \/ n + 1 < n + k)
      BY <1>3, <2>3, <2>8
    <3>2. ids[n + 1] > id /\ ids[n + 1] = q[n + 1].m_packetId
          /\ q[n + 1].m_packetId \in Int /\ q[n + k].m_packetId \in Int
      BY <2>2, <2>3, <3>1
    <3>3. n + 1 < n + k => q[n + 1].m_packetId < q[n + k].m_packetId
      BY <1>3, <3>1
    <3>4. q[n + k].m_packetId > id
      BY <3>1, <3>2, <3>3
    <3> QED
      BY <1>3, <2>5, <2>8, <3>1, <3>4
  <2>9. ASSUME NEW x \in IdsOf(t), x > id
        PROVE  x \in IdsOf(u)
    <3>1. PICK k \in 1..L : x = q[k].m_packetId
      BY <1>3
    <3>2. ~(k \in 1..n)
      BY <2>2, <2>3, <2>9, <3>1
    <3>3. k - n \in 1..(L - n) /\ n + (k - n) = k
      BY <1>3, <2>3, <3>1, <3>2
    <3>4. sq[k - n] = q[k]
      BY <2>5, <3>3
    <3> QED
      BY <2>7, <3>1, <3>3, <3>4
  <2>10. IdsOf(u) = {x \in IdsOf(t) : x > id}
    BY <2>7, <2>8, <2>9
  <2>11. \A k \in 1..Len(out) : out[k].m_packetId <= H
    <3>1. Len(out) = m /\ \A k \in 1..m : out[k].m_packetId = ids[k]
      <4>1. DOMAIN out = 1..m /\ m \in Nat /\ \A k \in 1..m : out[k] = Sent(ids[k])
        BY <1>3, <2>1, <2>4
      <4>2. Len(out) = m
        BY <4>1, LenDomain
      <4> QED
        BY <4>1, <4>2 DEF Sent
    <3>2. \A k \in 1..L : ids[k] <= H
      BY <1>3, <2>2
    <3>3. 1..m \subseteq 1..L
      BY <1>3, <2>4
    <3> HIDE DEF m
    <3> QED
      BY <3>1, <3>2, <3>3
  <2> QED
    BY <1>1, <1>2, <2>10, <2>11 DEF u, out, H
<1>5. CASE ~(q # <<>> /\ id > Head(q).m_packetId)
  <2>1. u = t /\ out = <<>>
    BY <1>5 DEF ProcessUnorderedAck
  <2> HIDE DEF u, out
  <2>2. Len(out) = 0
    BY <2>1
  <2> QED
    BY <1>1, <1>2, <2>1, <2>2 DEF u, out
<1> QED
  BY <1>4, <1>5
-----------------------------------------------------------------------------
(* Whose data travels.                                                     *)

\* The packets with data of D only.
Within(D) == {p \in DataPackets : p.data \subseteq D}

\* ProcessPacket adds the packet's data and no other.
LEMMA ProcessData ==
  ASSUME NEW D, NEW slot \in SlotStates, NEW p \in Within(D), NEW event,
         slot.data \subseteq D
  PROVE  /\ ProcessPacket(slot, p, event).slot.data \subseteq D
         /\ ProcessPacket(slot, p, event).out \in Seq(Within(D))
<1> DEFINE bits == LevelBitmap(p)
           a == [slot EXCEPT !.m_bitmap = @ \cup bits, !.m_count = @ + 1,
                             !.data = @ \cup p.data]
           r == ProcessPacket(slot, p, event)
           g == GetResultPacket(a, p)
<1> SUFFICES r.slot.data \subseteq D /\ r.out \in Seq(Within(D))
  OBVIOUS
<1>0. p \in DataPackets /\ p.data \subseteq D
  BY DEF Within
<1>1. r.out \in Seq(DataPackets)
  BY <1>0, ProcessTypes
<1>2. CASE bits \subseteq slot.m_bitmap
  <2>1. r.slot = slot /\ r.out = <<>>
    BY <1>2 DEF ProcessPacket, Outcome
  <2> QED
    BY <2>1
<1>3. CASE ~(bits \subseteq slot.m_bitmap)
  <2>1. /\ r.slot = a
        /\ r.out = IF a.m_count = LevelFanin(p) THEN <<g>> ELSE <<>>
    BY <1>3 DEF ProcessPacket, Outcome
  <2>2. a.data = slot.data \cup p.data
    <3> DEFINE d == p.data
    <3>1. a = AddedTo(slot, bits, d)
      BY Zenon DEF AddedTo
    <3> HIDE DEF a, bits, d
    <3>2. a.data = slot.data \cup d
      BY <3>1, AddedFields
    <3> QED
      BY <3>2 DEF d
  <2> HIDE DEF a
  <2>3. a.data \subseteq D
    BY <1>0, <2>2
  <2>4. g.data = a.data
    <3> DEFINE b == a.m_bitmap
               d == a.data
    <3>1. g = IF p.edge = 0 THEN [p EXCEPT !.bitmap0 = b, !.edge = 1, !.data = d]
              ELSE [p EXCEPT !.bitmap1 = b, !.edge = 0, !.data = d]
      BY DEF GetResultPacket
    <3> HIDE DEF g, b, d
    <3>2. g.data = d
      BY <1>0, <3>1 DEF DataPackets
    <3> QED
      BY <3>2 DEF d
  <2> HIDE DEF g, r
  <2>5. CASE r.out = <<>>
    <3>1. <<>> \in Seq(Within(D))
      OBVIOUS
    <3> QED
      BY <2>1, <2>3, <2>5, <3>1
  <2>6. CASE r.out = <<g>>
    <3>1. g \in DataPackets
      BY <1>1, <2>6
    <3>2. g \in Within(D)
      BY <2>3, <2>4, <3>1 DEF Within
    <3>3. r.out \in Seq(Within(D))
      BY <2>6, <3>2
    <3> QED
      BY <2>1, <2>3, <3>3
  <2> QED
    BY <2>1, <2>5, <2>6
<1> QED
  BY <1>2, <1>3

\* Nor does any other branch of FilterPacket.
LEMMA FilterData ==
  ASSUME NEW D, NEW slot \in SlotStates, NEW p \in Within(D), NEW h \in BOOLEAN,
         slot.data \subseteq D
  PROVE  /\ FilterPacket(slot, p, h).slot.data \subseteq D
         /\ FilterPacket(slot, p, h).out \in Seq(Within(D))
<1> DEFINE r == FilterPacket(slot, p, h)
           Goal == r.slot.data \subseteq D /\ r.out \in Seq(Within(D))
<1> SUFFICES Goal
  OBVIOUS
<1>0. p \in DataPackets /\ p.data \subseteq D
  BY DEF Within
<1>1. ASSUME NEW s, s.data \subseteq D, NEW q \in DataPackets, q.data \subseteq D,
             NEW e, r = Outcome(s, <<q>>, e)
      PROVE  Goal
  <2>1. r.slot = s /\ r.out = <<q>>
    BY <1>1 DEF Outcome
  <2>2. q \in Within(D)
    BY <1>1 DEF Within
  <2>3. <<q>> \in Seq(Within(D)) /\ s.data \subseteq D
    BY <1>1, <2>2
  <2> HIDE DEF r
  <2> QED
    BY <2>1, <2>3
<1>2. Reset.data \subseteq D
  BY DEF Reset
<1>3. CASE r = ResendPacket(slot, p)
  <2> DEFINE bits == slot.m_bitmap \cup p.bitmap0
             d == slot.data \cup p.data
             q == [p EXCEPT !.edge = 1, !.bitmap0 = bits, !.data = d]
  <2>1. bits \in SUBSET Bits /\ d \in SUBSET (Bits \X SeqNums) /\ d \subseteq D
    BY <1>0, PacketFields DEF SlotStates
  <2>2. r \in {Outcome(Reset, <<q>>, "release"), Outcome(Reset, <<p>>, "release")}
    BY <1>3 DEF ResendPacket
  <2> HIDE DEF bits, d
  <2>3. q \in DataPackets
    BY <1>0, <2>1, Rewritten
  <2>4. q.data = d
    BY <1>0 DEF DataPackets
  <2> HIDE DEF q, r
  <2>5. CASE r = Outcome(Reset, <<q>>, "release")
    BY <1>1, <1>2, <2>1, <2>3, <2>4, <2>5
  <2>6. CASE r = Outcome(Reset, <<p>>, "release")
    BY <1>0, <1>1, <1>2, <2>6
  <2> QED
    BY <2>2, <2>5, <2>6
<1>4. CASE r = ProcessPacket(Claim(slot, p), p, "acquire")
  <2>1. Claim(slot, p) \in SlotStates /\ Claim(slot, p).data \subseteq D
    BY <1>0, ClaimType
  <2> QED
    BY <1>4, <2>1, ProcessData
<1>5. CASE r = ProcessPacket(slot, p, "none")
  BY <1>5, ProcessData
<1>6. CASE r = Outcome(slot, <<[p EXCEPT !.resend = TRUE, !.collision = TRUE]>>,
                       "collision")
  <2> DEFINE q == [p EXCEPT !.resend = TRUE, !.collision = TRUE]
  <2>1. q \in DataPackets
    BY <1>0, Rewritten
  <2>2. q.data = p.data
    BY <1>0 DEF DataPackets
  <2> HIDE DEF q, r
  <2> QED
    BY <1>0, <1>1, <1>6, <2>1, <2>2 DEF q
<1>7. CASE r = Outcome(slot, <<p>>, "none")
  BY <1>0, <1>1, <1>7
<1> QED
  BY <1>0, <1>3, <1>4, <1>5, <1>6, <1>7, FilterBranches
-----------------------------------------------------------------------------
\* What the workers have sent so far.
SentParts ==
  {c \in Workers \X SeqNums : c[2] <= tx[c[1]].m_highestSentPacketId}

\* The network, and the server, hold data of D only.
NetworkWithin(D) ==
  /\ \A w \in Workers : up[w] \in Seq(Within(D))
  /\ \A l \in Leaves : leafUp[l] \in Seq(Within(D))
  /\ coreUp \in Seq(Within(D))
  /\ \A l \in Leaves : \A i \in Indices : slots[l][i].data \subseteq D
  /\ \A i \in Indices : coreSlots[i].data \subseteq D
ServerWithin(D) ==
  /\ \A k \in R!Key : m_aggregators[k].data \subseteq D
  /\ \A i \in DOMAIN delivered : delivered[i].data \subseteq D

\* More may have been sent.
LEMMA WithinGrows ==
  ASSUME NEW D, NEW E, D \subseteq E
  PROVE  /\ NetworkWithin(D) => NetworkWithin(E)
         /\ ServerWithin(D) => ServerWithin(E)
<1>1. Within(D) \subseteq Within(E)
  BY DEF Within
<1>2. \A q \in Seq(Within(D)) : q \in Seq(Within(E))
  BY <1>1, SeqMonotone
<1>3. NetworkWithin(D) => NetworkWithin(E)
  BY <1>2 DEF NetworkWithin
<1>4. ServerWithin(D) => ServerWithin(E)
  BY DEF ServerWithin
<1> QED
  BY <1>3, <1>4

\* A packet of a worker has that worker's data.
LEMMA TaggedWithin ==
  ASSUME FlatNumbering, NEW w \in Workers, NEW o \in OutOf(SeqNums), NEW D,
         <<w, o.m_packetId>> \in D
  PROVE  Tagged(w, o) \in Within(D)
<1>1. Tagged(w, o) \in DataPackets
  BY TaggedIsFresh DEF Fresh, FromLeaf
<1>2. Tagged(w, o).data = {<<w, o.m_packetId>>}
  BY DEF Tagged
<1> QED
  BY <1>1, <1>2 DEF Within

\* So have those on its link after a handler.
LEMMA TransmitWithin ==
  ASSUME FlatNumbering, NetworkTypes, NEW D, NetworkWithin(D),
         NEW w \in Workers, NEW r, r.out \in Seq(OutOf(SeqNums)),
         \A k \in 1..Len(r.out) : <<w, r.out[k].m_packetId>> \in D,
         Transmit(w, r), UNCHANGED <<slots, coreSlots>>
  PROVE  NetworkWithin(D)'
<1> DEFINE out == r.out
           q == [k \in DOMAIN out |-> Tagged(w, out[k])]
<1>1. up' = [up EXCEPT ![w] = @ \o q] /\ UNCHANGED <<leafUp, coreUp>>
  BY DEF Transmit
<1>2. /\ up \in [Workers -> Seq(DataPackets)] /\ up[w] \in Seq(Within(D))
  BY DEF NetworkTypes, NetworkWithin
<1>3. /\ Len(out) \in Nat /\ DOMAIN out = 1..Len(out)
      /\ \A k \in 1..Len(out) : out[k] \in OutOf(SeqNums)
  BY QueueFacts
<1>4. \A k \in 1..Len(out) : <<w, out[k].m_packetId>> \in D
  OBVIOUS
<1> HIDE DEF out
<1>5. \A k \in 1..Len(out) : Tagged(w, out[k]) \in Within(D)
  BY <1>3, <1>4, TaggedWithin
<1>6. q \in Seq(Within(D))
  BY <1>3, <1>5
<1> HIDE DEF q
<1>7. up[w] \o q \in Seq(Within(D))
  BY <1>2, <1>6, ConcatFacts
<1>8. \A v \in Workers : up'[v] = IF v = w THEN up[w] \o q ELSE up[v]
  BY <1>1, <1>2
<1>9. \A v \in Workers : up'[v] \in Seq(Within(D))
  BY <1>7, <1>8 DEF NetworkWithin
<1> QED
  BY <1>1, <1>9 DEF NetworkWithin

\* The leaf switch.
LEMMA LeafForwardWithin ==
  ASSUME IInv, NEW D, NetworkWithin(D), NEW w \in Workers, LeafForward(w)
  PROVE  NetworkWithin(D)'
<1> DEFINE l == LeafOf(w)
           p == Head(up[w])
           i == HashToIndex(p.seqNum)
           r == FilterPacket(slots[l][i], p, Hierarchical)
<1>1. /\ l \in Leaves /\ i \in Indices /\ up[w] # <<>>
      /\ slots[l][i] \in SlotStates
      /\ up' = [up EXCEPT ![w] = Tail(@)]
      /\ slots' = [slots EXCEPT ![l][i] = r.slot]
      /\ leafUp' = [leafUp EXCEPT ![l] = @ \o r.out]
  BY LeafForwardTypes
<1>2. UNCHANGED <<coreSlots, coreUp>>
  BY DEF LeafForward
<1>3. /\ up \in [Workers -> Seq(DataPackets)]
      /\ leafUp \in [Leaves -> Seq(DataPackets)]
      /\ slots \in [Leaves -> [Indices -> SlotStates]]
      /\ Hierarchical \in BOOLEAN
  BY SystemAssumption DEF IInv, NetworkTypes
<1>4. up[w] \in Seq(Within(D)) /\ leafUp[l] \in Seq(Within(D))
      /\ slots[l][i].data \subseteq D
  BY <1>1 DEF NetworkWithin
<1>5. p \in Within(D) /\ Tail(up[w]) \in Seq(Within(D))
  BY <1>1, <1>4, LinkFacts
<1> HIDE DEF p, i
<1>6. r.slot.data \subseteq D /\ r.out \in Seq(Within(D))
  BY <1>1, <1>3, <1>4, <1>5, FilterData
<1> HIDE DEF r, l
<1>7. \A v \in Workers : up'[v] \in Seq(Within(D))
  <2>1. \A v \in Workers : up'[v] = IF v = w THEN Tail(up[w]) ELSE up[v]
    BY <1>1, <1>3
  <2> QED
    BY <1>5, <2>1 DEF NetworkWithin
<1>8. leafUp[l] \o r.out \in Seq(Within(D))
  BY <1>4, <1>6, ConcatFacts
<1>9. \A m \in Leaves : leafUp'[m] \in Seq(Within(D))
  <2>1. \A m \in Leaves : leafUp'[m] = IF m = l THEN leafUp[l] \o r.out ELSE leafUp[m]
    BY <1>1, <1>3
  <2> QED
    BY <1>8, <2>1 DEF NetworkWithin
<1>10. \A m \in Leaves : \A j \in Indices : slots'[m][j].data \subseteq D
  <2>1. \A m \in Leaves : \A j \in Indices :
          slots'[m][j] = IF m = l /\ j = i THEN r.slot ELSE slots[m][j]
    BY <1>1, <1>3
  <2> QED
    BY <1>6, <2>1 DEF NetworkWithin
<1> QED
  BY <1>2, <1>7, <1>9, <1>10 DEF NetworkWithin

\* The second switch.
LEMMA CoreForwardWithin ==
  ASSUME IInv, NEW D, NetworkWithin(D), NEW l \in Leaves, CoreForward(l)
  PROVE  NetworkWithin(D)'
<1> DEFINE p == Head(leafUp[l])
           i == HashToIndex(p.seqNum)
           r == FilterPacket(coreSlots[i], p, Hierarchical)
<1>1. /\ leafUp[l] # <<>>
      /\ leafUp' = [leafUp EXCEPT ![l] = Tail(@)]
      /\ coreSlots' = [coreSlots EXCEPT ![i] = r.slot]
      /\ coreUp' = coreUp \o r.out
      /\ UNCHANGED <<slots, up>>
  BY DEF CoreForward
<1>2. /\ leafUp \in [Leaves -> Seq(DataPackets)] /\ leafUp[l] \in Seq(Within(D))
      /\ coreSlots \in [Indices -> SlotStates] /\ Hierarchical \in BOOLEAN
      /\ coreUp \in Seq(Within(D))
  BY SystemAssumption DEF IInv, NetworkTypes, NetworkWithin
<1>3. p \in Within(D) /\ Tail(leafUp[l]) \in Seq(Within(D))
  BY <1>1, <1>2, LinkFacts
<1>4. p \in DataPackets
  BY <1>3 DEF Within
<1>5. i \in Indices
  BY <1>4, PacketFields, IndexType
<1> HIDE DEF p, i
<1>6. coreSlots[i] \in SlotStates /\ coreSlots[i].data \subseteq D
  BY <1>2, <1>5 DEF NetworkWithin
<1>7. r.slot.data \subseteq D /\ r.out \in Seq(Within(D))
  BY <1>2, <1>3, <1>6, FilterData
<1> HIDE DEF r
<1>8. coreUp' \in Seq(Within(D))
  BY <1>1, <1>2, <1>7, ConcatFacts
<1>9. \A m \in Leaves : leafUp'[m] \in Seq(Within(D))
  <2>1. \A m \in Leaves : leafUp'[m] = IF m = l THEN Tail(leafUp[l]) ELSE leafUp[m]
    BY <1>1, <1>2
  <2> QED
    BY <1>3, <2>1 DEF NetworkWithin
<1>10. \A j \in Indices : coreSlots'[j].data \subseteq D
  <2>1. \A j \in Indices : coreSlots'[j] = IF j = i THEN r.slot ELSE coreSlots[j]
    BY <1>1, <1>2
  <2> QED
    BY <1>7, <2>1 DEF NetworkWithin
<1> QED
  BY <1>1, <1>8, <1>9, <1>10 DEF NetworkWithin

\* An ACK.
LEMMA AckWithin ==
  ASSUME IInv, NEW D, NetworkWithin(D), CoreAck \/ \E l \in Leaves : LeafAck(l)
  PROVE  NetworkWithin(D)'
<1>0. Reset.data \subseteq D
  BY DEF Reset
<1>1. CASE CoreAck
  <2> DEFINE s == Head(ackCore)
             i == HashToIndex(s)
             slot == FilterPacket(coreSlots[i], AckTag(s), Hierarchical).slot
  <2>1. /\ coreSlots' = [coreSlots EXCEPT ![i] = slot] /\ ackCore # <<>>
        /\ UNCHANGED <<slots, up, leafUp, coreUp>>
    BY <1>1 DEF CoreAck, data
  <2>2. ackCore \in Seq(Done) /\ coreSlots \in [Indices -> SlotStates]
    BY DEF IInv, AcksDone, NetworkTypes
  <2>3. s \in SeqNums
    BY <2>1, <2>2, LinkFacts DEF Done
  <2>4. i \in Indices
    BY <2>3, IndexType
  <2> HIDE DEF s, i
  <2>5. slot.data \subseteq D
    BY <1>0, <2>4, FilterAck DEF NetworkWithin
  <2> HIDE DEF slot
  <2>6. \A j \in Indices : coreSlots'[j] = IF j = i THEN slot ELSE coreSlots[j]
    BY <2>1, <2>2
  <2>7. \A j \in Indices : coreSlots'[j].data \subseteq D
    BY <2>5, <2>6 DEF NetworkWithin
  <2> QED
    BY <2>1, <2>7 DEF NetworkWithin
<1>2. ASSUME NEW l \in Leaves, LeafAck(l) PROVE NetworkWithin(D)'
  <2> DEFINE s == Head(ackLeaf[l])
             i == HashToIndex(s)
             slot == FilterPacket(slots[l][i], AckTag(s), Hierarchical).slot
  <2>1. /\ slots' = [slots EXCEPT ![l][i] = slot] /\ ackLeaf[l] # <<>>
        /\ UNCHANGED <<coreSlots, up, leafUp, coreUp>>
    BY <1>2 DEF LeafAck, data
  <2>2. ackLeaf[l] \in Seq(Done) /\ slots \in [Leaves -> [Indices -> SlotStates]]
    BY DEF IInv, AcksDone, NetworkTypes
  <2>3. s \in SeqNums
    BY <2>1, <2>2, LinkFacts DEF Done
  <2>4. i \in Indices
    BY <2>3, IndexType
  <2> HIDE DEF s, i
  <2>5. slot.data \subseteq D
    BY <1>0, <2>4, FilterAck DEF NetworkWithin
  <2> HIDE DEF slot
  <2>6. \A m \in Leaves : \A j \in Indices :
          slots'[m][j] = IF m = l /\ j = i THEN slot ELSE slots[m][j]
    BY <2>1, <2>2
  <2>7. \A m \in Leaves : \A j \in Indices : slots'[m][j].data \subseteq D
    BY <2>5, <2>6 DEF NetworkWithin
  <2> QED
    BY <2>1, <2>7 DEF NetworkWithin
<1> QED
  BY <1>1, <1>2

\* Losing packets.
LEMMA LoseWithin ==
  ASSUME IInv, NEW D, NetworkWithin(D), LoseData
  PROVE  NetworkWithin(D)'
<1> DEFINE S == Seq(Within(D))
<1>1. /\ UNCHANGED <<slots, coreSlots>>
      /\ up \in [Workers -> Seq(DataPackets)]
      /\ leafUp \in [Leaves -> Seq(DataPackets)]
  BY DEF LoseData, IInv, NetworkTypes
<1>2. \A q \in S : q # <<>> => Tail(q) \in S
  BY LinkFacts
<1> HIDE DEF S
<1>3. /\ \A w \in Workers : up[w] \in S
      /\ \A l \in Leaves : leafUp[l] \in S
      /\ coreUp \in S
  BY DEF NetworkWithin, S
<1>4. /\ \A w \in Workers : up'[w] \in S
      /\ \A l \in Leaves : leafUp'[l] \in S
      /\ coreUp' \in S
  <2>1. CASE LoseOneOf(up) /\ UNCHANGED <<leafUp, coreUp>>
    BY <1>1, <1>2, <1>3, <2>1 DEF LoseOneOf
  <2>2. CASE LoseOneOf(leafUp) /\ UNCHANGED <<up, coreUp>>
    BY <1>1, <1>2, <1>3, <2>2 DEF LoseOneOf
  <2>3. CASE Lose(coreUp) /\ UNCHANGED <<up, leafUp>>
    BY <1>2, <1>3, <2>3 DEF Lose
  <2> QED
    BY <2>1, <2>2, <2>3 DEF LoseData
<1> QED
  BY <1>1, <1>4 DEF NetworkWithin, S

\* The flat bitmap the server waits for names all workers.
LEMMA AllWorkersExpected ==
  ASSUME FlatNumbering
  PROVE  Tree.expectedFlatBitmap = Workers
<1> DEFINE br == Tree.branches
           n == Len(FanIns)
           flat(b) == JobTree!BranchBits(br, b, br[b].fullBitmap0)
<1>1. /\ Tree.expectedFlatBitmap = UNION {flat(b) : b \in DOMAIN br}
      /\ br = [b \in 0..(n - 1) |->
                 [fanInDegree0 |-> FanIns[b + 1],
                  fullBitmap0 |-> 0..(FanIns[b + 1] - 1)]]
  BY DEF Tree, JobTree!InstallJobTree
<1>2. n \in Nat /\ Leaves = 1..n
  BY SystemAssumption DEF Leaves
<1>3. ASSUME NEW l \in Leaves
      PROVE  l - 1 \in DOMAIN br /\ flat(l - 1) = Under(l)
  <2> DEFINE o == Offset(l)
             f == FanIns[l]
             c == l - 1
  <2>1. /\ o \in Nat /\ f \in Nat \ {0}
        /\ \A k \in 0..(f - 1) : o + k \in Bits
        /\ l \in 1..n
    BY Positions
  <2>2. JobTree!WorkerOffset(br, c) = o
    BY DEF FlatNumbering
  <2>3. c \in 0..(n - 1) /\ c + 1 = l
    BY <1>2, <2>1
  <2> HIDE DEF br, c
  <2>4. c \in DOMAIN br /\ br[c].fullBitmap0 = 0..(f - 1)
    BY <1>1, <2>3
  <2>5. flat(c) = {o + k : k \in 0..(f - 1)} \cap Bits
    BY <2>2, <2>4 DEF JobTree!BranchBits, JobTree!Uint32Bits, Bits
  <2>6. Under(l) = o..(o + f - 1)
    BY DEF Under
  <2> HIDE DEF o, f
  <2>7. {o + k : k \in 0..(f - 1)} = o..(o + f - 1)
    <3>1. ASSUME NEW x \in o..(o + f - 1)
          PROVE  x \in {o + k : k \in 0..(f - 1)}
      <4>1. x - o \in 0..(f - 1) /\ x = o + (x - o)
        BY <2>1
      <4> QED
        BY <4>1
    <3>2. \A k \in 0..(f - 1) : o + k \in o..(o + f - 1)
      BY <2>1
    <3> QED
      BY <3>1, <3>2
  <2>8. {o + k : k \in 0..(f - 1)} \cap Bits = {o + k : k \in 0..(f - 1)}
    BY <2>1
  <2>9. flat(c) = Under(l)
    BY <2>5, <2>6, <2>7, <2>8
  <2> QED
    BY <2>4, <2>9 DEF c
<1>4. ASSUME NEW b \in DOMAIN br
      PROVE  \E l \in Leaves : b = l - 1
  <2>1. b \in 0..(n - 1)
    BY <1>1, <1>4
  <2>2. b + 1 \in Leaves /\ b = (b + 1) - 1
    BY <1>2, <2>1
  <2> QED
    BY <2>2
<1> HIDE DEF flat, br
<1>5. UNION {flat(b) : b \in DOMAIN br} = UNION {Under(l) : l \in Leaves}
  BY <1>3, <1>4
<1> QED
  BY <1>1, <1>5 DEF Workers

\* A delivered packet has the data of every worker.
LEMMA DeliveredData ==
  ASSUME FlatNumbering, R!IInv, R!DeliveredComplete, NEW i \in DOMAIN delivered
  PROVE  /\ delivered[i] \in R!Packet
         /\ delivered[i].jobId = Job /\ delivered[i].seqNum \in SeqNums
         /\ delivered[i].data = Workers \X {delivered[i].seqNum}
<1>1. delivered \in Seq(R!Packet)
  BY DEF R!IInv, R!TypeOK
<1>2. delivered[i] \in R!Packet
  BY <1>1
<1> DEFINE p == delivered[i]
           f == [j \in {Job} |-> Tree]
<1>3. p.data = f[p.jobId].expectedFlatBitmap \X {p.seqNum}
  BY DEF R!DeliveredComplete
<1> HIDE DEF p
<1>4. p.jobId = Job /\ p.seqNum \in SeqNums
  BY <1>2 DEF R!Packet, p
<1>5. f[p.jobId] = Tree
  BY <1>4
<1>6. p.data = Workers \X {p.seqNum}
  BY <1>3, <1>5, AllWorkersExpected
<1> QED
  BY <1>2, <1>4, <1>6 DEF p

\* So every worker has sent what the server has delivered.
LEMMA DoneIsSent ==
  ASSUME FlatNumbering, R!IInv, R!DeliveredComplete, NEW D, ServerWithin(D),
         NEW s \in Done, NEW w \in Workers
  PROVE  <<w, s>> \in D
<1>1. PICK i \in DOMAIN delivered : R!KeyOf(delivered[i]) = <<Job, s>>
  BY DEF Done, R!IsDelivered
<1>2. delivered[i].seqNum = s
  BY <1>1 DEF R!KeyOf
<1>3. delivered[i].data = Workers \X {s}
  BY <1>2, DeliveredData
<1>4. delivered[i].data \subseteq D
  BY DEF ServerWithin
<1> QED
  BY <1>3, <1>4

\* The application reads all that the server delivers.
Reads == reading = TRUE /\ m_rxBuffer = <<>>

\* The arrival of a packet at the server.
LEMMA ServerReceiveWithin ==
  ASSUME IInv, Reads, NEW D, NetworkWithin(D), ServerWithin(D), ServerReceive
  PROVE  /\ Reads' /\ NetworkWithin(D)' /\ ServerWithin(D)'
         /\ \/ delivered' = delivered
            \/ \E q \in R!Packet : /\ ~R!IsDelivered(R!KeyOf(q))
                                   /\ delivered' = Append(delivered, q)
<1> DEFINE p == Head(coreUp)
           g == Received(p)
<1>1. /\ coreUp # <<>> /\ coreUp' = Tail(coreUp)
      /\ R!ForwardUp(g)
      /\ UNCHANGED <<slots, coreSlots, up, leafUp>>
  BY SameForwardUp DEF ServerReceive
<1>2. coreUp \in Seq(Within(D))
  BY DEF NetworkWithin
<1>3. p \in Within(D) /\ coreUp' \in Seq(Within(D))
  BY <1>1, <1>2, LinkFacts
<1>4. p \in DataPackets /\ p.data \subseteq D
  BY <1>3 DEF Within
<1>5. g \in R!Packet /\ g.data \subseteq D
  <2>1. g.data = p.data
    BY DEF Received
  <2> QED
    BY <1>4, <2>1, ReceivedType
<1> HIDE DEF p, g
<1>6. NetworkWithin(D)'
  BY <1>1, <1>3 DEF NetworkWithin
<1>7. R!IInv /\ reading /\ m_rxBuffer = <<>>
  BY DEF IInv, Reads
<1>8. /\ reading' /\ m_rxBuffer' = <<>>
      /\ \A k \in R!Key :
           m_aggregators'[k].data \subseteq m_aggregators[k].data \cup g.data
      /\ \/ delivered' = delivered
         \/ \E q \in R!Packet :
              /\ R!KeyOf(q) = R!KeyOf(g) /\ ~R!IsDelivered(R!KeyOf(q))
              /\ q.data \subseteq m_aggregators[R!KeyOf(g)].data \cup g.data
              /\ delivered' = Append(delivered, q)
  BY <1>1, <1>5, <1>7, ServerAssumption, R!ForwardUpDelivers
<1>9. Reads'
  BY <1>1, <1>8 DEF Reads, R!ForwardUp
<1>10. \A k \in R!Key : m_aggregators'[k].data \subseteq D
  BY <1>5, <1>8 DEF ServerWithin
<1>11. R!KeyOf(g) \in R!Key
  BY <1>5 DEF R!KeyOf, R!Key, R!Packet
<1>12. \A i \in DOMAIN delivered' : delivered'[i].data \subseteq D
  <2>1. CASE delivered' = delivered
    BY <2>1 DEF ServerWithin
  <2>2. ASSUME NEW q \in R!Packet, delivered' = Append(delivered, q),
               q.data \subseteq m_aggregators[R!KeyOf(g)].data \cup g.data
        PROVE  \A i \in DOMAIN delivered' : delivered'[i].data \subseteq D
    <3>1. q.data \subseteq D
      BY <1>5, <1>11, <2>2 DEF ServerWithin
    <3>2. delivered \in Seq(R!Packet)
      BY <1>7 DEF R!IInv, R!TypeOK
    <3>3. \A i \in DOMAIN Append(delivered, q) :
            \/ i \in DOMAIN delivered /\ Append(delivered, q)[i] = delivered[i]
            \/ Append(delivered, q)[i] = q
      BY <3>2
    <3>4. \A i \in DOMAIN delivered : delivered[i].data \subseteq D
      BY DEF ServerWithin
    <3> QED
      BY <2>2, <3>1, <3>3, <3>4
  <2> QED
    BY <1>8, <2>1, <2>2
<1>13. ServerWithin(D)'
  BY <1>10, <1>12 DEF ServerWithin
<1> QED
  BY <1>6, <1>8, <1>9, <1>13

\* All buffers fit, and nothing is anywhere that was not sent.
Pace ==
  /\ \A w \in Workers : Fit(tx[w])
  /\ NetworkWithin(SentParts)
  /\ ServerWithin(SentParts)
  /\ Reads

\* What a handler of worker w may leave in r: more packets sent, which are then
\* kept, or fewer kept because a later or equal one was delivered, and on the
\* link only packets it has sent.
Handled(w, r) ==
  LET high == tx[w].m_highestSentPacketId
      g == r.tx.m_highestSentPacketId
  IN  /\ Fit(r.tx) /\ r.tx \in BuffersOf(SeqNums)
      /\ r.out \in Seq(OutOf(SeqNums))
      /\ \A k \in 1..Len(r.out) : r.out[k].m_packetId <= g
      /\ \/ high <= g /\ IdsOf(r.tx) = IdsOf(tx[w]) \cup (high + 1)..g
         \/ /\ g = high
            /\ \E s \in Done : /\ s <= high
                               /\ IdsOf(r.tx) = {x \in IdsOf(tx[w]) : x > s}

\* SendWindowData.
LEMMA SendWindowPaced ==
  ASSUME IInv, Pace, NEW w \in Workers, SendWindow(w)
  PROVE  \E r : Transmit(w, r) /\ Handled(w, r)
<1> DEFINE t == tx[w]
           r == SendWindowData(t)
<1>1. t \in BuffersOf(SeqNums) /\ Fit(t) /\ SeqNums \subseteq Nat
  BY IndexType DEF IInv, NetworkTypes, Pace
<1>2. Transmit(w, r)
  BY DEF SendWindow
<1> HIDE DEF t
<1>3. /\ Fit(r.tx) /\ t.m_highestSentPacketId <= r.tx.m_highestSentPacketId
      /\ IdsOf(r.tx) = IdsOf(t) \cup
           (t.m_highestSentPacketId + 1)..r.tx.m_highestSentPacketId
      /\ \A k \in 1..Len(r.out) : r.out[k].m_packetId <= r.tx.m_highestSentPacketId
  BY <1>1, SendWindowFit
<1>4. r.tx \in BuffersOf(SeqNums) /\ r.out \in Seq(OutOf(SeqNums))
  BY <1>1, SendWindowOf
<1> HIDE DEF r
<1>5. Handled(w, r)
  BY <1>3, <1>4 DEF Handled, t
<1> QED
  BY <1>2, <1>5

\* A handler that leaves the window as it was.
LEMMA NothingHandled ==
  ASSUME NEW w \in Workers, NEW r, tx[w] \in BuffersOf(SeqNums),
         Fit(r.tx), r.tx \in BuffersOf(SeqNums), r.out \in Seq(OutOf(SeqNums)),
         r.tx.m_highestSentPacketId = tx[w].m_highestSentPacketId,
         IdsOf(r.tx) = IdsOf(tx[w]),
         \A k \in 1..Len(r.out) : r.out[k].m_packetId <= tx[w].m_highestSentPacketId
  PROVE  Handled(w, r)
<1> DEFINE high == tx[w].m_highestSentPacketId
<1>1. high \in Nat
  BY DEF BuffersOf
<1> HIDE DEF high
<1>2. high <= high /\ (high + 1)..high = {}
  BY <1>1
<1>3. IdsOf(tx[w]) = IdsOf(tx[w]) \cup {}
  OBVIOUS
<1> QED
  BY <1>2, <1>3 DEF Handled, high

\* CheckRetransmitTimeout.
LEMMA TimeoutPaced ==
  ASSUME IInv, Pace, NEW w \in Workers, Timeout(w)
  PROVE  \E r : Transmit(w, r) /\ Handled(w, r)
<1>1. PICK n \in 1..Len(tx[w].m_sentQueue) : CheckRetransmitTimeout(w, n)
  BY DEF Timeout
<1> DEFINE t == tx[w]
           r == CheckAndMoveTimeoutPackets(t, n)
<1>2. t \in BuffersOf(SeqNums) /\ Fit(t) /\ n \in 0..Len(t.m_sentQueue)
      /\ n \in 1..Len(t.m_sentQueue)
  BY <1>1 DEF IInv, NetworkTypes, Pace
<1>3. Transmit(w, r)
  BY <1>1 DEF CheckRetransmitTimeout
<1> HIDE DEF t
<1>4. /\ Fit(r.tx) /\ r.tx.m_highestSentPacketId = t.m_highestSentPacketId
      /\ IdsOf(r.tx) = IdsOf(t)
      /\ \A k \in 1..Len(r.out) : r.out[k].m_packetId <= t.m_highestSentPacketId
  BY <1>2, TimeoutFit
<1>5. r.tx \in BuffersOf(SeqNums) /\ r.out \in Seq(OutOf(SeqNums))
  BY <1>2, TimeoutOf
<1> HIDE DEF r
<1>6. Handled(w, r)
  BY <1>2, <1>4, <1>5, NothingHandled DEF t
<1> QED
  BY <1>3, <1>6

\* ReceiveAck: whatever is forgotten is not above the packet acknowledged.
LEMMA AckArrivesPaced ==
  ASSUME FlatNumbering, IInv, R!DeliveredComplete, Pace,
         NEW w \in Workers, AckArrives(w)
  PROVE  \E r : Transmit(w, r) /\ Handled(w, r)
<1>1. PICK c \in Windows : WorkerAck(w, c)
  BY DEF AckArrives
<1> DEFINE s == Head(ackWorker[w])
           t == tx[w]
           a == ProcessCongestion(ProcessOrderedAck(t, s), s, c)
           r1 == [tx |-> a, out |-> <<>>]
           r2 == ProcessUnorderedAck(t, s)
<1>2. /\ t \in BuffersOf(SeqNums) /\ Fit(t)
      /\ SeqNums \subseteq Nat /\ Done \subseteq SeqNums
      /\ ackWorker[w] \in Seq(Done) /\ ackWorker[w] # <<>>
  BY <1>1, IndexType DEF IInv, NetworkTypes, AcksDone, Done, Pace, WorkerAck
<1>3. s \in Done /\ s \in SeqNums /\ s \in Nat
  BY <1>2, LinkFacts
<1>4. s <= t.m_highestSentPacketId
  <2>1. <<w, s>> \in SentParts
    BY <1>3, DoneIsSent DEF IInv, Pace
  <2> QED
    BY <2>1 DEF SentParts
<1>5. \/ IsOrderedAck(t, s) /\ Transmit(w, r1)
      \/ Transmit(w, r2)
  BY <1>1 DEF WorkerAck
<1>6. <<>> \in Seq(OutOf(SeqNums)) /\ Len(<<>>) = 0 /\ 1..0 = {}
  OBVIOUS
<1>7. c \in Nat
  BY SystemAssumption
<1> HIDE DEF s, t
<1>8. CASE IsOrderedAck(t, s) /\ Transmit(w, r1)
  <2>1. a \in BuffersOf(SeqNums)
    BY <1>2, <1>3, <1>7, <1>8, OrderedAckOf
  <2>2. /\ Fit(a) /\ a.m_highestSentPacketId = t.m_highestSentPacketId
        /\ IdsOf(a) = {x \in IdsOf(t) : x > s}
    BY <1>2, <1>8, OrderedAckFit
  <2> HIDE DEF a
  <2>3. r1.tx = a /\ r1.out = <<>>
    OBVIOUS
  <2> HIDE DEF r1
  <2>4. Handled(w, r1)
    BY <1>3, <1>4, <1>6, <2>1, <2>2, <2>3 DEF Handled, t
  <2> QED
    BY <1>8, <2>4
<1>9. CASE Transmit(w, r2)
  <2>1. /\ Fit(r2.tx) /\ r2.tx.m_highestSentPacketId = t.m_highestSentPacketId
        /\ \/ IdsOf(r2.tx) = IdsOf(t)
           \/ IdsOf(r2.tx) = {x \in IdsOf(t) : x > s}
        /\ \A k \in 1..Len(r2.out) : r2.out[k].m_packetId <= t.m_highestSentPacketId
    BY <1>2, <1>3, UnorderedAckFit
  <2>2. r2.tx \in BuffersOf(SeqNums) /\ r2.out \in Seq(OutOf(SeqNums))
    BY <1>2, <1>3, UnorderedAckOf
  <2> HIDE DEF r2
  <2>3. CASE IdsOf(r2.tx) = IdsOf(t)
    BY <1>2, <1>9, <2>1, <2>2, <2>3, NothingHandled DEF t
  <2>4. CASE IdsOf(r2.tx) = {x \in IdsOf(t) : x > s}
    <3>1. Handled(w, r2)
      BY <1>3, <1>4, <2>1, <2>2, <2>4 DEF Handled, t
    <3> QED
      BY <1>9, <3>1
  <2> QED
    BY <2>1, <2>3, <2>4
<1> QED
  BY <1>5, <1>8, <1>9

\* What a handler does to the buffers.
LEMMA HandledBuffers ==
  ASSUME NetworkTypes, NEW w \in Workers, NEW r, Transmit(w, r), Handled(w, r)
  PROVE  /\ tx' \in [Workers -> BuffersOf(SeqNums)]
         /\ tx'[w] = r.tx /\ \A v \in Workers : v # w => tx'[v] = tx[v]
<1>1. tx' = [tx EXCEPT ![w] = r.tx] /\ r.tx \in BuffersOf(SeqNums)
  BY DEF Transmit, Handled
<1>2. tx \in [Workers -> BuffersOf(SeqNums)]
  BY DEF NetworkTypes
<1> QED
  BY <1>1, <1>2

\* The handlers keep the pace.
LEMMA WorkerKeepsPace ==
  ASSUME FlatNumbering, IInv, Pace, NEW w \in Workers, NEW r,
         Transmit(w, r), Handled(w, r), UNCHANGED <<slots, coreSlots, server>>
  PROVE  Pace'
<1> DEFINE h == tx[w].m_highestSentPacketId
           g == r.tx.m_highestSentPacketId
           D == SentParts
           E == SentParts'
<1>1. NetworkTypes /\ SeqNums \subseteq Nat /\ tx[w] \in BuffersOf(SeqNums)
  BY IndexType DEF IInv, NetworkTypes
<1>2. /\ tx' \in [Workers -> BuffersOf(SeqNums)]
      /\ tx'[w] = r.tx /\ \A v \in Workers : v # w => tx'[v] = tx[v]
  BY <1>1, HandledBuffers
<1>3. /\ Fit(r.tx) /\ r.tx \in BuffersOf(SeqNums)
      /\ r.out \in Seq(OutOf(SeqNums))
      /\ \A k \in 1..Len(r.out) : r.out[k].m_packetId <= g
      /\ g = h \/ h <= g
  BY DEF Handled
<1>4. h \in Nat /\ g \in Nat
  BY <1>1, <1>3 DEF BuffersOf
<1>5. \A v \in Workers : Fit(tx'[v])
  BY <1>2, <1>3 DEF Pace
<1>6. \A v \in Workers : \A s \in SeqNums :
        s <= tx[v].m_highestSentPacketId => s <= tx'[v].m_highestSentPacketId
  <2> SUFFICES ASSUME NEW v \in Workers, NEW s \in SeqNums,
                      s <= tx[v].m_highestSentPacketId
               PROVE  s <= tx'[v].m_highestSentPacketId
    OBVIOUS
  <2>1. CASE v # w
    BY <1>2, <2>1
  <2>2. CASE v = w
    <3>1. s \in Nat /\ s <= h
      BY <1>1, <2>2
    <3>2. s <= g
      BY <1>3, <1>4, <3>1
    <3> QED
      BY <1>2, <2>2, <3>2
  <2> QED
    BY <2>1, <2>2
<1>7. D \subseteq E
  BY <1>6 DEF SentParts
<1>8. NetworkWithin(E) /\ ServerWithin(E)
  <2> HIDE DEF D, E
  <2>1. NetworkWithin(D) /\ ServerWithin(D)
    BY DEF Pace, D
  <2> QED
    BY <1>7, <2>1, WithinGrows
<1>9. \A k \in 1..Len(r.out) : <<w, r.out[k].m_packetId>> \in E
  <2> SUFFICES ASSUME NEW k \in 1..Len(r.out)
               PROVE  <<w, r.out[k].m_packetId>> \in E
    OBVIOUS
  <2>1. r.out[k] \in OutOf(SeqNums) /\ r.out[k].m_packetId <= g
    BY <1>3
  <2>2. /\ r.out[k].m_packetId \in SeqNums
        /\ r.out[k].m_packetId <= tx'[w].m_highestSentPacketId
    BY <1>2, <2>1 DEF OutOf
  <2> QED
    BY <2>1, <2>2 DEF SentParts
<1> HIDE DEF D
<1>10. \A e : /\ NetworkWithin(e)
              /\ \A k \in 1..Len(r.out) : <<w, r.out[k].m_packetId>> \in e
              => NetworkWithin(e)'
  BY <1>1, <1>3, TransmitWithin
<1>11. NetworkWithin(SentParts)'
  BY <1>8, <1>9, <1>10 DEF NetworkWithin, E
<1>12. ServerWithin(SentParts)' /\ Reads'
  BY <1>8 DEF ServerWithin, E, server, Pace, Reads
<1> QED
  BY <1>5, <1>11, <1>12 DEF Pace

\* At the beginning no worker has sent anything.
LEMMA InitPace ==
  ASSUME Init
  PROVE  Pace
<1>1. PICK c \in Windows :
        tx = [w \in Workers |-> AddPackets(NewBuffer(c), NumPackets)]
  BY DEF Init
<1>2. \A w \in Workers : Fit(tx[w])
  BY <1>1, FilledFit
<1>3. /\ \A w \in Workers : up[w] = <<>>
      /\ \A l \in Leaves : leafUp[l] = <<>>
      /\ coreUp = <<>>
      /\ \A l \in Leaves : \A i \in Indices : slots[l][i] = Reset
      /\ \A i \in Indices : coreSlots[i] = Reset
  BY DEF Init, Indices
<1>4. \A S : <<>> \in Seq(S)
  OBVIOUS
<1>5. Reset.data = {}
  BY DEF Reset
<1>6. NetworkWithin(SentParts)
  BY <1>3, <1>4, <1>5 DEF NetworkWithin
<1>7. R!NewSocket /\ reading = TRUE
  BY SameServer DEF Init
<1>8. /\ \A k \in R!Key : m_aggregators[k].data = {}
      /\ delivered = <<>> /\ m_rxBuffer = <<>>
  BY <1>7 DEF R!NewSocket, R!NoAggregator
<1>9. ServerWithin(SentParts) /\ Reads
  BY <1>7, <1>8 DEF ServerWithin, Reads
<1> QED
  BY <1>2, <1>6, <1>9 DEF Pace

\* A step that leaves the workers alone.
LEMMA PaceStays ==
  ASSUME Pace, UNCHANGED tx, NetworkWithin(SentParts)', ServerWithin(SentParts)',
         Reads'
  PROVE  Pace'
  BY DEF Pace

\* The server, when no packet arrives.
LEMMA ServerStaysWithin ==
  ASSUME Pace, UNCHANGED <<tx, m_aggregators, delivered, reading, m_rxBuffer>>
  PROVE  ServerWithin(SentParts)' /\ Reads'
<1>1. SentParts' = SentParts
  BY DEF SentParts
<1> QED
  BY <1>1 DEF Pace, ServerWithin, Reads

\* Every step keeps the pace.
LEMMA NextPace ==
  ASSUME FlatNumbering, IInv, R!DeliveredComplete, Pace,
         [Next]_vars
  PROVE  Pace'
<1>1. ASSUME NEW w \in Workers, SendWindow(w) \/ Timeout(w) \/ AckArrives(w)
      PROVE  Pace'
  <2>1. UNCHANGED <<slots, coreSlots, server>>
    BY <1>1 DEF SendWindow, Timeout, CheckRetransmitTimeout, AckArrives, WorkerAck
  <2>2. \E r : Transmit(w, r) /\ Handled(w, r)
    BY <1>1, SendWindowPaced, TimeoutPaced, AckArrivesPaced
  <2> QED
    BY <2>1, <2>2, WorkerKeepsPace
<1> DEFINE D == SentParts
<1>2. NetworkWithin(D) /\ ServerWithin(D) /\ Reads
  BY DEF Pace
<1>3. ASSUME UNCHANGED tx
      PROVE  SentParts' = D
  BY <1>3 DEF SentParts
<1>4. ASSUME UNCHANGED tx, UNCHANGED <<slots, coreSlots, up, leafUp, coreUp>>
      PROVE  NetworkWithin(SentParts)'
  BY <1>2, <1>3, <1>4 DEF NetworkWithin
<1>5. ASSUME UNCHANGED tx, \A e : NetworkWithin(e) => NetworkWithin(e)'
      PROVE  NetworkWithin(SentParts)'
  BY <1>2, <1>3, <1>5 DEF NetworkWithin
<1>6. ASSUME UNCHANGED tx, UNCHANGED server, NetworkWithin(SentParts)'
      PROVE  Pace'
  BY <1>6, ServerStaysWithin, PaceStays DEF server
<1>7. CASE UNCHANGED vars
  BY <1>4, <1>6, <1>7 DEF vars, data
<1>8. ASSUME NEW w \in Workers, LeafForward(w) PROVE Pace'
  <2>1. UNCHANGED tx /\ UNCHANGED server
    BY <1>8 DEF LeafForward
  <2>2. \A e : NetworkWithin(e) => NetworkWithin(e)'
    BY <1>8, LeafForwardWithin
  <2> QED
    BY <1>5, <1>6, <2>1, <2>2
<1>9. ASSUME NEW l \in Leaves, CoreForward(l) PROVE Pace'
  <2>1. UNCHANGED tx /\ UNCHANGED server
    BY <1>9 DEF CoreForward
  <2>2. \A e : NetworkWithin(e) => NetworkWithin(e)'
    BY <1>9, CoreForwardWithin
  <2> QED
    BY <1>5, <1>6, <2>1, <2>2
<1>10. CASE CoreAck \/ \E l \in Leaves : LeafAck(l)
  <2>1. UNCHANGED tx /\ UNCHANGED server
    BY <1>10 DEF CoreAck, LeafAck
  <2>2. \A e : NetworkWithin(e) => NetworkWithin(e)'
    BY <1>10, AckWithin
  <2> QED
    BY <1>5, <1>6, <2>1, <2>2
<1>11. CASE LoseData
  <2>1. UNCHANGED tx /\ UNCHANGED server
    BY <1>11 DEF LoseData
  <2>2. \A e : NetworkWithin(e) => NetworkWithin(e)'
    BY <1>11, LoseWithin
  <2> QED
    BY <1>5, <1>6, <2>1, <2>2
<1>12. CASE LoseAck
  BY <1>4, <1>6, <1>12 DEF LoseAck, data
<1>13. CASE ServerAck
  <2>1. R!SendMultiAck /\ UNCHANGED tx
        /\ UNCHANGED <<slots, coreSlots, up, leafUp, coreUp>>
    BY <1>13, SameServer DEF ServerAck, data
  <2>2. UNCHANGED <<m_aggregators, delivered, reading, m_rxBuffer>>
    BY <2>1 DEF R!SendMultiAck
  <2> QED
    BY <1>4, <2>1, <2>2, ServerStaysWithin, PaceStays
<1>14. CASE ServerReceive
  <2>1. UNCHANGED tx
    BY <1>14 DEF ServerReceive
  <2>2. \A e : NetworkWithin(e) /\ ServerWithin(e)
               => Reads' /\ NetworkWithin(e)' /\ ServerWithin(e)'
    BY <1>2, <1>14, ServerReceiveWithin
  <2>3. NetworkWithin(SentParts)' /\ ServerWithin(SentParts)' /\ Reads'
    BY <1>2, <1>3, <2>1, <2>2 DEF NetworkWithin, ServerWithin
  <2> QED
    BY <2>1, <2>3, PaceStays
<1> QED
  BY <1>1, <1>7, <1>8, <1>9, <1>10, <1>11, <1>12, <1>13, <1>14 DEF Next
-----------------------------------------------------------------------------
(* The steps of the reduction.                                             *)

\* The abstract state, in the names of AllReduce.
Submitted == [w \in Workers |-> 1..tx[w].m_highestSentPacketId]
ResultOf(d, s) == UNION {d[k].data : k \in {i \in DOMAIN d : d[i].seqNum = s}}
Result == [s \in SeqNums |-> ResultOf(delivered, s)]
ConfirmedSets == [w \in Workers |-> Forgotten(w)]
Passed(w, s) == {t \in Submitted[w] : t <= s /\ s < t + MaxWindow}

\* AllReduce's steps in these names.
LEMMA ReductionSteps ==
  /\ Reduction!Init <=> /\ Submitted = [w \in Workers |-> {}]
                        /\ Result = [s \in SeqNums |-> {}]
                        /\ m_jobRx[Job] = 0
                        /\ ConfirmedSets = [w \in Workers |-> {}]
  /\ UNCHANGED <<Submitted, Result, m_jobRx[Job], ConfirmedSets>>
       => UNCHANGED Reduction!vars
  /\ \A w \in Workers :
       /\ \E more \in SUBSET (SeqNums \ Submitted[w]) :
            Submitted' = [Submitted EXCEPT ![w] = @ \cup more]
       /\ UNCHANGED <<Result, m_jobRx[Job], ConfirmedSets>>
       => Reduction!Next
  /\ \A s \in SeqNums :
       /\ Result[s] = {}
       /\ \A w \in Workers : s \in Submitted[w]
       /\ Result' = [Result EXCEPT ![s] = Workers \X {s}]
       /\ m_jobRx'[Job] = m_jobRx[Job] + 1
       /\ UNCHANGED <<Submitted, ConfirmedSets>>
       => Reduction!Next
  /\ \A w \in Workers, s \in SeqNums :
       /\ s \in Submitted[w]
       /\ Result[s] = Workers \X {s}
       /\ ConfirmedSets' = [ConfirmedSets EXCEPT ![w] = @ \cup Passed(w, s)]
       /\ UNCHANGED <<Submitted, Result, m_jobRx[Job]>>
       => Reduction!Next
<1>1. Reduction!Init <=> /\ Submitted = [w \in Workers |-> {}]
                         /\ Result = [s \in SeqNums |-> {}]
                         /\ m_jobRx[Job] = 0
                         /\ ConfirmedSets = [w \in Workers |-> {}]
  BY DEF Reduction!Init, Submitted, Result, ResultOf, ConfirmedSets
<1>2. UNCHANGED <<Submitted, Result, m_jobRx[Job], ConfirmedSets>>
        => UNCHANGED Reduction!vars
  BY DEF Reduction!vars, Submitted, Result, ResultOf, ConfirmedSets
<1>3. ASSUME NEW w \in Workers,
             \E more \in SUBSET (SeqNums \ Submitted[w]) :
               Submitted' = [Submitted EXCEPT ![w] = @ \cup more],
             UNCHANGED <<Result, m_jobRx[Job], ConfirmedSets>>
      PROVE  Reduction!Next
  BY <1>3 DEF Reduction!Next, Reduction!Submit, Submitted, Result, ResultOf,
              ConfirmedSets
<1>4. ASSUME NEW s \in SeqNums,
             Result[s] = {}, \A w \in Workers : s \in Submitted[w],
             Result' = [Result EXCEPT ![s] = Workers \X {s}],
             m_jobRx'[Job] = m_jobRx[Job] + 1,
             UNCHANGED <<Submitted, ConfirmedSets>>
      PROVE  Reduction!Next
  BY <1>4 DEF Reduction!Next, Reduction!Reduce, Submitted, Result, ResultOf,
              ConfirmedSets
<1>5. ASSUME NEW w \in Workers, NEW s \in SeqNums,
             s \in Submitted[w], Result[s] = Workers \X {s},
             ConfirmedSets' = [ConfirmedSets EXCEPT ![w] = @ \cup Passed(w, s)],
             UNCHANGED <<Submitted, Result, m_jobRx[Job]>>
      PROVE  Reduction!Next
  BY <1>5 DEF Reduction!Next, Reduction!Confirm, Reduction!UpTo, Passed,
              Submitted, Result, ResultOf, ConfirmedSets
<1> QED
  BY <1>1, <1>2, <1>3, <1>4, <1>5

\* What a worker has forgotten: all it has sent and does not keep.
LEMMA ForgottenIds ==
  ASSUME NEW w \in Workers
  PROVE  Forgotten(w) = (1..tx[w].m_highestSentPacketId) \ IdsOf(tx[w])
  BY DEF Forgotten, IdsOf

\* The result of a sequence number, once delivered, is everybody's data.
LEMMA ResultOfDone ==
  ASSUME FlatNumbering, R!IInv, R!DeliveredComplete, NEW s \in SeqNums
  PROVE  /\ s \in Done => ResultOf(delivered, s) = Workers \X {s}
         /\ s \notin Done => ResultOf(delivered, s) = {}
<1> DEFINE I == {i \in DOMAIN delivered : delivered[i].seqNum = s}
<1>1. \A i \in DOMAIN delivered :
        /\ delivered[i].jobId = Job
        /\ delivered[i].data = Workers \X {delivered[i].seqNum}
  BY DeliveredData
<1>2. \A i \in I : delivered[i].data = Workers \X {s}
  BY <1>1
<1>3. s \in Done <=> I # {}
  BY <1>1 DEF Done, R!IsDelivered, R!KeyOf
<1>4. ResultOf(delivered, s) = UNION {delivered[k].data : k \in I}
  BY DEF ResultOf
<1> HIDE DEF I
<1>5. CASE s \in Done
  <2> DEFINE P == Workers \X {s}
  <2>1. {delivered[k].data : k \in I} = {P}
    BY <1>2, <1>3, <1>5
  <2> HIDE DEF P
  <2>2. UNION {P} = P
    OBVIOUS
  <2>3. ResultOf(delivered, s) = P
    BY <1>4, <2>1, <2>2
  <2> QED
    BY <1>5, <2>3 DEF P
<1>6. CASE s \notin Done
  <2>1. {delivered[k].data : k \in I} = {}
    BY <1>3, <1>6
  <2> QED
    BY <1>4, <1>6, <2>1
<1> QED
  BY <1>5, <1>6

\* The initial state.
LEMMA InitMaps ==
  ASSUME Init
  PROVE  Reduction!Init
<1>1. delivered = <<>> /\ m_jobRx[Job] = 0
  BY SameServer DEF Init, R!NewSocket
<1>2. Result = [s \in SeqNums |-> {}]
  BY <1>1 DEF Result, ResultOf
<1>3. \A w \in Workers : tx[w].m_highestSentPacketId = 0
  <2>1. PICK c \in Windows :
          tx = [w \in Workers |-> AddPackets(NewBuffer(c), NumPackets)]
    BY DEF Init
  <2> QED
    BY <2>1, FilledFit
<1>4. Submitted = [w \in Workers |-> {}]
  BY <1>3 DEF Submitted
<1>5. ConfirmedSets = [w \in Workers |-> {}]
  BY <1>3 DEF ConfirmedSets, Forgotten
<1> QED
  BY <1>1, <1>2, <1>4, <1>5, ReductionSteps

\* A step that leaves the buffers and the deliveries alone.
LEMMA StutterMaps ==
  ASSUME UNCHANGED <<tx, delivered, m_jobRx>>
  PROVE  UNCHANGED Reduction!vars
<1>1. UNCHANGED <<Submitted, Result, m_jobRx[Job], ConfirmedSets>>
  BY DEF Submitted, Result, ResultOf, ConfirmedSets, Forgotten
<1> QED
  BY <1>1, ReductionSteps

\* A handler of a worker submits packets, or learns that one was reduced.
LEMMA WorkerMaps ==
  ASSUME FlatNumbering, IInv, R!DeliveredComplete, Pace,
         NEW w \in Workers, NEW r, Transmit(w, r), Handled(w, r),
         UNCHANGED server
  PROVE  [Reduction!Next]_(Reduction!vars)
<1> DEFINE t == tx[w]
           u == r.tx
           h == t.m_highestSentPacketId
           g == u.m_highestSentPacketId
           b == t.m_leftBound
<1>1. /\ tx' \in [Workers -> BuffersOf(SeqNums)]
      /\ tx'[w] = u /\ \A v \in Workers : v # w => tx'[v] = tx[v]
  BY HandledBuffers DEF IInv
<1>2. /\ t \in BuffersOf(SeqNums) /\ Fit(t)
      /\ u \in BuffersOf(SeqNums) /\ Fit(u)
  BY DEF IInv, NetworkTypes, Pace, Handled
<1>3. UNCHANGED <<Result, m_jobRx[Job]>>
  BY DEF server, Result, ResultOf
<1>4. /\ h \in Nat /\ b \in Nat /\ NumPackets \in Nat
      /\ h <= b + MaxWindow /\ IdsOf(t) \subseteq (b + 1)..h
  BY <1>2, FitFacts
<1>5. g \in Nat /\ g <= NumPackets
  BY <1>2, FitFacts
<1>6. MaxWindow \in Nat
  BY WindowAssumption
<1>7. /\ ConfirmedSets[w] = (1..h) \ IdsOf(t)
      /\ Submitted[w] = 1..h
  BY ForgottenIds DEF ConfirmedSets, Submitted
<1>8. /\ ConfirmedSets' = [v \in Workers |-> Forgotten(v)']
      /\ Submitted' = [v \in Workers |-> 1..tx'[v].m_highestSentPacketId]
      /\ Forgotten(w)' = (1..g) \ IdsOf(u)
      /\ \A v \in Workers : v # w => Forgotten(v)' = Forgotten(v)
  BY <1>1 DEF ConfirmedSets, Submitted, Forgotten, IdsOf
<1>9. /\ ConfirmedSets' = [ConfirmedSets EXCEPT ![w] = (1..g) \ IdsOf(u)]
      /\ Submitted' = [Submitted EXCEPT ![w] = 1..g]
  BY <1>1, <1>8 DEF ConfirmedSets, Submitted
<1>10. ConfirmedSets = [ConfirmedSets EXCEPT ![w] = ConfirmedSets[w]]
  BY DEF ConfirmedSets
<1>11. Submitted = [Submitted EXCEPT ![w] = Submitted[w]]
  BY DEF Submitted
<1>12. CASE h <= g /\ IdsOf(u) = IdsOf(t) \cup (h + 1)..g
  <2> DEFINE more == (h + 1)..g
  <2>1. (1..g) \ IdsOf(u) = (1..h) \ IdsOf(t)
    BY <1>4, <1>5, <1>12
  <2>2. 1..g = (1..h) \cup more
    BY <1>4, <1>5, <1>12
  <2>3. more \in SUBSET (SeqNums \ Submitted[w])
    BY <1>4, <1>5, <1>7 DEF SeqNums
  <2> HIDE DEF more
  <2>4. UNCHANGED ConfirmedSets
    BY <1>7, <1>9, <1>10, <2>1
  <2>5. Submitted' = [Submitted EXCEPT ![w] = @ \cup more]
    BY <1>7, <1>9, <2>2
  <2> QED
    BY <1>3, <2>3, <2>4, <2>5, ReductionSteps
<1>13. CASE g = h /\ \E s \in Done : s <= h /\ IdsOf(u) = {x \in IdsOf(t) : x > s}
  <2>1. PICK s \in Done : s <= h /\ IdsOf(u) = {x \in IdsOf(t) : x > s}
    BY <1>13
  <2>2. s \in SeqNums /\ s \in Nat /\ s >= 1
    BY SystemAssumption DEF Done, SeqNums
  <2>3. UNCHANGED Submitted
    BY <1>7, <1>9, <1>11, <1>13
  <2>4. Passed(w, s) = {x \in 1..h : x <= s /\ s < x + MaxWindow}
    BY <1>7 DEF Passed
  <2>5. \A x \in IdsOf(t) : x \in 1..h /\ s < x + MaxWindow
    BY <1>4, <1>6, <2>1, <2>2
  <2>6. (1..h) \ IdsOf(u) = ((1..h) \ IdsOf(t)) \cup Passed(w, s)
    <3>1. \A x \in 1..h : x \in IdsOf(u) <=> x \in IdsOf(t) /\ x > s
      BY <2>1
    <3>2. \A x \in 1..h : (x > s <=> ~(x <= s))
      BY <1>4, <2>2
    <3>3. \A x \in 1..h : x \in Passed(w, s) <=> x <= s /\ s < x + MaxWindow
      BY <2>4
    <3>4. Passed(w, s) \subseteq 1..h
      BY <2>4
    <3> QED
      BY <2>5, <3>1, <3>2, <3>3, <3>4
  <2>7. ConfirmedSets' = [ConfirmedSets EXCEPT ![w] = @ \cup Passed(w, s)]
    BY <1>7, <1>9, <1>13, <2>6
  <2>8. s \in Submitted[w]
    BY <1>4, <1>7, <2>1, <2>2
  <2>9. Result[s] = Workers \X {s}
    BY <2>1, <2>2, ResultOfDone DEF Result, IInv
  <2> QED
    BY <1>3, <2>2, <2>3, <2>7, <2>8, <2>9, ReductionSteps
<1> QED
  BY <1>12, <1>13 DEF Handled

\* A packet that arrives at the server reduces one sequence number, which all
\* workers have submitted, or does nothing the reduction can see.
LEMMA ServerReceiveMaps ==
  ASSUME FlatNumbering, IInv, IInv', R!DeliveredComplete, R!DeliveredComplete',
         Pace, Pace', ServerReceive
  PROVE  [Reduction!Next]_(Reduction!vars)
<1>1. UNCHANGED tx
  BY DEF ServerReceive
<1>2. UNCHANGED <<Submitted, ConfirmedSets>>
  BY <1>1 DEF Submitted, ConfirmedSets, Forgotten
<1>3. /\ R!OfJob(<<>>, Job) = 0
      /\ \A d \in Seq(R!Packet), q \in R!Packet :
           R!OfJob(d, Job) \in Nat
           /\ (q.jobId = Job => R!OfJob(Append(d, q), Job) = R!OfJob(d, Job) + 1)
  BY ServerAssumption, R!OfJobEmpty, R!OfJobAppend
<1>4. /\ m_jobRx[Job] = R!OfJob(delivered, Job)
      /\ m_jobRx'[Job] = R!OfJob(delivered', Job)
  <2>1. /\ m_jobRx[Job] \in Nat
        /\ m_jobRx[Job] + R!OfJob(m_rxBuffer, Job) = R!OfJob(delivered, Job)
    BY DEF IInv, R!IInv, R!TypeOK, R!SinkCountExact
  <2>2. /\ m_jobRx'[Job] \in Nat
        /\ m_jobRx'[Job] + R!OfJob(m_rxBuffer', Job) = R!OfJob(delivered', Job)
    BY DEF IInv, R!IInv, R!TypeOK, R!SinkCountExact
  <2>3. m_rxBuffer = <<>> /\ m_rxBuffer' = <<>>
    BY DEF Pace, Reads
  <2> QED
    BY <1>3, <2>1, <2>2, <2>3
<1>5. \/ delivered' = delivered
      \/ \E q \in R!Packet : /\ ~R!IsDelivered(R!KeyOf(q))
                             /\ delivered' = Append(delivered, q)
  BY ServerReceiveWithin DEF Pace
<1>6. CASE delivered' = delivered
  <2>1. UNCHANGED <<Result, m_jobRx[Job]>>
    BY <1>4, <1>6 DEF Result, ResultOf
  <2> QED
    BY <1>2, <2>1, ReductionSteps
<1>7. ASSUME NEW q \in R!Packet, ~R!IsDelivered(R!KeyOf(q)),
             delivered' = Append(delivered, q)
      PROVE  Reduction!Next
  <2> DEFINE s == q.seqNum
             n == Len(delivered)
  <2>1. q.jobId = Job /\ s \in SeqNums /\ delivered \in Seq(R!Packet)
    BY DEF R!Packet, IInv, R!IInv, R!TypeOK
  <2>2. m_jobRx'[Job] = m_jobRx[Job] + 1
    BY <1>3, <1>4, <1>7, <2>1
  <2>3. s \notin Done
    BY <1>7, <2>1 DEF Done, R!KeyOf
  <2>4. /\ DOMAIN delivered = 1..n /\ n \in Nat
        /\ DOMAIN delivered' = 1..(n + 1)
        /\ delivered'[n + 1] = q
        /\ \A i \in 1..n : delivered'[i] = delivered[i]
    BY <1>7, <2>1
  <2> HIDE DEF s, n
  <2>5. q.data = Workers \X {s}
    <3> DEFINE f == [j \in {Job} |-> Tree]
    <3>1. f[q.jobId] = Tree
      BY <2>1
    <3>2. n + 1 \in DOMAIN delivered'
      BY <2>4
    <3> HIDE DEF f
    <3>3. q.data = f[q.jobId].expectedFlatBitmap \X {s}
      BY <2>4, <3>2 DEF R!DeliveredComplete, f, s
    <3> QED
      BY <3>1, <3>3, AllWorkersExpected
  <2>6. ResultOf(delivered, s) = {}
    BY <2>1, <2>3, ResultOfDone DEF IInv
  <2>7. ASSUME NEW x \in SeqNums
        PROVE  ResultOf(delivered', x) =
                 IF x = s THEN Workers \X {s} ELSE ResultOf(delivered, x)
    <3> DEFINE I == {i \in DOMAIN delivered : delivered[i].seqNum = x}
               J == {i \in DOMAIN delivered' : delivered'[i].seqNum = x}
               P == Workers \X {s}
    <3>1. /\ ResultOf(delivered, x) = UNION {delivered[k].data : k \in I}
          /\ ResultOf(delivered', x) = UNION {delivered'[k].data : k \in J}
      BY DEF ResultOf
    <3>2. J = IF x = s THEN I \cup {n + 1} ELSE I
      <4>1. DOMAIN delivered' = (DOMAIN delivered) \cup {n + 1}
        BY <2>4
      <4> QED
        BY <2>4, <4>1 DEF s
    <3>3. \A i \in I : delivered'[i].data = delivered[i].data
      BY <2>4
    <3> HIDE DEF I, J
    <3>4. CASE x # s
      <4>1. {delivered'[k].data : k \in J} = {delivered[k].data : k \in I}
        BY <3>2, <3>3, <3>4
      <4> QED
        BY <3>1, <3>4, <4>1
    <3>5. CASE x = s
      <4>1. I = {}
        <5>1. \A i \in DOMAIN delivered : delivered[i].seqNum # s
          <6>1. \A i \in DOMAIN delivered : delivered[i].jobId = Job
            BY DeliveredData DEF IInv
          <6> QED
            BY <2>1, <2>3, <6>1 DEF Done, R!IsDelivered, R!KeyOf
        <5> QED
          BY <3>5, <5>1 DEF I
      <4>2. {delivered'[k].data : k \in J} = {q.data}
        BY <2>4, <3>2, <3>5, <4>1
      <4>3. UNION {q.data} = q.data
        OBVIOUS
      <4> QED
        BY <2>5, <3>1, <3>5, <4>2, <4>3
    <3> QED
      BY <3>4, <3>5
  <2>8. Result' = [Result EXCEPT ![s] = Workers \X {s}]
    BY <2>1, <2>7 DEF Result
  <2>9. Result[s] = {}
    BY <2>1, <2>6 DEF Result
  <2>10. \A w \in Workers : s \in Submitted[w]
    <3> SUFFICES ASSUME NEW w \in Workers PROVE s \in Submitted[w]
      OBVIOUS
    <3>1. n + 1 \in DOMAIN delivered' /\ delivered'[n + 1].data = Workers \X {s}
      BY <2>4, <2>5
    <3>2. <<w, s>> \in SentParts'
      BY <3>1 DEF Pace, ServerWithin
    <3>3. s <= tx[w].m_highestSentPacketId
      BY <1>1, <3>2 DEF SentParts
    <3>4. s \in Nat /\ 1 <= s
      BY <2>1, SystemAssumption DEF SeqNums
    <3>5. tx[w].m_highestSentPacketId \in Nat
      BY DEF IInv, NetworkTypes, BuffersOf
    <3> QED
      BY <3>3, <3>4, <3>5 DEF Submitted
  <2> QED
    BY <1>2, <2>1, <2>2, <2>8, <2>9, <2>10, ReductionSteps
<1> QED
  BY <1>5, <1>6, <1>7

\* Every step of the system is a step of the reduction or none.
LEMMA NextMaps ==
  ASSUME FlatNumbering, IInv, IInv', R!DeliveredComplete,
         R!DeliveredComplete', Pace, Pace', [Next]_vars
  PROVE  [Reduction!Next]_(Reduction!vars)
<1>1. ASSUME NEW w \in Workers, SendWindow(w) \/ Timeout(w) \/ AckArrives(w)
      PROVE  [Reduction!Next]_(Reduction!vars)
  <2>1. UNCHANGED server
    BY <1>1 DEF SendWindow, Timeout, CheckRetransmitTimeout, AckArrives, WorkerAck
  <2>2. \E r : Transmit(w, r) /\ Handled(w, r)
    BY <1>1, SendWindowPaced, TimeoutPaced, AckArrivesPaced
  <2> QED
    BY <2>1, <2>2, WorkerMaps
<1>2. ASSUME UNCHANGED tx, UNCHANGED server
      PROVE  UNCHANGED Reduction!vars
  BY <1>2, StutterMaps DEF server
<1>3. CASE UNCHANGED vars
  BY <1>2, <1>3 DEF vars
<1>4. CASE \E w \in Workers : LeafForward(w)
  BY <1>2, <1>4 DEF LeafForward
<1>5. CASE \E l \in Leaves : CoreForward(l) \/ LeafAck(l)
  BY <1>2, <1>5 DEF CoreForward, LeafAck
<1>6. CASE CoreAck \/ LoseData \/ LoseAck
  BY <1>2, <1>6 DEF CoreAck, LoseData, LoseAck
<1>7. CASE ServerAck
  <2>1. R!SendMultiAck /\ UNCHANGED tx
    BY <1>7, SameServer DEF ServerAck
  <2>2. UNCHANGED <<delivered, m_jobRx>>
    BY <2>1 DEF R!SendMultiAck
  <2> QED
    BY <2>1, <2>2, StutterMaps
<1>8. CASE ServerReceive
  BY <1>8, ServerReceiveMaps
<1> QED
  BY <1>1, <1>3, <1>4, <1>5, <1>6, <1>7, <1>8 DEF Next

(***************************************************************************)
(* With workers under more than one leaf and no aggregation at the second  *)
(* switch, whatever windows congestion control chooses, the system         *)
(* implements AllReduce: each sequence number reaches the sink once,       *)
(* summed over all workers, all of which have sent it, the sink's count is *)
(* the number of them, and a worker takes a packet out of its              *)
(* retransmission queue only after that packet, or a later one less than a *)
(* window away (ProcessUnorderedAck), was handed to the sink, whatever is  *)
(* lost, collides, comes twice or times out too early.                     *)
(***************************************************************************)
THEOREM SystemImplementsAllReduce ==
  ASSUME WorkersFit, Len(FanIns) >= 2, ~Hierarchical
  PROVE  Spec => ImplementsAllReduce
<1> FlatNumbering
  BY NumberingIsFlat
<1> DEFINE Inv == IInv /\ Honesty /\ Pace
<1>1. Init => Inv
  BY InitIInv, InitHonesty, InitPace
<1>2. IInv /\ Honesty => R!DeliveredComplete
  BY DEF Honesty, R!Truthful
<1>3. Inv /\ [Next]_vars => Inv'
  BY <1>2, NextIInv, NextHonesty, NextPace
<1>4. Init => Reduction!Init
  BY InitMaps
<1>5. Inv /\ Inv' /\ [Next]_vars => [Reduction!Next]_(Reduction!vars)
  <2>1. IInv' /\ Honesty' => R!DeliveredComplete'
    BY DEF Honesty, R!Truthful
  <2> QED
    BY <1>2, <2>1, NextMaps
<1> HIDE DEF Inv
<1> QED
  BY <1>1, <1>3, <1>4, <1>5, PTL DEF Spec, ImplementsAllReduce, Reduction!Spec
=============================================================================
