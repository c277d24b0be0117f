---------------------------- MODULE ATPAggregator ----------------------------
(***************************************************************************)
(* One aggregation slot of a switch and what a packet does to it:          *)
(* class Aggregator (atp-aggregator.{h,cc}) and the per-packet decisions   *)
(* of ATPL4Protocol::FilterPacket and ::AggregatePacket.                   *)
(*                                                                         *)
(* A 32-bit bitmap is the set of its one-bit positions: & is \cap, | is    *)
(* \cup, and (a & b) == a is a \subseteq b.  A packet is its ATPTag.  The  *)
(* field "data" is not in the code, whose packets carry no payload: it     *)
(* records whose gradients, of which sequence number, a payload would sum  *)
(* up, so that what a bitmap claims can be compared with what really was   *)
(* aggregated.                                                             *)
(*                                                                         *)
(* Left out of the slot: m_total, m_ecn (both written and never read), the *)
(* stored packet and the first arrival time (they only feed timestamps).   *)
(***************************************************************************)
EXTENDS Naturals, Sequences

\* The state of a slot after the constructor and after Aggregator::Reset.
Reset == [m_bitmap |-> {}, m_count |-> 0, m_jobId |-> 0, m_seqNum |-> 0,
          data |-> {}]

IsEmpty(slot) == slot.m_count = 0

\* Mutant: the sequence number is not compared.
MatchesJobOnly(slot, p) == slot.m_jobId = p.jobId

\* The slot is held by the packet's (jobId, seqNum).
Matches(slot, p) == slot.m_jobId = p.jobId /\ slot.m_seqNum = p.seqNum

\* The bitmap and the fan-in of the level the packet is at.
LevelBitmap(p) == IF p.edge = 0 THEN p.bitmap0 ELSE p.bitmap1
LevelFanin(p) == IF p.edge = 0 THEN p.fanin0 ELSE p.fanin1

\* The packet a slot sends upstream when its last contribution is p.
GetResultPacket(slot, p) ==
  IF p.edge = 0
  THEN [p EXCEPT !.bitmap0 = slot.m_bitmap, !.edge = 1, !.data = slot.data]
  ELSE [p EXCEPT !.bitmap1 = slot.m_bitmap, !.edge = 0, !.data = slot.data]

(***************************************************************************)
(* What handling a packet amounts to: the slot afterwards, the packets     *)
(* handed back to routing (none when the slot keeps it), whether the slot  *)
(* was acquired or released (OnAggAcquire, OnAggRelease) and whether a     *)
(* hash collision was counted.                                             *)
(***************************************************************************)
Outcome(slot, out, event) == [slot |-> slot, out |-> out, event |-> event]

\* Aggregator::ProcessPacket on a slot that p may use; event is "acquire"
\* when p has just claimed it.
ProcessPacket(slot, p, event) ==
  LET bits  == LevelBitmap(p)
      added == [slot EXCEPT !.m_bitmap = @ \cup bits, !.m_count = @ + 1,
                            !.data = @ \cup p.data]
  IN  IF bits \subseteq slot.m_bitmap
      THEN Outcome(slot, <<>>, event)
      ELSE Outcome(added,
                   IF added.m_count = LevelFanin(p)
                   THEN <<GetResultPacket(added, p)>> ELSE <<>>,
                   event)

\* Mutant: the claim forgets the sequence number.
ClaimJobOnly(slot, p) == [slot EXCEPT !.m_jobId = p.jobId]

\* A non-resend packet takes an empty slot for its (jobId, seqNum).
Claim(slot, p) == [slot EXCEPT !.m_jobId = p.jobId, !.m_seqNum = p.seqNum]

\* Mutant: a retransmission that is in the slot already frees it without
\* OnAggRelease.
ResendUncounted(slot, p) ==
  IF p.edge = 0 /\ ~(p.bitmap0 \subseteq slot.m_bitmap)
  THEN Outcome(Reset,
               <<[p EXCEPT !.edge = 1, !.bitmap0 = slot.m_bitmap \cup @,
                           !.data = slot.data \cup @]>>, "release")
  ELSE Outcome(Reset, <<p>>, "none")

\* A retransmission that finds its own slot: it empties the slot, carrying
\* the slot's bits upstream when it is itself missing from them.
ResendPacket(slot, p) ==
  IF p.edge = 0 /\ ~(p.bitmap0 \subseteq slot.m_bitmap)
  THEN Outcome(Reset,
               <<[p EXCEPT !.edge = 1, !.bitmap0 = slot.m_bitmap \cup @,
                           !.data = slot.data \cup @]>>, "release")
  ELSE Outcome(Reset, <<p>>, "release")

\* Mutants: no collision is seen, and the newcomer takes the slot; a
\* retransmission empties whatever slot it is hashed to.
AggregateStealing(slot, p) ==
  CASE p.resend /\ Matches(slot, p)  -> ResendPacket(slot, p)
    [] p.resend /\ ~Matches(slot, p) -> Outcome(slot, <<p>>, "none")
    [] OTHER                         -> ProcessPacket(Claim(slot, p), p, "none")

AggregateResendUnmatched(slot, p) ==
  CASE p.resend                      -> ResendPacket(slot, p)
    [] ~p.resend /\ IsEmpty(slot)    -> ProcessPacket(Claim(slot, p), p, "acquire")
    [] OTHER                         -> ProcessPacket(slot, p, "none")

\* ATPL4Protocol::AggregatePacket.
AggregatePacket(slot, p) ==
  CASE p.resend /\ Matches(slot, p)  -> ResendPacket(slot, p)
    [] p.resend /\ ~Matches(slot, p) -> Outcome(slot, <<p>>, "none")
    [] ~p.resend /\ IsEmpty(slot)    -> ProcessPacket(Claim(slot, p), p, "acquire")
    [] ~p.resend /\ ~IsEmpty(slot) /\ Matches(slot, p)
                                     -> ProcessPacket(slot, p, "none")
    [] OTHER -> Outcome(slot,
                        <<[p EXCEPT !.resend = TRUE, !.collision = TRUE]>>,
                        "collision")

\* ATPL4Protocol::FilterPacket for a packet with an ATP tag (one without is
\* returned as it is, and touches no slot).
FilterPacket(slot, p, hierarchical) ==
  CASE p.isAck /\ Matches(slot, p)  -> Outcome(Reset, <<p>>, "release")
    [] p.isAck /\ ~Matches(slot, p) -> Outcome(slot, <<p>>, "none")
    [] ~p.isAck /\ (p.collision \/ (~hierarchical /\ p.edge = 1))
                                    -> Outcome(slot, <<p>>, "none")
    [] OTHER                        -> AggregatePacket(slot, p)
=============================================================================
