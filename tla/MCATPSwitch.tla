----------------------------- MODULE MCATPSwitch -----------------------------
(***************************************************************************)
(* A leaf switch shared by two jobs of two workers each.                   *)
(***************************************************************************)
EXTENDS ATPSwitch

\* For one and two slots this is what Aggregator::HashToIndex computes: both
\* multipliers are odd, so the low bit of the xor is the parity of j + s.
MCHash(j, s, n) == (j + s) % n

MCTag(j, s, b) ==
  [jobId |-> j, seqNum |-> s, bitmap0 |-> {b}, bitmap1 |-> {0},
   fanin0 |-> 2, fanin1 |-> 2, edge |-> 0, resend |-> FALSE,
   collision |-> FALSE, isAck |-> FALSE, data |-> {<<j, b>>}]

\* A worker's packet fresh and resent, the result of another leaf passing
\* by, a packet that has met a collision, and the job's ACK.
MCArrivals ==
  UNION {LET t == MCTag(j, s, b) IN
           {t, [t EXCEPT !.resend = TRUE],
            [t EXCEPT !.edge = 1, !.bitmap1 = {1}],
            [t EXCEPT !.edge = 1, !.bitmap1 = {1}, !.resend = TRUE],
            [t EXCEPT !.resend = TRUE, !.collision = TRUE],
            [t EXCEPT !.bitmap0 = {}, !.bitmap1 = {}, !.isAck = TRUE,
                      !.data = {}]} :
         j \in {1, 2}, s \in {1, 2}, b \in {0, 1}}

MCWorkers == {1, 2} \X {0, 1}
=============================================================================
