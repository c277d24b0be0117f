---------------------------- MODULE MCATPReceiver ----------------------------
(***************************************************************************)
(* A parameter server of job 1, whose workers sit two under one leaf and   *)
(* one under another, and packets of job 2, which it has no tree for.      *)
(***************************************************************************)
EXTENDS ATPReceiver

MCTree == InstallJobTree(<<2, 1>>)
MCJobTreeMap == [j \in {1} |-> MCTree]

MCPacket(j, s, b0, b1) ==
  [jobId |-> j, seqNum |-> s, bitmap0 |-> b0, bitmap1 |-> b1,
   data |-> ConvertToFlatBitmap(MCTree, b0, b1) \X {s}]

\* One worker's packet, a leaf's result or a merged retransmission, the
\* other leaf's result, and the result of a second-level switch.
MCBitmaps == {<<{0}, {0}>>, <<{1}, {0}>>, <<{0, 1}, {0}>>, <<{0}, {1}>>,
              <<{0}, {0, 1}>>}

\* The last sequence number comes fully aggregated only, to bound the run.
\* No ATPBulkSendApplication sends sequence number 0, but the socket accepts it
\* from any application; without it rcvNext would never leave 0.
MCArrivals ==
  {MCPacket(1, s, b[1], b[2]) : s \in SeqNums \ {2}, b \in MCBitmaps}
    \cup {MCPacket(1, s, {0}, {0, 1}) : s \in SeqNums \cap {2}}
    \cup {MCPacket(2, 1, {0}, {0})}

ASSUME MCTruthfulArrivals == TruthfulArrivals
=============================================================================
