----------------------------- MODULE ATPJobTree -----------------------------
(***************************************************************************)
(* struct JobTree (atp-socket.h): how the parameter server turns the two   *)
(* bitmaps of a packet into one flat bitmap over all workers of the job.   *)
(*                                                                         *)
(* A tree is [fullBitmap1, branches, expectedFlatBitmap], where branches   *)
(* maps a bit position of bitmap1 to [fanInDegree0, fullBitmap0].  A worker *)
(* is named by its position in the flat bitmap.                            *)
(***************************************************************************)
EXTENDS Naturals, Sequences, FiniteSetsExt

\* Bits of a uint32_t: what is shifted past the last one is lost.
Uint32Bits == 0..31

\* Mutant: the offset is advanced before the branch is used.
WorkerOffsetAfter(branches, b) ==
  MapThenSumSet(LAMBDA c : branches[c].fanInDegree0,
                {c \in DOMAIN branches : c <= b})

\* worker_offset when the loop reaches branch b: the fan-ins before it.
WorkerOffset(branches, b) ==
  MapThenSumSet(LAMBDA c : branches[c].fanInDegree0,
                {c \in DOMAIN branches : c < b})

\* The flat bits of the workers of branch b at positions bits.
BranchBits(branches, b, bits) ==
  {WorkerOffset(branches, b) + k : k \in bits \cap branches[b].fullBitmap0}
    \cap Uint32Bits

ConvertToFlatBitmap(tree, bitmap0, bitmap1) ==
  IF bitmap1 = tree.fullBitmap1
  THEN tree.expectedFlatBitmap
  ELSE UNION {BranchBits(tree.branches, b, bitmap0) :
                b \in DOMAIN tree.branches \cap bitmap1}

IsAggregationComplete(tree, flat) == flat = tree.expectedFlatBitmap

\* The tree InstallApplications (main-experiment.cc) builds for a job whose
\* k-th leaf has fanin[k] of its workers.
InstallJobTree(fanin) ==
  LET branches == [b \in 0..(Len(fanin) - 1) |->
                     [fanInDegree0 |-> fanin[b + 1],
                      fullBitmap0 |-> 0..(fanin[b + 1] - 1)]]
  IN  [fullBitmap1 |-> 0..(Len(fanin) - 1),
       branches |-> branches,
       expectedFlatBitmap |->
         UNION {BranchBits(branches, b, branches[b].fullBitmap0) :
                  b \in DOMAIN branches}]
=============================================================================
